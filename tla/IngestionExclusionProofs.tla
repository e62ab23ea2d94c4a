---------------------- MODULE IngestionExclusionProofs ----------------------
(***************************************************************************)
(* The advisory lock excludes simultaneous processing of one job when no   *)
(* two threads share a process, and with it a connection pool.             *)
(*                                                                         *)
(* PostgreSQL gives locks to connections, so the argument follows the      *)
(* connection.  A process with one thread never opens a second connection: *)
(* the session holds it or it is the only one in the pool, so every        *)
(* statement of the thread runs on it and it is never closed for lack of   *)
(* room.  The lock a thread took is therefore still held by the connection *)
(* the thread's next statement will use.                                   *)
(***************************************************************************)
EXTENDS IngestionPipelineProofs

OneThreadPerProcess ==
  /\ \A s, t \in Sessions : ProcOf[s] = ProcOf[t] => s = t
  /\ \A p \in Procs : \E s \in Sessions : ProcOf[s] = p

\* c is the open connection of the process of s.
Has(s, c) ==
  \/ conn[s] = c
  \/ (conn[s] = NoConn /\ PoolOf(s) # <<>> /\ Head(PoolOf(s)) = c)

\* A process has at most one open connection.
OneConnection ==
  \A s \in Sessions :
    PoolOf(s) = <<>> \/ (conn[s] = NoConn /\ Tail(PoolOf(s)) = <<>>)

\* No two processes have the same connection.
OwnConnection ==
  \A s, t \in Sessions, c \in Conns : Has(s, c) /\ Has(t, c) => s = t

PoolInv == OneConnection /\ OwnConnection

\* Closed connections hold no locks.
LocksAreOpen ==
  \A c \in Conns, j \in Jobs :
    locks[c][j] > 0 => \E s \in Sessions : Has(s, c)

\* A lock is held by one connection.
OneHolder ==
  \A c, d \in Conns, j \in Jobs : locks[c][j] > 0 /\ locks[d][j] > 0 => c = d

\* The connection of a thread in its critical section holds the job's lock.
HolderIsLocked ==
  \A s \in Sessions :
    Critical(s) => \E c \in Conns : Has(s, c) /\ locks[c][task[s]] > 0

LockInv == LocksAreOpen /\ OneHolder /\ HolderIsLocked

ExclusionInv == PoolInv /\ LockInv

-----------------------------------------------------------------------------
\* The open connection of a process is the one the next statement runs on.
LEMMA HasIsConnFor ==
  ASSUME NEW s \in Sessions, NEW c \in Conns, Has(s, c)
  PROVE  c = ConnFor(s)
BY NullAssumption DEF Has, ConnFor

\* An open connection counts as open.
LEMMA HasIsOpen ==
  ASSUME PoolOK, NEW s \in Sessions, NEW c \in Conns, Has(s, c)
  PROVE  c \in Open
<1>1. ProcOf[s] \in Procs
  BY SessionsAssumption
<1>2. CASE conn[s] = c
  BY <1>2 DEF Open
<1>3. CASE PoolOf(s) # <<>> /\ Head(PoolOf(s)) = c
  <2>1. PoolOf(s) \in Seq(Conns)
    BY <1>1 DEF PoolOK, PoolOf
  <2>2. 1 \in 1..Len(PoolOf(s)) /\ PoolOf(s)[1] = c
    BY <1>3, <2>1
  <2> QED
    BY <1>1, <2>2 DEF Open, PoolOf
<1> QED
  BY <1>2, <1>3 DEF Has

\* The connection of the next statement belongs to no other process.
LEMMA ConnForIsOwn ==
  ASSUME PoolOK, OwnConnection, NEW s \in Sessions, NEW t \in Sessions, t # s,
         Connectable(s)
  PROVE  ~Has(t, ConnFor(s))
<1>1. ConnFor(s) \in Conns
  BY StatementConnection
<1>2. CASE conn[s] # NoConn \/ PoolOf(s) # <<>>
  <2>1. Has(s, ConnFor(s))
    BY <1>2 DEF Has, ConnFor
  <2> QED
    BY <1>1, <2>1 DEF OwnConnection
<1>3. CASE conn[s] = NoConn /\ PoolOf(s) = <<>>
  <2>1. ConnFor(s) \notin Open
    BY <1>3 DEF Connectable, ConnFor
  <2> QED
    BY <1>1, <2>1, HasIsOpen
<1> QED
  BY <1>2, <1>3

\* A statement leaves the process with the connection it ran on, open, and the
\* other processes with theirs; the pool has room for it.
LEMMA StatementKeepsConnection ==
  ASSUME OneThreadPerProcess, PoolOK, PoolInv, NEW s \in Sessions, NEW lk,
         Hold(s, lk) \/ GiveBack(s, lk)
  PROVE  /\ locks' = lk
         /\ PoolInv'
         /\ ConnFor(s) \in Conns
         /\ \A c \in Conns : Has(s, c)' <=> c = ConnFor(s)
         /\ \A t \in Sessions \ {s}, c \in Conns : Has(t, c)' <=> Has(t, c)
<1>1. Connectable(s)
  BY DEF Hold, GiveBack
<1>2. ConnFor(s) \in Conns /\ ConnFor(s) # NoConn /\ ProcOf[s] \in Procs
  BY <1>1, StatementConnection, NullAssumption, SessionsAssumption
<1>3. Rest(s) = <<>>
  <2>1. PoolOf(s) \in Seq(Conns)
    BY <1>2 DEF PoolOK, PoolOf
  <2>2. CASE PoolOf(s) = <<>>
    BY <2>2 DEF Rest
  <2>3. CASE PoolOf(s) # <<>>
    <3>1. conn[s] = NoConn /\ Tail(PoolOf(s)) = <<>>
      BY <2>3 DEF PoolInv, OneConnection
    <3> QED
      BY <2>3, <3>1 DEF Rest
  <2> QED
    BY <2>2, <2>3
<1>4. /\ locks' = lk
      /\ \/ conn'[s] = ConnFor(s) /\ idle'[ProcOf[s]] = <<>>
         \/ conn'[s] = NoConn /\ idle'[ProcOf[s]] = <<ConnFor(s)>>
      /\ \A t \in Sessions \ {s} :
           conn'[t] = conn[t] /\ idle'[ProcOf[t]] = idle[ProcOf[t]]
  <2>1. \A t \in Sessions \ {s} : ProcOf[t] # ProcOf[s] /\ ProcOf[t] \in Procs
    BY SessionsAssumption DEF OneThreadPerProcess
  <2>2. CASE Hold(s, lk)
    BY <1>2, <1>3, <2>1, <2>2 DEF Hold, PoolOK
  <2>3. CASE GiveBack(s, lk)
    <3>1. Len(Rest(s)) < PoolSize
      BY <1>3, LimitsAssumption
    <3>2. Append(Rest(s), ConnFor(s)) = <<ConnFor(s)>>
      BY <1>2, <1>3
    <3> QED
      BY <1>2, <2>1, <2>3, <3>1, <3>2 DEF GiveBack, PoolOK
  <2> QED
    BY <2>2, <2>3
<1>5. \A t \in Sessions \ {s}, c \in Conns : Has(t, c)' <=> Has(t, c)
  BY <1>4 DEF Has, PoolOf
<1>6. \A c \in Conns : Has(s, c)' <=> c = ConnFor(s)
  <2>1. <<ConnFor(s)>> # <<>> /\ Head(<<ConnFor(s)>>) = ConnFor(s)
    BY <1>2
  <2> QED
    BY <1>2, <1>4, <2>1, NullAssumption DEF Has, PoolOf
<1>7. OneConnection'
  <2>1. Tail(<<ConnFor(s)>>) = <<>>
    BY <1>2
  <2>2. PoolOf(s)' = <<>> \/ (conn'[s] = NoConn /\ Tail(PoolOf(s)') = <<>>)
    BY <1>4, <2>1 DEF PoolOf
  <2>3. \A t \in Sessions \ {s} :
          PoolOf(t)' = <<>> \/ (conn'[t] = NoConn /\ Tail(PoolOf(t)') = <<>>)
    BY <1>4 DEF PoolOf, PoolInv, OneConnection
  <2> QED
    BY <2>2, <2>3 DEF OneConnection
<1>8. OwnConnection'
  BY <1>1, <1>5, <1>6, ConnForIsOwn DEF PoolInv, OwnConnection
<1> QED
  BY <1>2, <1>4, <1>5, <1>6, <1>7, <1>8 DEF PoolInv

-----------------------------------------------------------------------------
(***************************************************************************)
(* What the statements of one thread do to the locks.                      *)
(***************************************************************************)
OthersStay(s) ==
  \A t \in Sessions \ {s} : pc'[t] = pc[t] /\ task'[t] = task[t]

\* A statement that leaves the lock table alone.
LEMMA PlainStatement ==
  ASSUME OneThreadPerProcess, TypeOK, ExclusionInv, NEW s \in Sessions,
         Hold(s, locks) \/ GiveBack(s, locks),
         OthersStay(s), Critical(s)' => Critical(s) /\ task'[s] = task[s]
  PROVE  ExclusionInv'
<1>1. /\ locks' = locks /\ PoolInv'
      /\ \A c \in Conns : Has(s, c)' <=> c = ConnFor(s)
      /\ \A t \in Sessions \ {s}, c \in Conns : Has(t, c)' <=> Has(t, c)
  BY StatementKeepsConnection DEF TypeOK, ExclusionInv
<1>2. \A t \in Sessions, c \in Conns : Has(t, c) => Has(t, c)'
  BY <1>1, HasIsConnFor
<1>3. LocksAreOpen'
  BY <1>1, <1>2 DEF ExclusionInv, LockInv, LocksAreOpen
<1>4. OneHolder'
  BY <1>1 DEF ExclusionInv, LockInv, OneHolder
<1>5. \A t \in Sessions : Critical(t)' => Critical(t) /\ task'[t] = task[t]
  BY DEF OthersStay, Critical
<1>6. HolderIsLocked'
  BY <1>1, <1>2, <1>5 DEF ExclusionInv, LockInv, HolderIsLocked
<1> QED
  BY <1>1, <1>3, <1>4, <1>6 DEF ExclusionInv, LockInv

\* A statement that takes a lock it was granted.
LEMMA LockStatement ==
  ASSUME OneThreadPerProcess, TypeOK, ExclusionInv, NEW s \in Sessions,
         task[s] \in Jobs, Grantable(s, task[s]),
         Hold(s, Locked(s, task[s])) \/ GiveBack(s, Locked(s, task[s])),
         OthersStay(s), Critical(s)' => task'[s] = task[s]
  PROVE  ExclusionInv'
<1>1. /\ locks' = Locked(s, task[s]) /\ PoolInv'
      /\ ConnFor(s) \in Conns
      /\ \A c \in Conns : Has(s, c)' <=> c = ConnFor(s)
      /\ \A t \in Sessions \ {s}, c \in Conns : Has(t, c)' <=> Has(t, c)
  BY StatementKeepsConnection DEF TypeOK, ExclusionInv
<1>2. \A t \in Sessions, c \in Conns : Has(t, c) => Has(t, c)'
  BY <1>1, HasIsConnFor
<1>3. \A c \in Conns, j \in Jobs :
        locks[c][j] \in Nat
        /\ locks'[c][j] = IF c = ConnFor(s) /\ j = task[s]
                          THEN locks[c][j] + 1 ELSE locks[c][j]
  BY <1>1 DEF Locked, TypeOK, PoolOK, LockTables
<1>4. \A c \in Conns : c # ConnFor(s) => locks[c][task[s]] = 0
  BY DEF Grantable
<1>5. LocksAreOpen'
  BY <1>1, <1>2, <1>3 DEF ExclusionInv, LockInv, LocksAreOpen
<1>6. OneHolder'
  BY <1>3, <1>4 DEF ExclusionInv, LockInv, OneHolder
<1>7. HolderIsLocked'
  <2> SUFFICES ASSUME NEW t \in Sessions, Critical(t)'
               PROVE  \E c \in Conns : Has(t, c)' /\ locks'[c][task'[t]] > 0
    BY DEF HolderIsLocked
  <2>1. CASE t = s
    <3>1. locks'[ConnFor(s)][task[s]] > 0
      BY <1>1, <1>3
    <3> QED
      BY <1>1, <2>1, <3>1
  <2>2. CASE t # s
    <3>1. Critical(t) /\ task'[t] = task[t]
      BY <2>2 DEF OthersStay, Critical
    <3>2. task[t] \in Jobs
      <4>1. pc[t] # "idle"
        BY <3>1 DEF Critical
      <4> QED
        BY <4>1, BusyHasJob DEF TypeOK
    <3>3. PICK c \in Conns : Has(t, c) /\ locks[c][task[t]] > 0
      BY <3>1 DEF ExclusionInv, LockInv, HolderIsLocked
    <3>4. locks'[c][task[t]] > 0
      BY <1>3, <3>2, <3>3
    <3> QED
      BY <1>2, <3>1, <3>3, <3>4
  <2> QED
    BY <2>1, <2>2
<1> QED
  BY <1>1, <1>5, <1>6, <1>7 DEF ExclusionInv, LockInv

\* A statement that releases a lock, at the end of the critical section.
LEMMA UnlockStatement ==
  ASSUME OneThreadPerProcess, TypeOK, ExclusionInv, NEW s \in Sessions,
         task[s] \in Jobs,
         Hold(s, Unlocked(s, task[s])) \/ GiveBack(s, Unlocked(s, task[s])),
         OthersStay(s), ~Critical(s)'
  PROVE  ExclusionInv'
<1>1. /\ locks' = Unlocked(s, task[s]) /\ PoolInv'
      /\ ConnFor(s) \in Conns
      /\ \A c \in Conns : Has(s, c)' <=> c = ConnFor(s)
      /\ \A t \in Sessions \ {s}, c \in Conns : Has(t, c)' <=> Has(t, c)
  BY StatementKeepsConnection DEF TypeOK, ExclusionInv
<1>2. \A t \in Sessions, c \in Conns : Has(t, c) => Has(t, c)'
  BY <1>1, HasIsConnFor
<1>3. \A c \in Conns, j \in Jobs :
        /\ locks[c][j] \in Nat
        /\ locks'[c][j] \in Nat
        /\ locks'[c][j] <= locks[c][j]
        /\ c # ConnFor(s) => locks'[c][j] = locks[c][j]
  BY <1>1 DEF Unlocked, TypeOK, PoolOK, LockTables
<1>4. \A c \in Conns, j \in Jobs : locks'[c][j] > 0 => locks[c][j] > 0
  BY <1>3
<1>5. LocksAreOpen'
  BY <1>2, <1>4 DEF ExclusionInv, LockInv, LocksAreOpen
<1>6. OneHolder'
  BY <1>4 DEF ExclusionInv, LockInv, OneHolder
<1>7. HolderIsLocked'
  <2> SUFFICES ASSUME NEW t \in Sessions, Critical(t)'
               PROVE  \E c \in Conns : Has(t, c)' /\ locks'[c][task'[t]] > 0
    BY DEF HolderIsLocked
  <2>1. t # s
    OBVIOUS
  <2>2. Critical(t) /\ task'[t] = task[t]
    BY <2>1 DEF OthersStay, Critical
  <2>3. task[t] \in Jobs
    <3>1. pc[t] # "idle"
      BY <2>2 DEF Critical
    <3> QED
      BY <3>1, BusyHasJob DEF TypeOK
  <2>4. PICK c \in Conns : Has(t, c) /\ locks[c][task[t]] > 0
    BY <2>2 DEF ExclusionInv, LockInv, HolderIsLocked
  <2>5. c # ConnFor(s)
    <3>1. Connectable(s)
      BY DEF Hold, GiveBack
    <3> QED
      BY <2>1, <2>4, <3>1, ConnForIsOwn DEF TypeOK, ExclusionInv, PoolInv
  <2>6. locks'[c][task[t]] > 0
    BY <1>3, <2>3, <2>4, <2>5
  <2> QED
    BY <1>2, <2>2, <2>4, <2>6
<1> QED
  BY <1>1, <1>5, <1>6, <1>7 DEF ExclusionInv, LockInv

\* A step without a statement, of one thread or of the broker.
LEMMA NoStatement ==
  ASSUME ExclusionInv, UNCHANGED pool,
         \A t \in Sessions : Critical(t)' => Critical(t) /\ task'[t] = task[t]
  PROVE  ExclusionInv'
<1>1. \A t \in Sessions, c \in Conns : Has(t, c)' <=> Has(t, c)
  BY DEF Has, PoolOf, pool
<1>2. PoolInv'
  BY <1>1 DEF ExclusionInv, PoolInv, OneConnection, OwnConnection, PoolOf, pool
<1>3. LockInv'
  BY <1>1
     DEF ExclusionInv, LockInv, LocksAreOpen, OneHolder, HolderIsLocked, pool
<1> QED
  BY <1>2, <1>3 DEF ExclusionInv

\* A commit moves only the thread that commits: on to the next step, or out.
LEMMA SaveMoves ==
  ASSUME TypeOK, NEW s \in Sessions, NEW lk, NEW new, NEW step,
         Save(s, lk, new, step)
  PROVE  /\ GiveBack(s, lk)
         /\ OthersStay(s)
         /\ \/ pc'[s] = step /\ task'[s] = task[s]
            \/ pc'[s] = "idle"
BY DEF Save, Fail, Raise, Return, Leave, Goto, OthersStay, TypeOK, SessionOK

\* The same for a thread that leaves.
LEMMA LeaveMoves ==
  ASSUME TypeOK, NEW s \in Sessions, Leave(s)
  PROVE  OthersStay(s) /\ ~Critical(s)'
BY DEF Leave, Goto, OthersStay, Critical, TypeOK, SessionOK

LEMMA GotoMoves ==
  ASSUME TypeOK, NEW s \in Sessions, NEW step, Goto(s, step), UNCHANGED task
  PROVE  OthersStay(s) /\ pc'[s] = step /\ task'[s] = task[s]
BY DEF Goto, OthersStay, TypeOK, SessionOK

-----------------------------------------------------------------------------
(***************************************************************************)
(* The invariant, action by action.                                        *)
(***************************************************************************)
LEMMA WorkerKeepsExclusion ==
  ASSUME OneThreadPerProcess, TypeOK, ExclusionInv, NEW w \in Workers, WorkerStep(w)
  PROVE  ExclusionInv'
<1>1. w \in Sessions
  BY DEF Sessions
<1>2. pc[w] # "idle" => task[w] \in Jobs
  BY <1>1, BusyHasJob DEF TypeOK
<1>3. \A step : Goto(w, step) /\ task' = task =>
        OthersStay(w) /\ pc'[w] = step /\ task'[w] = task[w]
  BY <1>1, GotoMoves
<1>4. Leave(w) => OthersStay(w) /\ ~Critical(w)'
  BY <1>1, LeaveMoves
<1>5. CASE \E j \in Jobs, n \in Deliveries : Receive(w, j, n)
  <2>1. PICK j \in Jobs, n \in Deliveries : Receive(w, j, n)
    BY <1>5
  <2>2. \A t \in Sessions : Critical(t)' => Critical(t) /\ task'[t] = task[t]
    BY <1>1, <2>1 DEF Receive, Goto, Critical, TypeOK, SessionOK
  <2> QED
    BY <2>1, <2>2, NoStatement DEF Receive
<1>6. CASE TryLock(w)
  <2>1. task[w] \in Jobs
    BY <1>2, <1>6 DEF TryLock
  <2>2. CASE Grantable(w, task[w])
    <3>1. Hold(w, Locked(w, task[w])) /\ OthersStay(w) /\ task'[w] = task[w]
      BY <1>3, <1>6, <2>2 DEF TryLock
    <3> QED
      BY <1>1, <2>1, <2>2, <3>1, LockStatement
  <2>3. CASE ~Grantable(w, task[w])
    <3>1. GiveBack(w, locks) /\ OthersStay(w) /\ ~Critical(w)'
      BY <1>4, <1>6, <2>3 DEF TryLock, Raise
    <3> QED
      BY <1>1, <3>1, PlainStatement
  <2> QED
    BY <2>2, <2>3
<1>7. CASE LoadFinished(w)
  <2>1. /\ Critical(w) /\ OthersStay(w) /\ task'[w] = task[w]
        /\ pool' = pool
    BY <1>3, <1>7 DEF LoadFinished, Critical
  <2>2. \A t \in Sessions : Critical(t)' => Critical(t) /\ task'[t] = task[t]
    BY <2>1 DEF OthersStay, Critical
  <2> QED
    BY <2>1, <2>2, NoStatement
<1>8. CASE LoadQueued(w) \/ LoadInterrupted(w)
  <2>1. /\ Critical(w) /\ OthersStay(w) /\ task'[w] = task[w]
        /\ GiveBack(w, locks)
    BY <1>3, <1>8 DEF LoadQueued, LoadInterrupted, LoadedAs, Critical
  <2> QED
    BY <1>1, <2>1, PlainStatement
<1>9. ASSUME Critical(w), NEW new, NEW step, Save(w, locks, new, step)
      PROVE  ExclusionInv'
  <2>1. /\ GiveBack(w, locks) /\ OthersStay(w)
        /\ Critical(w)' => task'[w] = task[w]
    BY <1>1, <1>9, SaveMoves DEF Critical
  <2> QED
    BY <1>1, <1>9, <2>1, PlainStatement
<1>10. CASE \/ Verify(w) \/ Inspect(w) \/ Extract(w) \/ ChunkFailed(w)
            \/ ReplaceCanonicalContent(w)
  <2>1. Critical(w)
    BY <1>10
       DEF Critical, Verify, Inspect, Extract, ChunkFailed, ReplaceCanonicalContent
  <2>2. \E new, step : Save(w, locks, new, step)
    BY <1>10
       DEF Verify, Inspect, Extract, ChunkFailed, ReplaceCanonicalContent,
           StageDone, StageFailed, StageUnavailable
  <2> QED
    BY <1>9, <2>1, <2>2
<1>11. CASE GetDocument(w)
  <2>1. Critical(w)
    BY <1>11 DEF GetDocument, Critical
  <2>2. CASE job[task[w]] = NoRow
    <3>1. GiveBack(w, locks) /\ OthersStay(w) /\ ~Critical(w)'
      BY <1>4, <1>11, <2>2 DEF GetDocument, Raise
    <3> QED
      BY <1>1, <3>1, PlainStatement
  <2>3. CASE job[task[w]] # NoRow
    <3>1. Hold(w, locks) /\ OthersStay(w) /\ task'[w] = task[w]
      BY <1>3, <1>11, <2>3 DEF GetDocument
    <3> QED
      BY <1>1, <2>1, <3>1, PlainStatement
  <2> QED
    BY <2>2, <2>3
<1>12. CASE RejectCanonicalContent(w)
  <2>1. GiveBack(w, locks) /\ OthersStay(w) /\ ~Critical(w)'
    BY <1>4, <1>12 DEF RejectCanonicalContent, Raise
  <2> QED
    BY <1>1, <2>1, PlainStatement
<1>13. CASE Release(w)
  <2>1. task[w] \in Jobs
    BY <1>2, <1>13 DEF Release
  <2>2. GiveBack(w, Unlocked(w, task[w])) /\ OthersStay(w) /\ ~Critical(w)'
    BY <1>4, <1>13 DEF Release, Return, Raise
  <2> QED
    BY <1>1, <2>1, <2>2, UnlockStatement
<1> QED
  BY <1>5, <1>6, <1>7, <1>8, <1>10, <1>11, <1>12, <1>13 DEF WorkerStep

LEMMA RequestKeepsExclusion ==
  ASSUME OneThreadPerProcess, TypeOK, ExclusionInv, NEW r \in Requests,
         StartCall(r) \/ RequestStep(r)
  PROVE  ExclusionInv'
<1>1. r \in Sessions
  BY DEF Sessions
<1>2. pc[r] # "idle" => task[r] \in Jobs
  BY <1>1, BusyHasJob DEF TypeOK
<1>3. \A step : Goto(r, step) /\ task' = task =>
        OthersStay(r) /\ pc'[r] = step /\ task'[r] = task[r]
  BY <1>1, GotoMoves
<1>4. Return(r) => OthersStay(r) /\ ~Critical(r)'
  BY <1>1, LeaveMoves DEF Return
<1>5. ASSUME Hold(r, locks) \/ GiveBack(r, locks), OthersStay(r), ~Critical(r)'
      PROVE  ExclusionInv'
  BY <1>1, <1>5, PlainStatement
<1>6. ASSUME StartCall(r)
      PROVE  ExclusionInv'
  <2>1. PICK j \in Jobs : \/ Upload(r, j) \/ FindForRetry(r, j)
                          \/ Delete(r, j) \/ FindForReprocessing(r, j)
    BY <1>6 DEF StartCall
  <2>2. pc[r] = "idle"
    BY <2>1 DEF Upload, FindForRetry, Delete, FindForReprocessing, Call
  <2>3. Hold(r, locks) \/ GiveBack(r, locks)
    BY <2>1 DEF Upload, FindForRetry, Delete, FindForReprocessing
  <2>4. ASSUME NEW row, NEW step, Begin(r, j, row, step),
               step \in {"refresh", "send", "reset", "lockreset", "reprocess"}
        PROVE  OthersStay(r) /\ ~Critical(r)'
    BY <1>1, <2>4 DEF Begin, Goto, OthersStay, Critical, TypeOK, SessionOK
  <2>5. session' = session => OthersStay(r) /\ ~Critical(r)'
    BY <2>2 DEF session, OthersStay, Critical
  <2>6. OthersStay(r) /\ ~Critical(r)'
    <3>1. CASE Upload(r, j)
      BY <2>4, <3>1 DEF Upload
    <3>2. CASE FindForRetry(r, j)
      <4>1. CASE job[j].status = "ready_for_indexing"
        BY <2>5, <3>2, <4>1 DEF FindForRetry
      <4>2. CASE job[j].status # "ready_for_indexing"
        <5>1. job[j] \in JobRow
          BY <3>2, PresentRow DEF FindForRetry, TypeOK, DbOK
        <5>2. job[j].status \in {"queued", "failed"} \cup ActiveStatuses
          BY <4>2, <5>1 DEF JobRow, JobStatuses, FinalStatuses
        <5>3. RetryStep(job[j].status) \in {"send", "reset", "lockreset"}
          BY <5>2 DEF RetryStep, ActiveStatuses
        <5> QED
          BY <2>4, <3>2, <4>2, <5>3 DEF FindForRetry
      <4> QED
        BY <4>1, <4>2
    <3>3. CASE Delete(r, j)
      BY <2>5, <3>3 DEF Delete
    <3>4. CASE FindForReprocessing(r, j)
      BY <2>4, <3>4 DEF FindForReprocessing
    <3> QED
      BY <2>1, <3>1, <3>2, <3>3, <3>4
  <2> QED
    BY <1>5, <2>3, <2>6
<1>7. CASE Refresh(r)
  <2>1. CASE job[task[r]] = NoRow
    BY <1>4, <1>5, <1>7, <2>1 DEF Refresh
  <2>2. CASE job[task[r]] # NoRow
    <3>1. Hold(r, locks) /\ OthersStay(r) /\ pc'[r] = "send"
      BY <1>3, <1>7, <2>2 DEF Refresh
    <3> QED
      BY <1>5, <3>1 DEF Critical
  <2> QED
    BY <2>1, <2>2
<1>8. CASE ResetFailed(r)
  <2>1. GiveBack(r, locks) /\ OthersStay(r) /\ pc'[r] \in {"send", "idle"}
    BY <1>1, <1>8, SaveMoves DEF ResetFailed
  <2> QED
    BY <1>5, <2>1 DEF Critical
<1>9. CASE LockReset(r)
  <2>1. task[r] \in Jobs
    BY <1>2, <1>9 DEF LockReset
  <2>2. CASE Grantable(r, task[r])
    <3>1. /\ GiveBack(r, Locked(r, task[r])) /\ OthersStay(r)
          /\ Critical(r)' => task'[r] = task[r]
      BY <1>1, <1>9, <2>2, SaveMoves DEF LockReset, Critical
    <3> QED
      BY <1>1, <2>1, <2>2, <3>1, LockStatement
  <2>3. CASE ~Grantable(r, task[r])
    BY <1>4, <1>5, <1>9, <2>3 DEF LockReset
  <2> QED
    BY <2>2, <2>3
<1>10. CASE Unlock(r)
  <2>1. task[r] \in Jobs
    BY <1>2, <1>10 DEF Unlock
  <2>2. Hold(r, Unlocked(r, task[r])) /\ OthersStay(r) /\ pc'[r] = "send"
    BY <1>3, <1>10 DEF Unlock
  <2> QED
    BY <1>1, <2>1, <2>2, UnlockStatement DEF Critical
<1>11. CASE Send(r)
  <2>1. OthersStay(r) /\ pc'[r] = "record" /\ pool' = pool
    BY <1>3, <1>11 DEF Send
  <2>2. \A t \in Sessions : Critical(t)' => Critical(t) /\ task'[t] = task[t]
    BY <2>1 DEF OthersStay, Critical
  <2> QED
    BY <2>1, <2>2, NoStatement
<1>12. CASE SendFails(r)
  <2>1. OthersStay(r) /\ ~Critical(r)'
    BY <1>4, <1>12 DEF SendFails
  <2>2. CASE conn[r] = NoConn
    <3>1. pool' = pool
      BY <1>12, <2>2 DEF SendFails, Close
    <3>2. \A t \in Sessions : Critical(t)' => Critical(t) /\ task'[t] = task[t]
      BY <2>1 DEF OthersStay, Critical
    <3> QED
      BY <3>1, <3>2, NoStatement
  <2>3. CASE conn[r] # NoConn
    BY <1>5, <1>12, <2>1, <2>3 DEF SendFails, Close
  <2> QED
    BY <2>2, <2>3
<1>13. CASE RecordDispatch(r) \/ Reprocess(r)
  BY <1>4, <1>5, <1>13 DEF RecordDispatch, Reprocess
<1> QED
  BY <1>6, <1>7, <1>8, <1>9, <1>10, <1>11, <1>12, <1>13 DEF RequestStep

\* What a process has open is the connection of its thread.
LEMMA HeldByThread ==
  ASSUME OneThreadPerProcess, PoolOK, OneConnection, NEW p \in Procs,
         NEW c \in HeldByProc(p)
  PROVE  \E s \in Sessions : ProcOf[s] = p /\ Has(s, c)
<1>1. CASE \E s \in Sessions : ProcOf[s] = p /\ conn[s] = c
  BY <1>1 DEF Has
<1>2. CASE \E i \in 1..Len(idle[p]) : idle[p][i] = c
  <2>1. PICK i \in 1..Len(idle[p]) : idle[p][i] = c
    BY <1>2
  <2>2. PICK s \in Sessions : ProcOf[s] = p
    BY DEF OneThreadPerProcess
  <2>3. PoolOf(s) = idle[p] /\ idle[p] \in Seq(Conns) /\ idle[p] # <<>>
    BY <2>1, <2>2 DEF PoolOf, PoolOK
  <2>4. conn[s] = NoConn /\ Tail(idle[p]) = <<>>
    BY <2>3 DEF OneConnection
  <2>5. Len(idle[p]) = 1
    <3>1. Len(idle[p]) \in Nat /\ Len(idle[p]) # 0
      BY <2>3
    <3>2. Len(Tail(idle[p])) = Len(idle[p]) - 1
      BY <2>3
    <3>3. Len(<<>>) = 0
      OBVIOUS
    <3>4. Len(Tail(idle[p])) = 0
      BY <2>4, <3>3, Zenon
    <3> QED
      BY <3>1, <3>2, <3>4
  <2>6. Head(idle[p]) = c
    BY <2>1, <2>3, <2>5
  <2> QED
    BY <2>2, <2>3, <2>4, <2>6 DEF Has
<1> QED
  BY <1>1, <1>2 DEF HeldByProc

\* A crash closes the connections of one process and of no other.
LEMMA CrashKeepsExclusion ==
  ASSUME OneThreadPerProcess, TypeOK, ExclusionInv, NEW p \in Procs, Crash(p)
  PROVE  ExclusionInv'
<1>1. \A s \in Sessions :
        ProcOf[s] # p => /\ pc'[s] = pc[s] /\ task'[s] = task[s]
                         /\ conn'[s] = conn[s] /\ PoolOf(s)' = PoolOf(s)
  BY SessionsAssumption DEF Crash, PoolOf, TypeOK, PoolOK
<1>2. \A s \in Sessions :
        ProcOf[s] = p => /\ pc'[s] = "idle"
                         /\ conn'[s] = NoConn /\ PoolOf(s)' = <<>>
  BY SessionsAssumption DEF Crash, PoolOf, TypeOK, PoolOK
<1>3. \A s \in Sessions, c \in Conns : Has(s, c)' <=> (ProcOf[s] # p /\ Has(s, c))
  BY <1>1, <1>2, NullAssumption DEF Has
<1>4. \A c \in Conns, j \in Jobs :
        locks'[c][j] = IF c \in HeldByProc(p) THEN 0 ELSE locks[c][j]
  BY DEF Crash, NoLocks, TypeOK, PoolOK
<1>5. \A s \in Sessions, c \in Conns :
        Has(s, c) /\ ProcOf[s] # p => c \notin HeldByProc(p)
  BY HeldByThread DEF TypeOK, ExclusionInv, PoolInv, OwnConnection
<1>6. \A s \in Sessions, c \in Conns :
        Has(s, c) /\ ProcOf[s] = p => c \in HeldByProc(p)
  <2> SUFFICES ASSUME NEW s \in Sessions, NEW c \in Conns, Has(s, c), ProcOf[s] = p
               PROVE  c \in HeldByProc(p)
    OBVIOUS
  <2>1. CASE conn[s] = c
    BY <2>1 DEF HeldByProc
  <2>2. CASE PoolOf(s) # <<>> /\ Head(PoolOf(s)) = c
    <3>1. PoolOf(s) = idle[p] /\ idle[p] \in Seq(Conns)
      BY DEF PoolOf, TypeOK, PoolOK
    <3>2. 1 \in 1..Len(idle[p]) /\ idle[p][1] = c
      BY <2>2, <3>1
    <3> QED
      BY <3>2 DEF HeldByProc
  <2> QED
    BY <2>1, <2>2 DEF Has
<1>7. PoolInv'
  <2>1. OneConnection'
    BY <1>1, <1>2 DEF ExclusionInv, PoolInv, OneConnection
  <2>2. OwnConnection'
    BY <1>3 DEF ExclusionInv, PoolInv, OwnConnection
  <2> QED
    BY <2>1, <2>2 DEF PoolInv
<1>8. \A c \in Conns, j \in Jobs :
        locks'[c][j] > 0 => c \notin HeldByProc(p) /\ locks[c][j] > 0
  BY <1>4
<1>9. LocksAreOpen'
  BY <1>3, <1>6, <1>8 DEF ExclusionInv, LockInv, LocksAreOpen
<1>10. OneHolder'
  BY <1>8 DEF ExclusionInv, LockInv, OneHolder
<1>11. HolderIsLocked'
  <2> SUFFICES ASSUME NEW s \in Sessions, Critical(s)'
               PROVE  \E c \in Conns : Has(s, c)' /\ locks'[c][task'[s]] > 0
    BY DEF HolderIsLocked
  <2>1. ProcOf[s] # p
    BY <1>2 DEF Critical
  <2>2. Critical(s) /\ task'[s] = task[s]
    BY <1>1, <2>1 DEF Critical
  <2>3. task[s] \in Jobs
    <3>1. pc[s] # "idle"
      BY <2>2 DEF Critical
    <3> QED
      BY <3>1, BusyHasJob DEF TypeOK
  <2>4. PICK c \in Conns : Has(s, c) /\ locks[c][task[s]] > 0
    BY <2>2 DEF ExclusionInv, LockInv, HolderIsLocked
  <2> QED
    BY <1>3, <1>4, <1>5, <2>1, <2>2, <2>3, <2>4
<1> QED
  BY <1>7, <1>9, <1>10, <1>11 DEF ExclusionInv, LockInv

LEMMA StepKeepsExclusion ==
  ASSUME OneThreadPerProcess, TypeOK, ExclusionInv, [Next]_vars
  PROVE  ExclusionInv'
<1>1. CASE \E w \in Workers : WorkerStep(w)
  BY <1>1, WorkerKeepsExclusion
<1>2. CASE \E r \in Requests : StartCall(r) \/ RequestStep(r)
  BY <1>2, RequestKeepsExclusion
<1>3. CASE \E p \in Procs : Crash(p)
  BY <1>3, CrashKeepsExclusion
<1>4. ASSUME UNCHANGED <<session, pool>>
      PROVE  ExclusionInv'
  <2>1. \A t \in Sessions : Critical(t)' => Critical(t) /\ task'[t] = task[t]
    BY <1>4 DEF Critical, session
  <2>2. pool' = pool
    BY <1>4
  <2> QED
    BY <2>1, <2>2, NoStatement
<1>5. CASE \/ \E w \in Workers : Redeliver(w)
           \/ \E j \in Jobs, n \in Deliveries : LoseMessage(j, n)
  BY <1>4, <1>5 DEF Redeliver, LoseMessage
<1>6. CASE UNCHANGED vars
  BY <1>4, <1>6 DEF vars
<1> QED
  BY <1>1, <1>2, <1>3, <1>5, <1>6 DEF Next, Failure

LEMMA InitExclusion ==
  ASSUME Init
  PROVE  ExclusionInv
<1>1. \A s \in Sessions : PoolOf(s) = <<>> /\ conn[s] = NoConn /\ ~Critical(s)
  BY SessionsAssumption DEF Init, PoolOf, Critical
<1>2. \A s \in Sessions, c \in Conns : ~Has(s, c)
  BY <1>1, NullAssumption DEF Has
<1>3. \A c \in Conns, j \in Jobs : locks[c][j] = 0
  BY DEF Init, NoLocks
<1>4. PoolInv
  BY <1>1, <1>2 DEF PoolInv, OneConnection, OwnConnection
<1>5. LockInv
  BY <1>1, <1>3 DEF LockInv, LocksAreOpen, OneHolder, HolderIsLocked
<1> QED
  BY <1>4, <1>5 DEF ExclusionInv

-----------------------------------------------------------------------------
\* In a deployment whose processes run one thread each, no two threads process
\* or reset the same job at the same time, and every release of a job's lock
\* reaches the connection that holds it, whatever is deleted, delivered again,
\* lost or interrupted (_try_acquire_job_lock and _release_job_lock over the
\* connection pool of app/db/session.py).
THEOREM Exclusion ==
  ASSUME OneThreadPerProcess
  PROVE  Spec => [](MutualExclusion /\ UnlockReachesLock)
<1>1. Init => ExclusionInv
  BY InitExclusion
<1>2. TypeOK /\ ExclusionInv /\ [Next]_vars => ExclusionInv'
  BY StepKeepsExclusion
<1>3. TypeOK /\ ExclusionInv => MutualExclusion
  <2> SUFFICES ASSUME TypeOK, ExclusionInv, NEW s \in Sessions, NEW t \in Sessions,
                      Critical(s), Critical(t), task[s] = task[t]
               PROVE  s = t
    BY DEF MutualExclusion
  <2>1. task[s] \in Jobs
    <3>1. pc[s] # "idle"
      BY DEF Critical
    <3> QED
      BY <3>1, BusyHasJob DEF TypeOK
  <2>2. PICK c \in Conns : Has(s, c) /\ locks[c][task[s]] > 0
    BY DEF ExclusionInv, LockInv, HolderIsLocked
  <2>3. PICK d \in Conns : Has(t, d) /\ locks[d][task[t]] > 0
    BY DEF ExclusionInv, LockInv, HolderIsLocked
  <2>4. c = d
    BY <2>1, <2>2, <2>3 DEF ExclusionInv, LockInv, OneHolder
  <2> QED
    BY <2>2, <2>3, <2>4 DEF ExclusionInv, PoolInv, OwnConnection
<1>4. ExclusionInv => UnlockReachesLock
  <2> SUFFICES ASSUME ExclusionInv, NEW s \in Sessions,
                      pc[s] \in {"release", "abort", "unlock"}
               PROVE  locks[ConnFor(s)][task[s]] > 0
    BY DEF UnlockReachesLock
  <2>1. PICK c \in Conns : Has(s, c) /\ locks[c][task[s]] > 0
    BY DEF ExclusionInv, LockInv, HolderIsLocked, Critical
  <2> QED
    BY <2>1, HasIsConnFor
<1> QED
  BY <1>1, <1>2, <1>3, <1>4, TypeCorrect, PTL DEF Spec
=============================================================================
