------------------------- MODULE IngestionPipeline -------------------------
(***************************************************************************)
(* The ingestion pipeline: API requests create, retry and delete jobs,     *)
(* worker threads process them (app/services/ingestion_jobs.py,            *)
(* app/workers/tasks.py, app/api/documents.py), over                       *)
(*   - the ingestion_jobs rows and the canonical content in PostgreSQL,    *)
(*   - PostgreSQL's session-level advisory locks, which belong to a        *)
(*     database connection and not to the code that asked for them,        *)
(*   - the connection pool of each process, to which a session returns its *)
(*     connection at every commit and from which it takes one, not         *)
(*     necessarily the same, at the next statement,                        *)
(*   - Dramatiq's at-least-once delivery with a bounded number of retries. *)
(*                                                                         *)
(* A step of the model is one statement, or one transaction when all its   *)
(* statements concern one row that it locks.                               *)
(***************************************************************************)
EXTENDS JobRows, FiniteSets, Sequences

CONSTANTS
  Jobs,                   \* ingestion jobs, each with its document
  Workers,                \* worker threads
  Requests,               \* API threads
  Procs,                  \* operating system processes
  ProcOf,                 \* the process each thread runs in
  Conns,                  \* PostgreSQL connections
  PoolSize,               \* idle connections a process keeps
  MaxProcessingAttempts,  \* MAX_PROCESSING_ATTEMPTS
  MaxRetries,             \* max_retries of the prepare_document actor
  NoJob, NoConn,
  \* The environment in scope, and bounds on it.
  Calls,                  \* subset of {"upload", "retry", "delete", "reprocess"}
  Faults,                 \* subset of {"crash", "redeliver", "lose", "unsent", "reject"}
  MaxRequests,            \* calls made in a behaviour
  MaxFaults               \* faults in a behaviour

Sessions == Workers \cup Requests
Deliveries == 0..MaxRetries

ASSUME SessionsAssumption ==
  /\ IsFiniteSet(Sessions)
  /\ Workers \cap Requests = {}
  /\ ProcOf \in [Sessions -> Procs]
ASSUME NullAssumption == NoJob \notin Jobs /\ NoConn \notin Conns
ASSUME LimitsAssumption ==
  /\ PoolSize \in Nat \ {0}
  /\ MaxProcessingAttempts \in Nat \ {0}
  /\ MaxRetries \in Nat

VARIABLES
  job,        \* the ingestion_jobs row of each job
  content,    \* jobs whose document has a committed canonical content
  created,    \* jobs that were ever inserted: job ids are never reused
  pc,         \* where each thread is
  task,       \* the job a thread works on
  retries,    \* the retries option of the message a worker thread holds
  obj,        \* a thread's in-memory IngestionJob, as it last loaded or saved it
  conn,       \* the connection a thread's session has checked out
  idle,       \* each process's pool of idle connections, first in first out
  locks,      \* how often each connection holds the advisory lock of each job
  queue,      \* messages in the broker, by job and retries option
  requests,   \* API calls so far
  faults      \* faults so far

db == <<job, content, created>>
session == <<pc, task, retries, obj>>
pool == <<conn, idle, locks>>
budget == <<requests, faults>>
vars == <<db, session, pool, queue, budget>>

WorkerSteps == {"lock", "load", "verify", "document", "inspect", "extract",
                "chunk", "release", "abort"}
RequestSteps == {"refresh", "reset", "lockreset", "unlock", "send", "record",
                 "reprocess"}

NoLocks == [j \in Jobs |-> 0]

StepsOf(s) == IF s \in Workers THEN WorkerSteps ELSE RequestSteps

LockTables == [Conns -> [Jobs -> Nat]]

DbOK ==
  /\ job \in [Jobs -> Row]
  /\ content \in SUBSET Jobs
  /\ created \in SUBSET Jobs

SessionOK ==
  /\ pc \in [Sessions -> {"idle"} \cup WorkerSteps \cup RequestSteps]
  /\ task \in [Sessions -> Jobs \cup {NoJob}]
  /\ retries \in [Sessions -> Deliveries]
  /\ obj \in [Sessions -> Row]
  /\ \A s \in Sessions : /\ pc[s] \in {"idle"} \cup StepsOf(s)
                         /\ pc[s] = "idle" <=> task[s] = NoJob

PoolOK ==
  /\ conn \in [Sessions -> Conns \cup {NoConn}]
  /\ idle \in [Procs -> Seq(Conns)]
  /\ locks \in LockTables

QueueOK == queue \in [Jobs -> [Deliveries -> Nat]]

TypeOK ==
  /\ DbOK /\ SessionOK /\ PoolOK /\ QueueOK
  /\ requests \in Nat /\ faults \in Nat

Init ==
  /\ job = [j \in Jobs |-> NoRow]
  /\ content = {}
  /\ created = {}
  /\ pc = [s \in Sessions |-> "idle"]
  /\ task = [s \in Sessions |-> NoJob]
  /\ retries = [s \in Sessions |-> 0]
  /\ obj = [s \in Sessions |-> NoRow]
  /\ conn = [s \in Sessions |-> NoConn]
  /\ idle = [p \in Procs |-> <<>>]
  /\ locks = [c \in Conns |-> NoLocks]
  /\ queue = [j \in Jobs |-> [n \in Deliveries |-> 0]]
  /\ requests = 0
  /\ faults = 0

-----------------------------------------------------------------------------
(***************************************************************************)
(* The connection pool.  A session takes a connection for its first        *)
(* statement of a transaction and gives it back when the transaction ends. *)
(* The lock table a statement leaves is the parameter lk.                  *)
(***************************************************************************)
Open ==
  {c \in Conns : \/ \E s \in Sessions : conn[s] = c
                 \/ \E p \in Procs : \E i \in 1..Len(idle[p]) : idle[p][i] = c}

PoolOf(s) == idle[ProcOf[s]]

\* The connection the next statement of s runs on: its own, else the one that
\* has been idle longest, else a new one.
ConnFor(s) ==
  IF conn[s] # NoConn THEN conn[s]
  ELSE IF PoolOf(s) # <<>> THEN Head(PoolOf(s))
  ELSE CHOOSE c \in Conns : c \notin Open

Connectable(s) == conn[s] # NoConn \/ PoolOf(s) # <<>> \/ Conns \ Open # {}

\* What is left in the pool once s has its connection.
Rest(s) == IF conn[s] = NoConn /\ PoolOf(s) # <<>> THEN Tail(PoolOf(s)) ELSE PoolOf(s)

\* The statement runs and the transaction stays open.
Hold(s, lk) ==
  /\ Connectable(s)
  /\ conn' = [conn EXCEPT ![s] = ConnFor(s)]
  /\ idle' = [idle EXCEPT ![ProcOf[s]] = Rest(s)]
  /\ locks' = lk

\* A slip: The pool unlocks the connections it gets back.
GiveBackUnlocked(s, lk) ==
  /\ Connectable(s)
  /\ conn' = [conn EXCEPT ![s] = NoConn]
  /\ idle' = [idle EXCEPT ![ProcOf[s]] = Append(Rest(s), ConnFor(s))]
  /\ locks' = [lk EXCEPT ![ConnFor(s)] = NoLocks]

\* The statement runs and the transaction ends.  A connection the pool has no
\* room for is closed, and PostgreSQL drops its locks.
GiveBack(s, lk) ==
  /\ Connectable(s)
  /\ conn' = [conn EXCEPT ![s] = NoConn]
  /\ IF Len(Rest(s)) < PoolSize
     THEN /\ idle' = [idle EXCEPT ![ProcOf[s]] = Append(Rest(s), ConnFor(s))]
          /\ locks' = lk
     ELSE /\ idle' = [idle EXCEPT ![ProcOf[s]] = Rest(s)]
          /\ locks' = [lk EXCEPT ![ConnFor(s)] = NoLocks]

\* The session is closed without a statement.
Close(s) == IF conn[s] = NoConn THEN UNCHANGED pool ELSE GiveBack(s, locks)

\* A slip: No one looks whether the lock is held.
AlwaysGrantable(s, j) == TRUE

\* pg_try_advisory_lock: granted unless another connection holds the lock; a
\* connection that holds it already is granted it again.
Grantable(s, j) == \A c \in Conns \ {ConnFor(s)} : locks[c][j] = 0

Locked(s, j) == [locks EXCEPT ![ConnFor(s)][j] = @ + 1]

\* pg_advisory_unlock: nothing happens unless this connection holds the lock.
Unlocked(s, j) ==
  [locks EXCEPT ![ConnFor(s)][j] = IF @ = 0 THEN 0 ELSE @ - 1]

-----------------------------------------------------------------------------
(***************************************************************************)
(* Messages and the ends of calls.                                         *)
(***************************************************************************)
Put(j, n) == [queue EXCEPT ![j][n] = @ + 1]
Take(j, n) == [queue EXCEPT ![j][n] = @ - 1]

Goto(s, step) == pc' = [pc EXCEPT ![s] = step]

Leave(s) ==
  /\ Goto(s, "idle")
  /\ task' = [task EXCEPT ![s] = NoJob]
  /\ retries' = [retries EXCEPT ![s] = 0]
  /\ obj' = [obj EXCEPT ![s] = NoRow]

\* A slip: The actor forgets to end.
ReturnWithTask(s) == Goto(s, "idle") /\ UNCHANGED <<task, retries, obj, queue>>
Return(s) == Leave(s) /\ UNCHANGED queue

\* The actor raised: Dramatiq sends the message again with its retries option
\* increased, or dead-letters it.
Raise(w) ==
  /\ Leave(w)
  /\ queue' = IF retries[w] < MaxRetries THEN Put(task[w], retries[w] + 1) ELSE queue

\* An exception leaves the call: a worker's message is retried, a request is
\* answered with an error.
Fail(s) == IF s \in Workers THEN Raise(s) ELSE Return(s)

\* A failure of the environment, within the bound.
Fault(kind) ==
  /\ kind \in Faults
  /\ faults < MaxFaults
  /\ faults' = faults + 1
  /\ UNCHANGED requests

-----------------------------------------------------------------------------
(***************************************************************************)
(* Commits.  Saving fails when the row is gone (StaleDataError) or when    *)
(* the row that would result violates a CHECK constraint (IntegrityError). *)
(* After a failed flush the session refuses every statement until it is    *)
(* rolled back, so the unlock in the callers' finally clauses is not sent: *)
(* the connection goes back to the pool with its locks.                    *)
(***************************************************************************)
\* A slip: PostgreSQL has no CHECK constraints.
RowExists(s, new) == job[task[s]] # NoRow

Accepts(s, new) ==
  /\ job[task[s]] # NoRow
  /\ ChecksHold(Flush(job[task[s]], obj[s], new))

Save(s, lk, new, step) ==
  /\ GiveBack(s, lk)
  /\ IF Accepts(s, new)
     THEN /\ job' = [job EXCEPT ![task[s]] = Flush(@, obj[s], new)]
          /\ obj' = [obj EXCEPT ![s] = new]
          /\ Goto(s, step)
          /\ UNCHANGED <<task, retries, queue>>
     ELSE Fail(s) /\ UNCHANGED job

-----------------------------------------------------------------------------
(***************************************************************************)
(* Worker threads: prepare_document and process_ingestion_job.             *)
(***************************************************************************)
Receive(w, j, n) ==
  /\ pc[w] = "idle"
  /\ queue[j][n] > 0
  /\ queue' = Take(j, n)
  /\ Goto(w, "lock")
  /\ task' = [task EXCEPT ![w] = j]
  /\ retries' = [retries EXCEPT ![w] = n]
  /\ UNCHANGED <<db, obj, pool, budget>>

\* JobAlreadyProcessing is raised when the lock is refused.
TryLock(w) ==
  /\ pc[w] = "lock"
  /\ IF Grantable(w, task[w])
     THEN /\ Hold(w, Locked(w, task[w]))
          /\ Goto(w, "load")
          /\ UNCHANGED <<task, retries, obj, queue>>
     ELSE GiveBack(w, locks) /\ Raise(w)
  /\ UNCHANGED <<db, budget>>

\* The row is gone or final: the message is a no-op.
LoadFinished(w) ==
  /\ pc[w] = "load"
  /\ job[task[w]].status \in FinalStatuses \cup {"absent"}
  /\ Goto(w, "release")
  /\ UNCHANGED <<db, task, retries, obj, pool, queue, budget>>

LoadedAs(w, row, step) ==
  /\ job' = [job EXCEPT ![task[w]] = row]
  /\ obj' = [obj EXCEPT ![w] = row]
  /\ GiveBack(w, locks)
  /\ Goto(w, step)
  /\ UNCHANGED <<content, created, task, retries, queue, budget>>

LoadQueued(w) ==
  /\ pc[w] = "load"
  /\ job[task[w]].status = "queued"
  /\ LoadedAs(w, StartAttempt(job[task[w]]), "document")

LoadInterrupted(w) ==
  /\ pc[w] = "load"
  /\ job[task[w]].status \in ActiveStatuses
  /\ LoadedAs(w, RecoverInterruptedJob(job[task[w]]), "verify")

Verify(w) ==
  /\ pc[w] = "verify"
  /\ Save(w, locks, StartAttempt(obj[w]), "document")
  /\ UNCHANGED <<content, created, budget>>

\* The document exists as long as its job's row does.  Without it _mark_failed
\* updates a row that is gone, and the flush fails.
GetDocument(w) ==
  /\ pc[w] = "document"
  /\ IF job[task[w]] = NoRow
     THEN GiveBack(w, locks) /\ Raise(w)
     ELSE /\ Hold(w, locks)
          /\ Goto(w, "inspect")
          /\ UNCHANGED <<task, retries, obj, queue>>
  /\ UNCHANGED <<db, budget>>

\* A stage succeeds and commits the next status.
StageDone(w, status, step) == Save(w, locks, Transition(obj[w], status), step)

\* A stage ends in a permanent failure, which the worker records.
StageFailed(w) == Save(w, locks, MarkFailed(obj[w], "permanent"), "release")

\* A slip: The limit is one attempt too high.
ExhaustedLate(row) == row.attempts > MaxProcessingAttempts
Exhausted(row) == row.attempts >= MaxProcessingAttempts

\* _handle_transient_failure
StageUnavailable(w) ==
  \/ /\ Exhausted(obj[w])
     /\ Save(w, locks, MarkFailed(obj[w], "storage_temporarily_unavailable"), "release")
  \/ /\ ~Exhausted(obj[w])
     /\ Save(w, locks, Transition(obj[w], "queued"), "abort")

\* Size and checksum of the stored file are compared with the metadata.
Inspect(w) ==
  /\ pc[w] = "inspect"
  /\ \/ StageDone(w, "extracting", "extract")
     \/ StageFailed(w)
     \/ StageUnavailable(w)
  /\ UNCHANGED <<content, created, budget>>

Extract(w) ==
  /\ pc[w] = "extract"
  /\ \/ StageDone(w, "chunking", "chunk")
     \/ StageFailed(w)
     \/ StageUnavailable(w)
  /\ UNCHANGED <<content, created, budget>>

ChunkFailed(w) ==
  /\ pc[w] = "chunk"
  /\ StageFailed(w)
  /\ UNCHANGED <<content, created, budget>>

\* A slip: The status is committed without the content.
StatusOnly(w) == content
Stored(w) ==
  IF Accepts(w, Transition(obj[w], "ready_for_indexing"))
  THEN content \cup {task[w]} ELSE content

\* _replace_canonical_content: content and status in one transaction.
ReplaceCanonicalContent(w) ==
  /\ pc[w] = "chunk"
  /\ StageDone(w, "ready_for_indexing", "release")
  /\ content' = Stored(w)
  /\ UNCHANGED <<created, budget>>

\* PostgreSQL refuses the new content (a constraint of document_chunks or
\* document_extractions, or another transaction's rows): the whole transaction
\* rolls back.
RejectCanonicalContent(w) ==
  /\ pc[w] = "chunk"
  /\ Fault("reject")
  /\ GiveBack(w, locks)
  /\ Raise(w)
  /\ UNCHANGED db

\* The finally clause, the end of the session, and the end of the actor: it
\* returns, or raises TransientProcessingError.
Release(w) ==
  /\ pc[w] \in {"release", "abort"}
  /\ GiveBack(w, Unlocked(w, task[w]))
  /\ IF pc[w] = "release" THEN Return(w) ELSE Raise(w)
  /\ UNCHANGED <<db, budget>>

WorkerStep(w) ==
  \/ \E j \in Jobs, n \in Deliveries : Receive(w, j, n)
  \/ TryLock(w)
  \/ LoadFinished(w) \/ LoadQueued(w) \/ LoadInterrupted(w)
  \/ Verify(w)
  \/ GetDocument(w)
  \/ Inspect(w)
  \/ Extract(w)
  \/ ChunkFailed(w) \/ ReplaceCanonicalContent(w) \/ RejectCanonicalContent(w)
  \/ Release(w)

-----------------------------------------------------------------------------
(***************************************************************************)
(* API threads.                                                            *)
(***************************************************************************)
Call(r, kind) ==
  /\ pc[r] = "idle"
  /\ kind \in Calls
  /\ requests < MaxRequests
  /\ requests' = requests + 1
  /\ UNCHANGED <<faults, queue>>

\* A call that starts by reading the job goes on to a further step.
Begin(r, j, row, step) ==
  /\ task' = [task EXCEPT ![r] = j]
  /\ obj' = [obj EXCEPT ![r] = row]
  /\ Goto(r, step)
  /\ UNCHANGED retries

\* upload_document up to the commit of the document and its job.
Upload(r, j) ==
  /\ Call(r, "upload")
  /\ j \notin created
  /\ created' = created \cup {j}
  /\ job' = [job EXCEPT ![j] = QueuedRow]
  /\ GiveBack(r, locks)
  /\ Begin(r, j, QueuedRow, "refresh")
  /\ UNCHANGED content

\* The refreshes after the commit fail when the document is gone already.
Refresh(r) ==
  /\ pc[r] = "refresh"
  /\ IF job[task[r]] = NoRow
     THEN GiveBack(r, locks) /\ Return(r)
     ELSE /\ Hold(r, locks)
          /\ obj' = [obj EXCEPT ![r] = job[task[r]]]
          /\ Goto(r, "send")
          /\ UNCHANGED <<task, retries, queue>>
  /\ UNCHANGED <<db, budget>>

\* A slip: An active job is reset without its lock.
NeverLocked(status) == IF status = "queued" THEN "send" ELSE "reset"

\* How retry_ingestion_job and reset_job_for_retry go on from the status read.
RetryStep(status) ==
  CASE status = "queued" -> "send"
    [] status = "failed" -> "reset"
    [] status \in ActiveStatuses -> "lockreset"

FindForRetry(r, j) ==
  /\ Call(r, "retry")
  /\ job[j] # NoRow
  /\ IF job[j].status = "ready_for_indexing"
     THEN GiveBack(r, locks) /\ UNCHANGED session
     ELSE Hold(r, locks) /\ Begin(r, j, job[j], RetryStep(job[j].status))
  /\ UNCHANGED db

\* A failed job is reset without the lock.
ResetFailed(r) ==
  /\ pc[r] = "reset"
  /\ Save(r, locks, ResetJob(obj[r]), "send")
  /\ UNCHANGED <<content, created, budget>>

\* A job that was being processed is reset under the lock; JobAlreadyProcessing
\* when it is refused.
LockReset(r) ==
  /\ pc[r] = "lockreset"
  /\ IF Grantable(r, task[r])
     THEN Save(r, Locked(r, task[r]), ResetJob(obj[r]), "unlock")
     ELSE GiveBack(r, locks) /\ Return(r) /\ UNCHANGED job
  /\ UNCHANGED <<content, created, budget>>

Unlock(r) ==
  /\ pc[r] = "unlock"
  /\ Hold(r, Unlocked(r, task[r]))
  /\ Goto(r, "send")
  /\ UNCHANGED <<db, task, retries, obj, queue, budget>>

\* dispatch_ingestion_job: the broker takes the message, or the call ends with
\* the dispatch pending.
Send(r) ==
  /\ pc[r] = "send"
  /\ queue' = Put(task[r], 0)
  /\ Goto(r, "record")
  /\ UNCHANGED <<db, task, retries, obj, pool, budget>>

\* A slip: The error is logged and the handler goes on.
SendFailsUnnoticed(r) ==
  /\ pc[r] = "send"
  /\ Fault("unsent")
  /\ Goto(r, "record")
  /\ UNCHANGED <<db, task, retries, obj, pool, queue>>

SendFails(r) ==
  /\ pc[r] = "send"
  /\ Fault("unsent")
  /\ Close(r)
  /\ Return(r)
  /\ UNCHANGED db

\* dispatched_at is the only column written: no CHECK can refuse it.
RecordDispatch(r) ==
  /\ pc[r] = "record"
  /\ job' = IF job[task[r]] = NoRow THEN job
            ELSE [job EXCEPT ![task[r]].dispatched = TRUE]
  /\ GiveBack(r, locks)
  /\ Return(r)
  /\ UNCHANGED <<content, created, budget>>

\* delete_document: the row and the canonical content go with the document.
Delete(r, j) ==
  /\ Call(r, "delete")
  /\ job[j] # NoRow
  /\ job' = [job EXCEPT ![j] = NoRow]
  /\ content' = content \ {j}
  /\ GiveBack(r, locks)
  /\ UNCHANGED <<created, session>>

\* reset_job_for_reprocessing, for which the API has no route: an operator
\* loads a prepared job and resets it.
FindForReprocessing(r, j) ==
  /\ Call(r, "reprocess")
  /\ job[j].status = "ready_for_indexing"
  /\ Hold(r, locks)
  /\ Begin(r, j, job[j], "reprocess")
  /\ UNCHANGED db

Reprocess(r) ==
  /\ pc[r] = "reprocess"
  /\ GiveBack(r, locks)
  /\ job' = IF Accepts(r, ResetJob(obj[r]))
            THEN [job EXCEPT ![task[r]] = Flush(@, obj[r], ResetJob(obj[r]))]
            ELSE job
  /\ Return(r)
  /\ UNCHANGED <<content, created, budget>>

StartCall(r) ==
  \E j \in Jobs : \/ Upload(r, j) \/ FindForRetry(r, j)
                  \/ Delete(r, j) \/ FindForReprocessing(r, j)

RequestStep(r) ==
  \/ Refresh(r)
  \/ ResetFailed(r) \/ LockReset(r) \/ Unlock(r)
  \/ Send(r) \/ SendFails(r) \/ RecordDispatch(r)
  \/ Reprocess(r)

-----------------------------------------------------------------------------
(***************************************************************************)
(* Faults.                                                                 *)
(***************************************************************************)
HeldByProc(p) ==
  {c \in Conns : \/ \E s \in Sessions : ProcOf[s] = p /\ conn[s] = c
                 \/ \E i \in 1..Len(idle[p]) : idle[p][i] = c}

Unacknowledged(p, j, n) ==
  {w \in Workers : ProcOf[w] = p /\ pc[w] # "idle" /\ task[w] = j /\ retries[w] = n}

\* A process dies: PostgreSQL rolls back and unlocks what its connections held,
\* and the broker delivers its unacknowledged messages again.
Crash(p) ==
  LET Lives(s) == ProcOf[s] # p IN
  /\ Fault("crash")
  /\ pc' = [s \in Sessions |-> IF Lives(s) THEN pc[s] ELSE "idle"]
  /\ task' = [s \in Sessions |-> IF Lives(s) THEN task[s] ELSE NoJob]
  /\ retries' = [s \in Sessions |-> IF Lives(s) THEN retries[s] ELSE 0]
  /\ obj' = [s \in Sessions |-> IF Lives(s) THEN obj[s] ELSE NoRow]
  /\ conn' = [s \in Sessions |-> IF Lives(s) THEN conn[s] ELSE NoConn]
  /\ idle' = [idle EXCEPT ![p] = <<>>]
  /\ locks' = [c \in Conns |-> IF c \in HeldByProc(p) THEN NoLocks ELSE locks[c]]
  /\ queue' = [j \in Jobs |-> [n \in Deliveries |->
                 queue[j][n] + Cardinality(Unacknowledged(p, j, n))]]
  /\ UNCHANGED db

\* The broker takes a live worker for dead and delivers its message again.
Redeliver(w) ==
  /\ Fault("redeliver")
  /\ pc[w] # "idle"
  /\ queue' = Put(task[w], retries[w])
  /\ UNCHANGED <<db, session, pool>>

LoseMessage(j, n) ==
  /\ Fault("lose")
  /\ queue[j][n] > 0
  /\ queue' = Take(j, n)
  /\ UNCHANGED <<db, session, pool>>

Failure ==
  \/ \E p \in Procs : Crash(p)
  \/ \E w \in Workers : Redeliver(w)
  \/ \E j \in Jobs, n \in Deliveries : LoseMessage(j, n)

\* Nothing is under way: the system waits for a call.
Quiescent ==
  /\ \A s \in Sessions : pc[s] = "idle"
  /\ \A j \in Jobs, n \in Deliveries : queue[j][n] = 0

Next ==
  \/ \E w \in Workers : WorkerStep(w)
  \/ \E r \in Requests : StartCall(r) \/ RequestStep(r)
  \/ Failure
  \/ Quiescent /\ UNCHANGED vars

Spec == Init /\ [][Next]_vars

\* Every thread that can take a step eventually does; nobody has to call the
\* API, and nothing has to fail.
FairSpec ==
  /\ Spec
  /\ \A w \in Workers : WF_vars(WorkerStep(w))
  /\ \A r \in Requests : WF_vars(RequestStep(r))

-----------------------------------------------------------------------------
(***************************************************************************)
(* Properties.                                                             *)
(***************************************************************************)
\* Between taking and releasing a job's advisory lock.
Critical(s) ==
  pc[s] \in {"load", "verify", "document", "inspect", "extract", "chunk",
             "release", "abort", "unlock"}

Working(w) == pc[w] \in {"verify", "document", "inspect", "extract", "chunk"}

\* No two threads process or reset the same job at the same time
\* (process_ingestion_job and reset_job_for_retry under the advisory lock).
MutualExclusion ==
  \A s, t \in Sessions :
    Critical(s) /\ Critical(t) /\ task[s] = task[t] => s = t

\* The statement that is meant to release a job's lock runs on the connection
\* that holds it, although every commit since gave the connection back
\* (_release_job_lock).
UnlockReachesLock ==
  \A s \in Sessions :
    pc[s] \in {"release", "abort", "unlock"} => locks[ConnFor(s)][task[s]] > 0

\* A lock is held only while a thread processes or resets the job: nobody is
\* refused a lock without a holder (the finally clauses of
\* process_ingestion_job and reset_job_for_retry).
LocksHaveHolders ==
  \A c \in Conns, j \in Jobs :
    locks[c][j] > 0 => \E s \in Sessions : Critical(s) /\ task[s] = j

SameProgress(a, b) ==
  /\ a.status = b.status /\ a.attempts = b.attempts
  /\ a.failure = b.failure /\ a.completed = b.completed

\* The job a worker keeps in memory over its commits is the row in the table,
\* until the document is deleted: no other session changes the progress of a
\* job under the worker (expire_on_commit=False, process_ingestion_job).
WriterSeesRow ==
  \A w \in Workers :
    Working(w) => \/ job[task[w]] = NoRow
                  \/ SameProgress(obj[w], job[task[w]])

\* Every call of transition_job asks for an allowed transition, so that
\* InvalidJobTransition is never raised.
StageMatchesStatus ==
  \A s \in Sessions :
    /\ pc[s] = "verify" => obj[s].status = "queued"
    /\ pc[s] \in {"document", "inspect"} => obj[s].status = "verifying"
    /\ pc[s] = "extract" => obj[s].status = "extracting"
    /\ pc[s] = "chunk" => obj[s].status = "chunking"
    /\ pc[s] = "reset" => obj[s].status = "failed"
    /\ pc[s] = "lockreset" => obj[s].status \in ActiveStatuses
    /\ pc[s] = "reprocess" => obj[s].status = "ready_for_indexing"

\* A job reported ready has its complete canonical content, and no content
\* outlives its document (_replace_canonical_content, the cascades).
ReadyHasContent ==
  \A j \in Jobs :
    /\ job[j].status = "ready_for_indexing" => j \in content
    /\ j \in content => job[j] # NoRow

\* Only interruptions take a job past MAX_PROCESSING_ATTEMPTS, one attempt
\* each (_handle_transient_failure, _recover_interrupted_job).
AttemptsBounded ==
  \A j \in Jobs : job[j].attempts <= MaxProcessingAttempts + faults

\* A prepared job stays as it is, whatever messages are delivered again and
\* whatever retries are under way, until it is deleted or reprocessed
\* (the early return of process_ingestion_job, the 409 of
\* retry_ingestion_job).
ReadyStays ==
  \A j \in Jobs :
    job[j].status = "ready_for_indexing" =>
      \/ SameProgress(job'[j], job[j])
      \/ job'[j] = NoRow
      \/ \E r \in Requests : pc[r] = "reprocess" /\ task[r] = j
ReadyIsFinal == [][ReadyStays]_vars

\* A retry whose reset is committed leaves the job as an upload leaves it, with
\* all its attempts and no dispatch, whatever workers made of the row since the
\* retry read it: the UPDATE writes only what differs from that old copy
\* (reset_job_for_retry, expire_on_commit=False).
ResetStartsOver ==
  \A r \in Requests :
    pc[r] \in {"reset", "lockreset"} /\ pc'[r] \in {"send", "unlock"} =>
      job'[task[r]] = QueuedRow
RetriesStartOver == [][ResetStartsOver]_vars

InFlight(j) ==
  \/ \E n \in Deliveries : queue[j][n] > 0
  \/ \E w \in Workers : task[w] = j

\* A queued job that has no message, and that no request is about to send one
\* for, has no dispatch recorded: what is left of a send that failed, or never
\* happened, can be seen (README: "dispatched_at remains null"; ADR 0009: "A null
\* dispatch timestamp plus safe redispatch makes that disagreement observable").
\* And a job that was sent is not left queued with its message used up.
PendingIsObservable ==
  \A j \in Jobs :
    /\ job[j].status = "queued"
    /\ ~InFlight(j)
    /\ \A r \in Requests : task[r] # j
    => job[j].dispatched = FALSE

\* A job whose message is in flight is eventually ready, failed with a reason,
\* or deleted: it is not left behind in a state only an operator would notice
\* (MAX_PROCESSING_ATTEMPTS against the actor's max_retries).  It is so as long
\* as the job has one message and PostgreSQL refuses no content.
DispatchedJobFinishes ==
  \A j \in Jobs :
    InFlight(j) ~> job[j].status \in FinalStatuses \cup {"absent"}

Lifecycle == INSTANCE JobLifecycle WITH
  status <- [j \in Jobs |-> job[j].status],
  attempts <- [j \in Jobs |-> job[j].attempts],
  failure <- [j \in Jobs |-> job[j].failure],
  published <- content,
  inserted <- created

\* The pipeline processes each job as JobLifecycle promises.
ImplementsLifecycle == Lifecycle!Spec
=============================================================================
