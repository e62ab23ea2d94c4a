---------------------- MODULE IngestionLifecycleProofs ----------------------
(***************************************************************************)
(* Where the advisory lock excludes, and as long as no two requests reset  *)
(* one job at the same time, the job a thread keeps in memory over its     *)
(* commits is the row in the table; so each commit moves the job as        *)
(* JobLifecycle promises, a ready job stays ready and attempts are         *)
(* bounded.  Without the first hypothesis (several threads in a process)   *)
(* or the second (two retries at once) TLC finds these properties          *)
(* violated.                                                               *)
(*                                                                         *)
(* The argument summarizes each step of a thread once: it is quiet, or it  *)
(* writes the row of its job (WorkerEffect, RequestEffect).  The           *)
(* properties follow from the summaries.                                   *)
(***************************************************************************)
EXTENDS IngestionExclusionProofs

-----------------------------------------------------------------------------
(***************************************************************************)
(* The hypotheses and the inductive invariant.                             *)
(***************************************************************************)
\* A request is about to write a job it has read before.
Resetting(r) == pc[r] \in {"reset", "lockreset", "reprocess"}

\* No two requests are about to reset the same job.
ResetsAlone ==
  \A r, s \in Requests :
    Resetting(r) /\ Resetting(s) /\ task[r] = task[s] => r = s

\* A thread relies on its copy of the row.  A retry that waits for the lock
\* does not: what it read may be out of date.
Tracks(s) ==
  pc[s] \in {"verify", "document", "inspect", "extract", "chunk", "reset", "reprocess"}

\* The copy is the row, until the document is deleted.
CopiesAgree ==
  \A s \in Sessions :
    Tracks(s) => job[task[s]] = NoRow \/ SameProgress(obj[s], job[task[s]])

\* A retry writes what changes an old row into a queued one, however old.
ResettersSound ==
  \A r \in Requests : Resetting(r) => obj[r].attempts > 0 /\ ChecksHold(obj[r])

\* Whatever is not queued has been attempted.
AttemptsCounted ==
  \A j \in Jobs :
    job[j].status \in ActiveStatuses \cup FinalStatuses => job[j].attempts > 0

\* A job that has a row, a thread or a message was inserted before: no upload
\* will insert it again.
BusyJobsAreCreated ==
  /\ \A j \in Jobs : job[j] # NoRow => j \in created
  /\ \A s \in Sessions : pc[s] # "idle" => task[s] \in created
  /\ \A j \in Jobs, n \in Deliveries : queue[j][n] > 0 => j \in created

LifecycleInv ==
  CopiesAgree /\ ResettersSound /\ AttemptsCounted /\ BusyJobsAreCreated

\* Proved before, for any deployment.
BaseInv == TypeOK /\ DbInv /\ StageMatchesStatus

-----------------------------------------------------------------------------
(***************************************************************************)
(* Rows.                                                                   *)
(***************************************************************************)
\* The CHECK constraints look at the progress of a job only.
LEMMA SameChecks ==
  ASSUME NEW a, NEW b, SameProgress(a, b)
  PROVE  ChecksHold(a) <=> ChecksHold(b)
BY DEF SameProgress, ChecksHold

\* An UPDATE from a copy that is the row leaves what was meant.
LEMMA FlushOfCopy ==
  ASSUME NEW row, NEW loaded, NEW new, SameProgress(loaded, row)
  PROVE  SameProgress(new, Flush(row, loaded, new))
BY DEF SameProgress, Flush

\* What a worker is about to write satisfies the CHECK constraints.
LEMMA WorkerRowsHold ==
  ASSUME NEW row \in JobRow, ChecksHold(row)
  PROVE  /\ row.status = "queued" =>
              ChecksHold(StartAttempt(row)) /\ StartAttempt(row).attempts = row.attempts + 1
                /\ StartAttempt(row).failure = "none"
         /\ \A target \in JobStatuses \ {"failed"} :
              /\ row.status \in ActiveStatuses => ChecksHold(Transition(row, target))
              /\ Transition(row, target).attempts = row.attempts
              /\ Transition(row, target).failure = row.failure
         /\ \A code \in FailureCodes :
              /\ row.status \in ActiveStatuses => ChecksHold(MarkFailed(row, code))
              /\ MarkFailed(row, code).attempts = row.attempts
              /\ MarkFailed(row, code).failure = code
<1>1. row.status = "queued" =>
        /\ ChecksHold(StartAttempt(row)) /\ StartAttempt(row).attempts = row.attempts + 1
        /\ StartAttempt(row).failure = "none"
  BY DEF ChecksHold, StartAttempt, Transition, JobRow, ActiveStatuses, FinalStatuses
<1>2. ASSUME NEW target \in JobStatuses \ {"failed"}
      PROVE  /\ row.status \in ActiveStatuses => ChecksHold(Transition(row, target))
             /\ Transition(row, target).attempts = row.attempts
             /\ Transition(row, target).failure = row.failure
  BY <1>2 DEF ChecksHold, Transition, JobRow, JobStatuses, ActiveStatuses, FinalStatuses
<1>3. ASSUME NEW code \in FailureCodes
      PROVE  /\ row.status \in ActiveStatuses => ChecksHold(MarkFailed(row, code))
             /\ MarkFailed(row, code).attempts = row.attempts
             /\ MarkFailed(row, code).failure = code
  BY <1>3 DEF ChecksHold, MarkFailed, Transition, JobRow, JobStatuses, ActiveStatuses,
     FinalStatuses, FailureCodes
<1> QED
  BY <1>1, <1>2, <1>3

\* What a retry leaves of any row, if PostgreSQL takes it: the job is queued,
\* its attempts and its failure are forgotten.
LEMMA ResetOfAnyRow ==
  ASSUME NEW row \in JobRow, NEW loaded \in JobRow, loaded.status # "queued",
         loaded.attempts > 0, ChecksHold(Flush(row, loaded, ResetJob(loaded)))
  PROVE  /\ Flush(row, loaded, ResetJob(loaded)).status = "queued"
         /\ Flush(row, loaded, ResetJob(loaded)).attempts = 0
         /\ Flush(row, loaded, ResetJob(loaded)).failure = "none"
<1>1. /\ ResetJob(loaded).status = "queued" /\ ResetJob(loaded).attempts = 0
  BY DEF ResetJob, Transition, JobRow
<1>2. /\ Flush(row, loaded, ResetJob(loaded)).status = "queued"
      /\ Flush(row, loaded, ResetJob(loaded)).attempts = 0
  BY <1>1 DEF Flush, JobRow
<1>3. Flush(row, loaded, ResetJob(loaded)).failure = "none"
  BY <1>2 DEF ChecksHold
<1> QED
  BY <1>2, <1>3

-----------------------------------------------------------------------------
(***************************************************************************)
(* Threads.                                                                *)
(***************************************************************************)
\* What the stages and the rows say of the copy of a thread.
LEMMA CopyOfThread ==
  ASSUME BaseInv, NEW s \in Sessions, Tracks(s) \/ pc[s] = "lockreset"
  PROVE  /\ task[s] \in Jobs /\ job[task[s]] \in Row /\ pc[s] # "idle"
         /\ obj[s] \in JobRow
         /\ s \in Workers => Working(s)
         /\ s \in Requests => Resetting(s)
<1>1. pc[s] # "idle"
  BY DEF Tracks
<1>2. task[s] \in Jobs /\ job[task[s]] \in Row /\ obj[s] \in Row
  BY <1>1, BusyHasJob DEF BaseInv, TypeOK, DbOK, SessionOK
<1>3. StageOK(pc[s], obj[s])
  BY StageByStage DEF BaseInv
<1>4. obj[s].status # "absent"
  BY <1>3 DEF StageOK, Tracks, ActiveStatuses
<1>5. obj[s] \in JobRow
  BY <1>2, <1>4, PresentRow DEF NoRow
<1>6. s \in Workers => pc[s] \in {"idle"} \cup WorkerSteps
  BY DEF BaseInv, TypeOK, SessionOK, StepsOf
<1>7. s \in Requests => pc[s] \in {"idle"} \cup RequestSteps
  BY SessionsAssumption DEF BaseInv, TypeOK, SessionOK, StepsOf
<1>8. s \in Workers => Working(s)
  BY <1>6 DEF Tracks, Working, WorkerSteps
<1>9. s \in Requests => Resetting(s)
  BY <1>7 DEF Tracks, Resetting, RequestSteps
<1> QED
  BY <1>1, <1>2, <1>5, <1>8, <1>9

\* Of the threads that rely on their copy of a row that is there, there is one:
\* workers exclude each other, so do requests, and a worker's job is not yet
\* failed or ready, as a request's is.
LEMMA OneTracker ==
  ASSUME BaseInv, CopiesAgree, MutualExclusion, ResetsAlone,
         NEW s \in Sessions, NEW t \in Sessions, Tracks(s), Tracks(t),
         task[s] = task[t], job[task[s]] # NoRow
  PROVE  s = t
<1>1. CASE s \in Workers /\ t \in Workers
  BY <1>1, CopyOfThread DEF MutualExclusion, Critical, Working
<1>2. CASE s \in Requests /\ t \in Requests
  BY <1>2, CopyOfThread DEF ResetsAlone
<1>3. obj[s].status = obj[t].status
  BY DEF CopiesAgree, SameProgress
<1>4. StageOK(pc[s], obj[s]) /\ StageOK(pc[t], obj[t])
  BY StageByStage DEF BaseInv
<1>5. \A u \in Sessions : Tracks(u) =>
        /\ u \in Workers => pc[u] \in {"verify", "document", "inspect", "extract", "chunk"}
        /\ u \in Requests => pc[u] \in {"reset", "reprocess"}
  BY CopyOfThread DEF Working, Resetting, Tracks
<1>6. CASE s \in Workers /\ t \in Requests
  BY <1>3, <1>4, <1>5, <1>6 DEF StageOK
<1>7. CASE s \in Requests /\ t \in Workers
  BY <1>3, <1>4, <1>5, <1>7 DEF StageOK
<1> QED
  BY <1>1, <1>2, <1>6, <1>7 DEF Sessions

\* The other threads stay where they are.
OthersKeep(s) ==
  \A t \in Sessions \ {s} : pc'[t] = pc[t] /\ task'[t] = task[t] /\ obj'[t] = obj[t]

\* Nobody else relies on the row of a job.
AloneOn(s, j) == \A t \in Sessions \ {s} : Tracks(t) => task[t] # j

\* A step of a thread that leaves the rows alone.  A copy it makes is the row,
\* and it gives one up only when the row is gone or the environment failed.
Quiet(s) ==
  /\ UNCHANGED db
  /\ OthersKeep(s)
  /\ Tracks(s)' => \/ Tracks(s) /\ task'[s] = task[s] /\ obj'[s] = obj[s]
                   \/ obj'[s] = job[task'[s]]
  /\ Tracks(s) => \/ Tracks(s)' /\ task'[s] = task[s]
                  \/ job[task[s]] = NoRow
                  \/ faults' = faults + 1
  /\ faults' = faults \/ faults' = faults + 1

\* A step of a thread that writes the row of its job, which is there and on
\* which no other thread relies.
Writes(s, j, row) ==
  /\ j \in Jobs /\ task[s] = j /\ job[j] # NoRow
  /\ row \in JobRow /\ ChecksHold(row)
  /\ job' = [job EXCEPT ![j] = row]
  /\ AloneOn(s, j)
  /\ OthersKeep(s)
  /\ Tracks(s)' => task'[s] = j /\ SameProgress(obj'[s], row)
  /\ UNCHANGED <<created, faults>>

\* A call that ends, well or not.
LEMMA LeavingThread ==
  ASSUME BaseInv, NEW s \in Sessions, Return(s) \/ Raise(s) \/ Fail(s)
  PROVE  pc'[s] = "idle" /\ ~Tracks(s)' /\ OthersKeep(s)
BY DEF Return, Raise, Fail, Leave, Goto, OthersKeep, Tracks, BaseInv, TypeOK, SessionOK

\* A call that goes on.
LEMMA MovingThread ==
  ASSUME BaseInv, NEW s \in Sessions, NEW step, Goto(s, step),
         \/ UNCHANGED <<task, obj>>
         \/ UNCHANGED task /\ \E row : obj' = [obj EXCEPT ![s] = row]
         \/ \E j, row : task' = [task EXCEPT ![s] = j] /\ obj' = [obj EXCEPT ![s] = row]
         \/ \E j : task' = [task EXCEPT ![s] = j] /\ UNCHANGED obj
  PROVE  pc'[s] = step /\ OthersKeep(s)
BY DEF Goto, OthersKeep, BaseInv, TypeOK, SessionOK

\* A commit by a thread whose copy is the row: the row becomes what it means
\* it to be, or it was deleted and the call ends.
LEMMA CommitOfCopy ==
  ASSUME BaseInv, CopiesAgree, MutualExclusion, ResetsAlone,
         NEW s \in Sessions, Tracks(s), NEW lk, NEW step, NEW new \in JobRow,
         ChecksHold(obj[s]) => ChecksHold(new), Save(s, lk, new, step),
         UNCHANGED <<created, faults>>
  PROVE  \/ /\ job[task[s]] = NoRow /\ ~Accepts(s, new)
            /\ content' = content => Quiet(s)
         \/ /\ Accepts(s, new)
            /\ pc'[s] = step /\ task'[s] = task[s] /\ obj'[s] = new
            /\ SameProgress(obj[s], job[task[s]])
            /\ ChecksHold(obj[s])
            /\ \E row : Writes(s, task[s], row) /\ SameProgress(new, row)
<1>1. task[s] \in Jobs /\ job[task[s]] \in Row /\ pc[s] # "idle" /\ obj[s] \in JobRow
  BY CopyOfThread
<1>2. CASE job[task[s]] = NoRow
  <2>1. ~Accepts(s, new)
    BY <1>2 DEF Accepts
  <2>2. Fail(s) /\ UNCHANGED job
    BY <2>1 DEF Save
  <2>3. ~Tracks(s)' /\ OthersKeep(s)
    BY <2>2, LeavingThread
  <2> QED
    BY <1>2, <2>1, <2>2, <2>3 DEF Quiet, db
<1>3. CASE job[task[s]] # NoRow
  <2> DEFINE row == Flush(job[task[s]], obj[s], new)
  <2>1. job[task[s]] \in JobRow /\ ChecksHold(job[task[s]])
    BY <1>1, <1>3, PresentRow DEF BaseInv, DbInv, RowsAreConsistent
  <2>2. SameProgress(obj[s], job[task[s]])
    BY <1>3 DEF CopiesAgree
  <2>3. SameProgress(new, row)
    BY <2>2, FlushOfCopy
  <2>4. ChecksHold(obj[s])
    BY <2>1, <2>2, SameChecks
  <2>5. ChecksHold(row)
    BY <2>3, <2>4, SameChecks
  <2>6. Accepts(s, new)
    BY <1>3, <2>5 DEF Accepts
  <2>7. row \in JobRow
    BY <1>1, <2>1, FlushedRow DEF Row
  <2>8. /\ job' = [job EXCEPT ![task[s]] = row]
        /\ obj' = [obj EXCEPT ![s] = new] /\ Goto(s, step) /\ UNCHANGED task
    BY <2>6 DEF Save
  <2>9. /\ pc'[s] = step /\ task'[s] = task[s] /\ obj'[s] = new
        /\ OthersKeep(s)
    BY <2>8, MovingThread DEF BaseInv, TypeOK, SessionOK
  <2>10. AloneOn(s, task[s])
    BY <1>3, OneTracker DEF AloneOn
  <2> HIDE DEF row
  <2>11. Writes(s, task[s], row)
    BY <1>1, <1>3, <2>3, <2>5, <2>7, <2>8, <2>9, <2>10 DEF Writes
  <2> QED
    BY <2>2, <2>3, <2>4, <2>6, <2>9, <2>11
<1> QED
  BY <1>2, <1>3

-----------------------------------------------------------------------------
(***************************************************************************)
(* What a worker's step does to its job.                                   *)
(***************************************************************************)
Kept(j, row) == row.attempts = job[j].attempts /\ row.failure = job[j].failure

Starts(j, row) ==
  /\ job[j].status = "queued" /\ row.status = "verifying"
  /\ row.attempts = job[j].attempts + 1 /\ row.failure = job[j].failure
  /\ UNCHANGED content

Advances(j, row) ==
  /\ \/ job[j].status = "verifying" /\ row.status = "extracting"
     \/ job[j].status = "extracting" /\ row.status = "chunking"
  /\ Kept(j, row) /\ UNCHANGED content

Publishes(j, row) ==
  /\ job[j].status = "chunking" /\ row.status = "ready_for_indexing"
  /\ Kept(j, row) /\ content' = content \cup {j}

GivesUp(j, row) ==
  /\ job[j].status \in ActiveStatuses /\ row.status = "failed"
  /\ row.attempts = job[j].attempts /\ row.failure \in FailureCodes
  /\ row.failure = "storage_temporarily_unavailable" =>
       job[j].attempts >= MaxProcessingAttempts
  /\ UNCHANGED content

Requeues(j, row) ==
  /\ job[j].status \in ActiveStatuses /\ row.status = "queued"
  /\ Kept(j, row) /\ UNCHANGED content

Unattended(j) == \A w \in Workers : ~(Working(w) /\ task[w] = j)

\* A worker starts or advances a job it then goes on with; it requeues one
\* that has attempts left, or one that nobody works on.
Outcome(w, j, row) ==
  \/ (Starts(j, row) \/ Advances(j, row)) /\ Working(w)' /\ task'[w] = j
  \/ Publishes(j, row) \/ GivesUp(j, row)
  \/ Requeues(j, row) /\ (job[j].attempts < MaxProcessingAttempts \/ Unattended(j))

WorkerEffects(w) ==
  Quiet(w) \/ \E j \in Jobs, row \in JobRow : Writes(w, j, row) /\ Outcome(w, j, row)

\* Nobody relies on the row that a thread with the lock loads.
LEMMA LoaderIsAlone ==
  ASSUME BaseInv, CopiesAgree, MutualExclusion, NEW w \in Workers, pc[w] = "load",
         job[task[w]].status \in {"queued"} \cup ActiveStatuses
  PROVE  AloneOn(w, task[w]) /\ Unattended(task[w])
<1>1. ASSUME NEW t \in Workers, Tracks(t) \/ Working(t)
      PROVE  task[t] # task[w]
  BY <1>1, CopyOfThread DEF MutualExclusion, Critical, Working, Sessions, Tracks
<1>2. ASSUME NEW t \in Requests, Tracks(t), task[t] = task[w]
      PROVE  FALSE
  <2>1. t \in Sessions
    BY DEF Sessions
  <2>2. pc[t] \in {"reset", "reprocess"}
    BY <1>2, <2>1, CopyOfThread DEF Resetting, Tracks
  <2>3. obj[t].status \in FinalStatuses
    BY <2>1, <2>2, StageByStage DEF BaseInv, StageOK, FinalStatuses
  <2>4. obj[t].status = job[task[w]].status
    BY <1>2, <2>1 DEF CopiesAgree, SameProgress, NoRow, ActiveStatuses
  <2> QED
    BY <2>3, <2>4 DEF FinalStatuses, ActiveStatuses
<1> QED
  BY <1>1, <1>2 DEF AloneOn, Unattended, Sessions

\* A worker that loads its job starts an attempt, or requeues an interrupted one.
LEMMA LoadEffect ==
  ASSUME BaseInv, CopiesAgree, MutualExclusion, NEW w \in Workers,
         LoadQueued(w) \/ LoadInterrupted(w)
  PROVE  WorkerEffects(w)
<1> DEFINE j == task[w]
<1>1. w \in Sessions /\ pc[w] = "load"
  BY DEF Sessions, LoadQueued, LoadInterrupted
<1>2. j \in Jobs /\ job[j] \in Row
  BY <1>1, BusyHasJob DEF BaseInv, TypeOK, DbOK, SessionOK
<1>3. job[j].status \in {"queued"} \cup ActiveStatuses
  BY DEF LoadQueued, LoadInterrupted
<1>4. job[j] # NoRow
  BY <1>3 DEF NoRow, ActiveStatuses
<1>5. job[j] \in JobRow /\ ChecksHold(job[j])
  BY <1>2, <1>4, PresentRow DEF BaseInv, DbInv, RowsAreConsistent
<1>6. AloneOn(w, j) /\ Unattended(j)
  BY <1>1, <1>3, LoaderIsAlone
<1>7. ASSUME NEW row \in JobRow, NEW step, ChecksHold(row), LoadedAs(w, row, step)
      PROVE  /\ Writes(w, j, row) /\ UNCHANGED content
             /\ pc'[w] = step /\ task'[w] = j
  <2>1. pc'[w] = step /\ OthersKeep(w) /\ task' = task /\ obj'[w] = row
    BY <1>1, <1>7, MovingThread DEF LoadedAs, BaseInv, TypeOK, SessionOK
  <2> QED
    BY <1>2, <1>4, <1>6, <1>7, <2>1 DEF Writes, LoadedAs, SameProgress, budget
<1>8. CASE LoadQueued(w)
  <2> DEFINE row == StartAttempt(job[j])
  <2>1. row \in JobRow /\ ChecksHold(row) /\ row.status = "verifying"
    BY <1>2, <1>5, <1>8, ChangedRows, ChangedStatus, WorkerRowsHold DEF LoadQueued
  <2>2. row.attempts = job[j].attempts + 1 /\ row.failure = job[j].failure
    BY <1>5, <1>8, WorkerRowsHold DEF LoadQueued, ChecksHold
  <2> HIDE DEF row
  <2>3. LoadedAs(w, row, "document")
    BY <1>8 DEF LoadQueued, row
  <2>4. Writes(w, j, row) /\ UNCHANGED content /\ pc'[w] = "document" /\ task'[w] = j
    BY <1>7, <2>1, <2>3
  <2>5. Starts(j, row) /\ Working(w)'
    BY <1>8, <2>1, <2>2, <2>4 DEF Starts, LoadQueued, Working
  <2> QED
    BY <1>2, <2>1, <2>4, <2>5 DEF WorkerEffects, Outcome
<1>9. CASE LoadInterrupted(w)
  <2> DEFINE row == RecoverInterruptedJob(job[j])
  <2>1. row \in JobRow /\ ChecksHold(row)
    BY <1>2, <1>5, <1>9, ChangedRows, FreshRowsConsistent DEF LoadInterrupted
  <2>2. row.status = "queued" /\ row.attempts = job[j].attempts /\ row.failure = "none"
    BY <1>5 DEF RecoverInterruptedJob, Transition, JobRow
  <2>3. job[j].failure = "none"
    BY <1>5, <1>9 DEF LoadInterrupted, ChecksHold, ActiveStatuses
  <2> HIDE DEF row
  <2>4. LoadedAs(w, row, "verify")
    BY <1>9 DEF LoadInterrupted, row
  <2>5. Writes(w, j, row) /\ UNCHANGED content
    BY <1>7, <2>1, <2>4
  <2>6. Requeues(j, row)
    BY <1>9, <2>2, <2>3, <2>5 DEF Requeues, LoadInterrupted, Kept
  <2> QED
    BY <1>2, <1>6, <2>1, <2>5, <2>6 DEF WorkerEffects, Outcome
<1> QED
  BY <1>8, <1>9

\* A worker's copy while it works: what the stages say of it.
LEMMA WorkersCopy ==
  ASSUME BaseInv, NEW w \in Workers, Tracks(w)
  PROVE  /\ w \in Sessions /\ task[w] \in Jobs /\ obj[w] \in JobRow /\ StageOK(pc[w], obj[w])
         /\ pc[w] \in {"inspect", "extract", "chunk"} => obj[w].status \in ActiveStatuses
<1>1. w \in Sessions
  BY DEF Sessions
<1>2. StageOK(pc[w], obj[w])
  BY <1>1, StageByStage DEF BaseInv
<1> QED
  BY <1>1, <1>2, CopyOfThread DEF StageOK, ActiveStatuses

\* The second delivery of an interrupted job starts its attempt.
LEMMA VerifyEffect ==
  ASSUME BaseInv, CopiesAgree, MutualExclusion, ResetsAlone, NEW w \in Workers, Verify(w)
  PROVE  WorkerEffects(w)
<1> DEFINE new == StartAttempt(obj[w])
<1>1. Tracks(w) /\ Save(w, locks, new, "document") /\ UNCHANGED <<content, created, faults>>
  BY DEF Verify, Tracks, budget
<1>2. w \in Sessions /\ task[w] \in Jobs /\ obj[w] \in JobRow /\ obj[w].status = "queued"
  BY <1>1, WorkersCopy DEF Verify, StageOK
<1>3. new \in JobRow /\ new.status = "verifying"
  BY <1>2, ChangedRows, ChangedStatus DEF Row
<1>4. ChecksHold(obj[w]) => /\ ChecksHold(new) /\ new.attempts = obj[w].attempts + 1
                            /\ new.failure = obj[w].failure
  BY <1>2, WorkerRowsHold DEF ChecksHold
<1> HIDE DEF new
<1>5. CASE Quiet(w)
  BY <1>5 DEF WorkerEffects
<1>6. ASSUME NEW row \in JobRow, Writes(w, task[w], row), SameProgress(new, row),
             SameProgress(obj[w], job[task[w]]), ChecksHold(obj[w]),
             pc'[w] = "document", task'[w] = task[w]
      PROVE  WorkerEffects(w)
  <2>1. Starts(task[w], row) /\ Working(w)'
    BY <1>1, <1>2, <1>3, <1>4, <1>6 DEF Starts, SameProgress, Working
  <2> QED
    BY <1>2, <1>6, <2>1 DEF WorkerEffects, Outcome
<1> QED
  BY <1>1, <1>2, <1>3, <1>4, <1>5, <1>6, CommitOfCopy DEF Writes

\* A stage succeeds: the job advances.
LEMMA StageEffect ==
  ASSUME BaseInv, CopiesAgree, MutualExclusion, ResetsAlone, NEW w \in Workers,
         NEW target, NEW step, StageDone(w, target, step),
         UNCHANGED <<content, created, faults>>,
         \/ pc[w] = "inspect" /\ target = "extracting" /\ step = "extract"
         \/ pc[w] = "extract" /\ target = "chunking" /\ step = "chunk"
  PROVE  WorkerEffects(w)
<1> DEFINE new == Transition(obj[w], target)
<1>1. Tracks(w) /\ Save(w, locks, new, step)
  BY DEF Tracks, StageDone
<1>2. /\ w \in Sessions /\ task[w] \in Jobs /\ obj[w] \in JobRow
      /\ StageOK(pc[w], obj[w]) /\ obj[w].status \in ActiveStatuses
  BY <1>1, WorkersCopy
<1>3. target \in JobStatuses \ {"failed"}
  BY DEF JobStatuses, ActiveStatuses
<1>4. new \in JobRow /\ new.status = target
  BY <1>2, <1>3, TransitionType, ChangedStatus DEF Row
<1>5. ChecksHold(obj[w]) => /\ ChecksHold(new) /\ new.attempts = obj[w].attempts
                            /\ new.failure = obj[w].failure
  BY <1>2, <1>3, WorkerRowsHold
<1> HIDE DEF new
<1>6. CASE Quiet(w)
  BY <1>6 DEF WorkerEffects
<1>7. ASSUME NEW row \in JobRow, Writes(w, task[w], row), SameProgress(new, row),
             SameProgress(obj[w], job[task[w]]), ChecksHold(obj[w]),
             pc'[w] = step, task'[w] = task[w]
      PROVE  WorkerEffects(w)
  <2>1. Advances(task[w], row) /\ Working(w)'
    BY <1>2, <1>4, <1>5, <1>7 DEF Advances, SameProgress, Kept, Working, StageOK
  <2> QED
    BY <1>2, <1>7, <2>1 DEF WorkerEffects, Outcome
<1> QED
  BY <1>1, <1>2, <1>4, <1>5, <1>6, <1>7, CommitOfCopy DEF Writes

\* A stage ends in a failure that is recorded.
LEMMA FailureEffect ==
  ASSUME BaseInv, CopiesAgree, MutualExclusion, ResetsAlone, NEW w \in Workers,
         pc[w] \in {"inspect", "extract", "chunk"}, NEW code \in FailureCodes,
         code = "storage_temporarily_unavailable" => Exhausted(obj[w]),
         Save(w, locks, MarkFailed(obj[w], code), "release"),
         UNCHANGED <<content, created, faults>>
  PROVE  WorkerEffects(w)
<1> DEFINE new == MarkFailed(obj[w], code)
<1>1. Tracks(w) /\ Save(w, locks, new, "release")
  BY DEF Tracks
<1>2. w \in Sessions /\ task[w] \in Jobs /\ obj[w] \in JobRow /\ obj[w].status \in ActiveStatuses
  BY <1>1, WorkersCopy
<1>3. new \in JobRow /\ new.status = "failed"
  BY <1>2, ChangedRows, ChangedStatus DEF Row
<1>4. ChecksHold(obj[w]) => /\ ChecksHold(new) /\ new.attempts = obj[w].attempts
                            /\ new.failure = code
  BY <1>2, WorkerRowsHold
<1> HIDE DEF new
<1>5. CASE Quiet(w)
  BY <1>5 DEF WorkerEffects
<1>6. ASSUME NEW row \in JobRow, Writes(w, task[w], row), SameProgress(new, row),
             SameProgress(obj[w], job[task[w]]), ChecksHold(obj[w])
      PROVE  WorkerEffects(w)
  <2>1. GivesUp(task[w], row)
    BY <1>2, <1>3, <1>4, <1>6 DEF GivesUp, SameProgress, Exhausted
  <2> QED
    BY <1>2, <1>6, <2>1 DEF WorkerEffects, Outcome
<1> QED
  BY <1>1, <1>2, <1>3, <1>4, <1>5, <1>6, CommitOfCopy DEF Writes

\* A stage meets a temporary failure.
LEMMA UnavailableEffect ==
  ASSUME BaseInv, CopiesAgree, MutualExclusion, ResetsAlone, NEW w \in Workers,
         pc[w] \in {"inspect", "extract", "chunk"}, StageUnavailable(w),
         UNCHANGED <<content, created, faults>>
  PROVE  WorkerEffects(w)
<1> DEFINE new == Transition(obj[w], "queued")
<1>1. Tracks(w)
  BY DEF Tracks
<1>2. w \in Sessions /\ task[w] \in Jobs /\ obj[w] \in JobRow /\ obj[w].status \in ActiveStatuses
  BY <1>1, WorkersCopy
<1>3. CASE Exhausted(obj[w])
  BY <1>3, FailureEffect DEF StageUnavailable, FailureCodes
<1>4. CASE ~Exhausted(obj[w])
  <2>1. Save(w, locks, new, "abort")
    BY <1>4 DEF StageUnavailable
  <2>2. "queued" \in JobStatuses \ {"failed"}
    BY DEF JobStatuses
  <2>3. new \in JobRow /\ new.status = "queued"
    BY <1>2, <2>2, TransitionType, ChangedStatus DEF Row
  <2>4. ChecksHold(obj[w]) => /\ ChecksHold(new) /\ new.attempts = obj[w].attempts
                              /\ new.failure = obj[w].failure
    BY <1>2, <2>2, WorkerRowsHold
  <2>5. obj[w].attempts < MaxProcessingAttempts
    BY <1>2, <1>4, LimitsAssumption DEF Exhausted, JobRow
  <2> HIDE DEF new
  <2>6. CASE Quiet(w)
    BY <2>6 DEF WorkerEffects
  <2>7. ASSUME NEW row \in JobRow, Writes(w, task[w], row), SameProgress(new, row),
               SameProgress(obj[w], job[task[w]]), ChecksHold(obj[w])
        PROVE  WorkerEffects(w)
    <3>1. Requeues(task[w], row) /\ job[task[w]].attempts < MaxProcessingAttempts
      BY <1>2, <2>3, <2>4, <2>5, <2>7 DEF Requeues, SameProgress, Kept
    <3> QED
      BY <1>2, <2>7, <3>1 DEF WorkerEffects, Outcome
  <2> QED
    BY <1>1, <1>2, <2>1, <2>3, <2>4, <2>6, <2>7, CommitOfCopy DEF Writes
<1> QED
  BY <1>3, <1>4

\* The last stage publishes content and status, or neither.
LEMMA PublishEffect ==
  ASSUME BaseInv, CopiesAgree, MutualExclusion, ResetsAlone, NEW w \in Workers,
         ReplaceCanonicalContent(w)
  PROVE  WorkerEffects(w)
<1> DEFINE new == Transition(obj[w], "ready_for_indexing")
<1>1. /\ Tracks(w) /\ Save(w, locks, new, "release") /\ content' = Stored(w)
      /\ UNCHANGED <<created, faults>>
  BY DEF ReplaceCanonicalContent, StageDone, Tracks, budget
<1>2. /\ w \in Sessions /\ task[w] \in Jobs /\ obj[w] \in JobRow
      /\ obj[w].status = "chunking" /\ obj[w].status \in ActiveStatuses
  BY <1>1, WorkersCopy DEF StageOK, ReplaceCanonicalContent
<1>3. "ready_for_indexing" \in JobStatuses \ {"failed"}
  BY DEF JobStatuses, FinalStatuses
<1>4. new \in JobRow /\ new.status = "ready_for_indexing"
  BY <1>2, <1>3, TransitionType, ChangedStatus DEF Row
<1>5. ChecksHold(obj[w]) => /\ ChecksHold(new) /\ new.attempts = obj[w].attempts
                            /\ new.failure = obj[w].failure
  BY <1>2, <1>3, WorkerRowsHold
<1>6. content' = IF Accepts(w, new) THEN content \cup {task[w]} ELSE content
  BY <1>1 DEF Stored
<1> HIDE DEF new
<1>7. CASE content' = content /\ Quiet(w)
  BY <1>7 DEF WorkerEffects
<1>8. ASSUME NEW row \in JobRow, Writes(w, task[w], row), SameProgress(new, row),
             SameProgress(obj[w], job[task[w]]), Accepts(w, new)
      PROVE  WorkerEffects(w)
  <2>1. Publishes(task[w], row)
    <3>1. ChecksHold(job[task[w]])
      BY <1>2 DEF BaseInv, DbInv, RowsAreConsistent
    <3>2. ChecksHold(obj[w])
      BY <3>1, <1>8, SameChecks
    <3> QED
      BY <1>2, <1>4, <1>5, <1>6, <1>8, <3>2 DEF Publishes, SameProgress, Kept
  <2> QED
    BY <1>2, <1>8, <2>1 DEF WorkerEffects, Outcome
<1> QED
  BY <1>1, <1>2, <1>4, <1>5, <1>6, <1>7, <1>8, CommitOfCopy DEF Writes

\* The remaining steps are quiet.
LEMMA QuietWorkerStep ==
  ASSUME BaseInv, CopiesAgree, NEW w \in Workers,
         \/ \E j \in Jobs, n \in Deliveries : Receive(w, j, n)
         \/ TryLock(w) \/ LoadFinished(w) \/ GetDocument(w)
         \/ RejectCanonicalContent(w) \/ Release(w)
  PROVE  Quiet(w)
<1>1. w \in Sessions
  BY DEF Sessions
<1>2. CASE \E j \in Jobs, n \in Deliveries : Receive(w, j, n)
  <2>1. pc'[w] = "lock" /\ OthersKeep(w)
    BY <1>1, <1>2, MovingThread DEF Receive
  <2> QED
    BY <1>2, <2>1 DEF Receive, Quiet, Tracks, budget
<1>3. CASE TryLock(w)
  <2>1. CASE Grantable(w, task[w])
    <3>1. pc'[w] = "load" /\ OthersKeep(w)
      BY <1>1, <1>3, <2>1, MovingThread DEF TryLock
    <3> QED
      BY <1>3, <3>1 DEF TryLock, Quiet, Tracks, budget
  <2>2. CASE ~Grantable(w, task[w])
    <3>1. ~Tracks(w)' /\ OthersKeep(w)
      BY <1>1, <1>3, <2>2, LeavingThread DEF TryLock
    <3> QED
      BY <1>3, <3>1 DEF TryLock, Quiet, Tracks, budget
  <2> QED
    BY <2>1, <2>2
<1>4. CASE LoadFinished(w)
  <2>1. pc'[w] = "release" /\ OthersKeep(w)
    BY <1>1, <1>4, MovingThread DEF LoadFinished
  <2> QED
    BY <1>4, <2>1 DEF LoadFinished, Quiet, Tracks, budget
<1>5. CASE GetDocument(w)
  <2>1. CASE job[task[w]] = NoRow
    <3>1. ~Tracks(w)' /\ OthersKeep(w)
      BY <1>1, <1>5, <2>1, LeavingThread DEF GetDocument
    <3> QED
      BY <1>5, <2>1, <3>1 DEF GetDocument, Quiet, budget
  <2>2. CASE job[task[w]] # NoRow
    <3>1. pc'[w] = "inspect" /\ OthersKeep(w)
      BY <1>1, <1>5, <2>2, MovingThread DEF GetDocument
    <3> QED
      BY <1>5, <2>2, <3>1 DEF GetDocument, Quiet, Tracks, budget
  <2> QED
    BY <2>1, <2>2
<1>6. CASE RejectCanonicalContent(w)
  <2>1. ~Tracks(w)' /\ OthersKeep(w)
    BY <1>1, <1>6, LeavingThread DEF RejectCanonicalContent
  <2> QED
    BY <1>6, <2>1 DEF RejectCanonicalContent, Fault, Quiet
<1>7. CASE Release(w)
  <2>1. ~Tracks(w)' /\ OthersKeep(w)
    BY <1>1, <1>7, LeavingThread DEF Release
  <2> QED
    BY <1>7, <2>1 DEF Release, Quiet, Tracks, budget
<1> QED
  BY <1>2, <1>3, <1>4, <1>5, <1>6, <1>7

\* Every step of a worker is quiet or one of the outcomes.
LEMMA WorkerEffect ==
  ASSUME BaseInv, CopiesAgree, MutualExclusion, ResetsAlone, NEW w \in Workers,
         WorkerStep(w)
  PROVE  WorkerEffects(w)
<1>1. CASE Inspect(w)
  <2>1. pc[w] = "inspect" /\ UNCHANGED <<content, created, faults>>
    BY <1>1 DEF Inspect, budget
  <2>2. CASE StageDone(w, "extracting", "extract")
    BY <2>1, <2>2, StageEffect
  <2>3. CASE StageFailed(w)
    BY <2>1, <2>3, FailureEffect DEF StageFailed, FailureCodes
  <2> QED
    BY <1>1, <2>1, <2>2, <2>3, UnavailableEffect DEF Inspect
<1>2. CASE Extract(w)
  <2>1. pc[w] = "extract" /\ UNCHANGED <<content, created, faults>>
    BY <1>2 DEF Extract, budget
  <2>2. CASE StageDone(w, "chunking", "chunk")
    BY <2>1, <2>2, StageEffect
  <2>3. CASE StageFailed(w)
    BY <2>1, <2>3, FailureEffect DEF StageFailed, FailureCodes
  <2> QED
    BY <1>2, <2>1, <2>2, <2>3, UnavailableEffect DEF Extract
<1>3. CASE ChunkFailed(w)
  BY <1>3, FailureEffect DEF ChunkFailed, StageFailed, FailureCodes, budget
<1>4. CASE \/ \E j \in Jobs, n \in Deliveries : Receive(w, j, n)
           \/ TryLock(w) \/ LoadFinished(w) \/ GetDocument(w)
           \/ RejectCanonicalContent(w) \/ Release(w)
  BY <1>4, QuietWorkerStep DEF WorkerEffects
<1> QED
  BY <1>1, <1>2, <1>3, <1>4, LoadEffect, VerifyEffect, PublishEffect DEF WorkerStep

-----------------------------------------------------------------------------
(***************************************************************************)
(* What a request's step does to its job.                                  *)
(***************************************************************************)
Inserts(r, j) ==
  /\ pc[r] = "idle" /\ ~Tracks(r)'
  /\ j \notin created /\ created' = created \cup {j}
  /\ job' = [job EXCEPT ![j] = QueuedRow]
  /\ OthersKeep(r)
  /\ UNCHANGED <<content, faults>>

Removes(j) ==
  /\ job[j] # NoRow
  /\ job' = [job EXCEPT ![j] = NoRow]
  /\ content' = content \ {j}
  /\ UNCHANGED <<created, pc, task, obj, faults>>

\* The dispatch is recorded, which nobody's progress depends on.
Records(r, j, row) ==
  /\ ~Tracks(r) /\ ~Tracks(r)'
  /\ job[j] # NoRow /\ row # NoRow
  /\ job' = [job EXCEPT ![j] = row] /\ SameProgress(row, job[j])
  /\ OthersKeep(r)
  /\ UNCHANGED <<content, created, faults>>

\* Only a reprocessing resets a job that is ready.
Resets(r, j, row) ==
  /\ job[j].status = "ready_for_indexing" => pc[r] = "reprocess"
  /\ row.status = "queued" /\ row.attempts = 0 /\ row.failure = "none"
  /\ UNCHANGED content

\* A request that is about to reset a job has just read it.
ReadsToReset(r) ==
  Resetting(r)' => \E j \in Jobs : /\ obj'[r] = job[j]
                                   /\ job[j].status \in ActiveStatuses \cup FinalStatuses

RequestEffects(r) ==
  \/ Quiet(r)
  \/ \E j \in Jobs : Inserts(r, j) \/ Removes(j)
  \/ \E j \in Jobs, row \in JobRow : Records(r, j, row)
  \/ \E j \in Jobs, row \in JobRow : Writes(r, j, row) /\ Resets(r, j, row)

\* A call starts: a job is inserted or deleted, or its row is read.
LEMMA StartCallEffect ==
  ASSUME BaseInv, NEW r \in Requests, StartCall(r)
  PROVE  RequestEffects(r) /\ ReadsToReset(r)
<1>1. r \in Sessions
  BY DEF Sessions
<1>2. ASSUME NEW j \in Jobs, Upload(r, j)
      PROVE  RequestEffects(r) /\ ReadsToReset(r)
  <2>1. pc[r] = "idle" /\ pc'[r] = "refresh" /\ OthersKeep(r)
    BY <1>1, <1>2, MovingThread DEF Upload, Call, Begin
  <2>2. Inserts(r, j) /\ ~Resetting(r)'
    BY <1>2, <2>1 DEF Upload, Call, Inserts, Tracks, Resetting
  <2> QED
    BY <2>2 DEF RequestEffects, ReadsToReset
<1>3. ASSUME NEW j \in Jobs, FindForRetry(r, j)
      PROVE  RequestEffects(r) /\ ReadsToReset(r)
  <2>1. pc[r] = "idle" /\ faults' = faults /\ UNCHANGED db
    BY <1>3 DEF FindForRetry, Call
  <2>2. CASE job[j].status = "ready_for_indexing"
    <3>1. UNCHANGED <<pc, task, obj>>
      BY <1>3, <2>2 DEF FindForRetry, session
    <3>2. Quiet(r) /\ ~Resetting(r)'
      BY <2>1, <3>1 DEF Quiet, OthersKeep, Tracks, Resetting
    <3> QED
      BY <3>2 DEF RequestEffects, ReadsToReset
  <2>3. CASE job[j].status # "ready_for_indexing"
    <3>1. Begin(r, j, job[j], RetryStep(job[j].status))
      BY <1>3, <2>3 DEF FindForRetry
    <3>2. /\ pc'[r] = RetryStep(job[j].status) /\ OthersKeep(r)
          /\ task'[r] = j /\ obj'[r] = job[j]
      BY <1>1, <3>1, MovingThread DEF Begin, BaseInv, TypeOK, SessionOK
    <3>3. job[j] \in JobRow
      BY <1>3, PresentRow DEF FindForRetry, BaseInv, TypeOK, DbOK
    <3>4. Resetting(r)' => job[j].status \in ActiveStatuses \cup FinalStatuses
      <4>1. job[j].status = "queued" => RetryStep(job[j].status) = "send"
        BY DEF RetryStep, ActiveStatuses
      <4> QED
        BY <3>2, <3>3, <4>1 DEF Resetting, JobRow, JobStatuses
    <3>5. Quiet(r)
      BY <2>1, <3>2 DEF Quiet, Tracks
    <3> QED
      BY <3>2, <3>4, <3>5 DEF RequestEffects, ReadsToReset
  <2> QED
    BY <2>2, <2>3
<1>4. ASSUME NEW j \in Jobs, Delete(r, j)
      PROVE  RequestEffects(r) /\ ReadsToReset(r)
  <2>1. Removes(j) /\ ~Resetting(r)'
    BY <1>4 DEF Delete, Call, Removes, Resetting, session
  <2> QED
    BY <2>1 DEF RequestEffects, ReadsToReset
<1>5. ASSUME NEW j \in Jobs, FindForReprocessing(r, j)
      PROVE  RequestEffects(r) /\ ReadsToReset(r)
  <2>1. pc[r] = "idle" /\ faults' = faults /\ UNCHANGED db
    BY <1>5 DEF FindForReprocessing, Call
  <2>2. /\ pc'[r] = "reprocess" /\ OthersKeep(r) /\ task'[r] = j /\ obj'[r] = job[j]
    BY <1>1, <1>5, MovingThread DEF FindForReprocessing, Begin, BaseInv, TypeOK, SessionOK
  <2>3. job[j].status \in FinalStatuses
    BY <1>5 DEF FindForReprocessing, FinalStatuses
  <2>4. Quiet(r)
    BY <2>1, <2>2 DEF Quiet, Tracks
  <2> QED
    BY <2>2, <2>3, <2>4 DEF RequestEffects, ReadsToReset
<1> QED
  BY <1>2, <1>3, <1>4, <1>5 DEF StartCall

\* A retry of a failed job, or a reprocessing, resets it: what it read is still
\* the row.
LEMMA ResetOfCopyEffect ==
  ASSUME BaseInv, CopiesAgree, ResettersSound, MutualExclusion, ResetsAlone,
         NEW r \in Requests, ResetFailed(r) \/ Reprocess(r)
  PROVE  RequestEffects(r)
<1> DEFINE new == ResetJob(obj[r])
<1>1. r \in Sessions /\ Tracks(r)
  BY DEF Sessions, Tracks, ResetFailed, Reprocess
<1>2. task[r] \in Jobs /\ job[task[r]] \in Row /\ obj[r] \in JobRow /\ Resetting(r)
  BY <1>1, CopyOfThread
<1>3. new \in JobRow
  BY <1>2, ChangedRows DEF Row
<1>4. ChecksHold(new) /\ new.status = "queued" /\ new.attempts = 0 /\ new.failure = "none"
  BY <1>2 DEF ResettersSound, ResetJob, Transition, ChecksHold, JobRow, FinalStatuses
<1> HIDE DEF new
<1>5. CASE ResetFailed(r)
  <2>1. Save(r, locks, new, "send") /\ UNCHANGED <<content, created, faults>>
    BY <1>5 DEF ResetFailed, new, budget
  <2>2. CASE Quiet(r)
    BY <2>2 DEF RequestEffects
  <2>3. ASSUME NEW row \in JobRow, Writes(r, task[r], row), SameProgress(new, row),
               SameProgress(obj[r], job[task[r]])
        PROVE  RequestEffects(r)
    <3>1. obj[r].status = "failed"
      BY <1>1, <1>5 DEF ResetFailed, BaseInv, StageMatchesStatus
    <3>2. Resets(r, task[r], row)
      BY <1>4, <2>1, <2>3, <3>1 DEF Resets, SameProgress
    <3> QED
      BY <1>2, <2>3, <3>2 DEF RequestEffects
  <2> QED
    BY <1>1, <1>3, <1>4, <2>1, <2>2, <2>3, CommitOfCopy DEF Writes
<1>6. CASE Reprocess(r)
  <2>1. ~Tracks(r)' /\ OthersKeep(r) /\ UNCHANGED <<content, created, faults>>
    BY <1>1, <1>6, LeavingThread DEF Reprocess, budget
  <2>2. CASE job[task[r]] = NoRow
    <3>1. job' = job
      BY <1>6, <2>2 DEF Reprocess, Accepts
    <3>2. Quiet(r)
      BY <2>1, <2>2, <3>1 DEF Quiet, db
    <3> QED
      BY <3>2 DEF RequestEffects
  <2>3. CASE job[task[r]] # NoRow
    <3> DEFINE row == Flush(job[task[r]], obj[r], new)
    <3>1. job[task[r]] \in JobRow
      BY <1>2, <2>3, PresentRow
    <3>2. row \in JobRow
      BY <1>2, <1>3, <3>1, FlushedRow DEF Row
    <3>3. SameProgress(new, row)
      BY <1>1, <2>3, FlushOfCopy DEF CopiesAgree
    <3>4. ChecksHold(row)
      BY <1>4, <3>3, SameChecks
    <3>5. job' = [job EXCEPT ![task[r]] = row]
      BY <1>6, <2>3, <3>4 DEF Reprocess, Accepts, new
    <3>6. AloneOn(r, task[r])
      BY <1>1, <2>3, OneTracker DEF AloneOn
    <3> HIDE DEF row
    <3>7. Writes(r, task[r], row)
      BY <1>2, <2>1, <2>3, <3>2, <3>4, <3>5, <3>6 DEF Writes
    <3>8. Resets(r, task[r], row)
      BY <1>4, <1>6, <2>1, <3>3 DEF Resets, SameProgress, Reprocess
    <3> QED
      BY <1>2, <3>2, <3>7, <3>8 DEF RequestEffects
  <2> QED
    BY <2>2, <2>3
<1> QED
  BY <1>5, <1>6

\* A retry under the lock resets the job whatever has become of it since it was
\* read: nobody works on it, and nobody else is about to reset it.
LEMMA LockResetEffect ==
  ASSUME BaseInv, ResettersSound, MutualExclusion', ResetsAlone,
         NEW r \in Requests, LockReset(r)
  PROVE  RequestEffects(r)
<1> DEFINE new == ResetJob(obj[r])
<1>1. r \in Sessions /\ pc[r] = "lockreset" /\ ~Tracks(r)
  BY DEF Sessions, LockReset, Tracks
<1>2. task[r] \in Jobs /\ job[task[r]] \in Row /\ obj[r] \in JobRow /\ Resetting(r)
  BY <1>1, CopyOfThread
<1>3. new \in JobRow
  BY <1>2, ChangedRows DEF Row
<1>4. UNCHANGED <<content, created, faults>>
  BY DEF LockReset, budget
<1>5. CASE Grantable(r, task[r]) /\ Accepts(r, new)
  <2> DEFINE row == Flush(job[task[r]], obj[r], new)
  <2>1. job[task[r]] # NoRow /\ ChecksHold(row)
    BY <1>5 DEF Accepts
  <2>2. job[task[r]] \in JobRow
    BY <1>2, <2>1, PresentRow
  <2>3. row \in JobRow
    BY <1>2, <1>3, <2>2, FlushedRow DEF Row
  <2>4. row.status = "queued" /\ row.attempts = 0 /\ row.failure = "none"
    <3>1. obj[r].status \in ActiveStatuses
      BY <1>1 DEF BaseInv, StageMatchesStatus
    <3>2. obj[r].status # "queued" /\ obj[r].attempts > 0
      BY <1>2, <3>1 DEF ActiveStatuses, ResettersSound
    <3> QED
      BY <1>2, <2>1, <2>2, <3>2, ResetOfAnyRow
  <2>5. /\ job' = [job EXCEPT ![task[r]] = row]
        /\ obj' = [obj EXCEPT ![r] = new] /\ Goto(r, "unlock") /\ UNCHANGED task
    BY <1>5 DEF LockReset, Save
  <2>6. pc'[r] = "unlock" /\ OthersKeep(r) /\ task'[r] = task[r]
    BY <1>1, <2>5, MovingThread
  <2>7. AloneOn(r, task[r])
    <3> SUFFICES ASSUME NEW t \in Sessions \ {r}, Tracks(t), task[t] = task[r]
                 PROVE  FALSE
      BY DEF AloneOn
    <3>1. CASE t \in Workers
      <4>1. Critical(t)' /\ task'[t] = task'[r]
        BY <2>6, <3>1, CopyOfThread DEF OthersKeep, Working, Critical
      <4>2. Critical(r)'
        BY <2>6 DEF Critical
      <4> QED
        BY <1>1, <4>1, <4>2 DEF MutualExclusion
    <3>2. CASE t \in Requests
      BY <1>2, <3>2, CopyOfThread DEF ResetsAlone
    <3> QED
      BY <3>1, <3>2 DEF Sessions
  <2>8. job[task[r]].status # "ready_for_indexing"
    <3>1. obj[r].status \in ActiveStatuses /\ ChecksHold(obj[r])
      BY <1>1, <1>2 DEF BaseInv, StageMatchesStatus, ResettersSound
    <3>2. obj[r].completed = FALSE /\ new.completed = FALSE
      BY <1>2, <3>1 DEF ChecksHold, ActiveStatuses, FinalStatuses, JobRow, ResetJob, Transition
    <3>3. row.completed = job[task[r]].completed
      BY <3>2 DEF Flush
    <3>4. row.completed # TRUE
      BY <2>1, <2>4 DEF ChecksHold, FinalStatuses
    <3>5. ChecksHold(job[task[r]])
      BY <1>2 DEF BaseInv, DbInv, RowsAreConsistent
    <3> QED
      BY <3>3, <3>4, <3>5 DEF ChecksHold, FinalStatuses
  <2> HIDE DEF row
  <2>9. Writes(r, task[r], row)
    BY <1>2, <1>4, <2>1, <2>3, <2>5, <2>6, <2>7 DEF Writes, Tracks
  <2>10. Resets(r, task[r], row)
    BY <1>4, <2>4, <2>8 DEF Resets
  <2> QED
    BY <1>2, <2>3, <2>9, <2>10 DEF RequestEffects
<1>6. CASE ~(Grantable(r, task[r]) /\ Accepts(r, new))
  <2>1. (Return(r) \/ Fail(r)) /\ UNCHANGED job
    BY <1>6 DEF LockReset, Save
  <2>2. ~Tracks(r)' /\ OthersKeep(r)
    BY <1>1, <2>1, LeavingThread
  <2>3. Quiet(r)
    BY <1>1, <1>4, <2>1, <2>2 DEF Quiet, db
  <2> QED
    BY <2>3 DEF RequestEffects
<1> QED
  BY <1>5, <1>6

\* The remaining steps are quiet, or record the dispatch.
LEMMA QuietRequestStep ==
  ASSUME BaseInv, NEW r \in Requests,
         Refresh(r) \/ Unlock(r) \/ Send(r) \/ SendFails(r) \/ RecordDispatch(r)
  PROVE  RequestEffects(r)
<1>1. r \in Sessions
  BY DEF Sessions
<1>2. CASE Refresh(r)
  <2>1. CASE job[task[r]] = NoRow
    <3>1. ~Tracks(r)' /\ OthersKeep(r)
      BY <1>1, <1>2, <2>1, LeavingThread DEF Refresh
    <3> QED
      BY <1>2, <2>1, <3>1 DEF Refresh, Quiet, Tracks, budget, RequestEffects
  <2>2. CASE job[task[r]] # NoRow
    <3>1. pc'[r] = "send" /\ OthersKeep(r)
      BY <1>1, <1>2, <2>2, MovingThread DEF Refresh
    <3> QED
      BY <1>2, <2>2, <3>1 DEF Refresh, Quiet, Tracks, budget, RequestEffects
  <2> QED
    BY <2>1, <2>2
<1>3. CASE Unlock(r)
  <2>1. pc'[r] = "send" /\ OthersKeep(r)
    BY <1>1, <1>3, MovingThread DEF Unlock
  <2> QED
    BY <1>3, <2>1 DEF Unlock, Quiet, Tracks, budget, RequestEffects
<1>4. CASE Send(r)
  <2>1. pc'[r] = "record" /\ OthersKeep(r)
    BY <1>1, <1>4, MovingThread DEF Send
  <2> QED
    BY <1>4, <2>1 DEF Send, Quiet, Tracks, budget, RequestEffects
<1>5. CASE SendFails(r)
  <2>1. ~Tracks(r)' /\ OthersKeep(r)
    BY <1>1, <1>5, LeavingThread DEF SendFails
  <2> QED
    BY <1>5, <2>1 DEF SendFails, Fault, Quiet, Tracks, RequestEffects
<1>6. CASE RecordDispatch(r)
  <2>1. ~Tracks(r) /\ ~Tracks(r)' /\ OthersKeep(r) /\ UNCHANGED <<content, created, faults>>
    BY <1>1, <1>6, LeavingThread DEF RecordDispatch, Tracks, budget
  <2>2. task[r] \in Jobs /\ job[task[r]] \in Row
    BY <1>1, <1>6, BusyHasJob DEF RecordDispatch, BaseInv, TypeOK, DbOK, SessionOK
  <2>3. CASE job[task[r]] = NoRow
    BY <1>6, <2>1, <2>3 DEF RecordDispatch, Quiet, db, RequestEffects
  <2>4. CASE job[task[r]] # NoRow
    <3> DEFINE row == [job[task[r]] EXCEPT !.dispatched = TRUE]
    <3>1. job' = [job EXCEPT ![task[r]] = row]
      BY <1>6, <2>4 DEF RecordDispatch
    <3>2. job[task[r]] \in JobRow
      BY <2>2, <2>4, PresentRow
    <3>3. row \in JobRow /\ SameProgress(row, job[task[r]])
      BY <3>2 DEF JobRow, SameProgress
    <3>4. row # NoRow
      BY <3>3 DEF JobRow, NoRow, JobStatuses, ActiveStatuses, FinalStatuses
    <3> HIDE DEF row
    <3>5. Records(r, task[r], row)
      BY <2>1, <2>4, <3>1, <3>3, <3>4 DEF Records
    <3> QED
      BY <2>2, <3>3, <3>5 DEF RequestEffects
  <2> QED
    BY <2>3, <2>4
<1> QED
  BY <1>2, <1>3, <1>4, <1>5, <1>6

\* Every step of a call is quiet, records a dispatch or resets the job; after
\* it the call is not about to reset anything.
LEMMA RequestEffect ==
  ASSUME BaseInv, CopiesAgree, ResettersSound, MutualExclusion, MutualExclusion',
         ResetsAlone, NEW r \in Requests, RequestStep(r)
  PROVE  RequestEffects(r) /\ ReadsToReset(r)
<1>1. RequestEffects(r)
  BY ResetOfCopyEffect, LockResetEffect, QuietRequestStep DEF RequestStep
<1>2. pc'[r] \in {"idle", "send", "record", "unlock"}
  <2>1. r \in Sessions
    BY DEF Sessions
  <2> QED
    BY <2>1 DEF RequestStep, Refresh, ResetFailed, LockReset, Unlock, Send, SendFails,
       RecordDispatch, Reprocess, Save, Fail, Raise, Return, Leave, Goto, BaseInv, TypeOK,
       SessionOK
<1> QED
  BY <1>1, <1>2 DEF ReadsToReset, Resetting

-----------------------------------------------------------------------------
(***************************************************************************)
(* Every job with a row, a thread or a message was inserted, whatever the  *)
(* deployment.  A step of a thread is about one job.                       *)
(***************************************************************************)
OnlyAbout(j) ==
  /\ \A k \in Jobs \ {j} : job'[k] = job[k] /\ queue'[k] = queue[k]
  /\ \A s \in Sessions : \/ pc'[s] = "idle"
                         \/ task'[s] = j
                         \/ pc[s] # "idle" /\ task'[s] = task[s]

\* A step about a job that was inserted keeps the others as they were.
LEMMA KeptCreated ==
  ASSUME BusyJobsAreCreated, NEW j \in Jobs, OnlyAbout(j), j \in created',
         created \subseteq created'
  PROVE  BusyJobsAreCreated'
BY DEF BusyJobsAreCreated, OnlyAbout

\* So are the calls' ends and the commits.
LEMMA EndsAreAbout ==
  ASSUME TypeOK, NEW s \in Sessions, pc[s] # "idle", UNCHANGED job,
         Return(s) \/ Raise(s) \/ Fail(s)
  PROVE  OnlyAbout(task[s])
<1>1. task[s] \in Jobs
  BY BusyHasJob DEF TypeOK
<1>2. \A t \in Sessions \ {s} : pc'[t] = pc[t] /\ task'[t] = task[t]
  BY DEF Return, Raise, Fail, Leave, Goto, TypeOK, SessionOK
<1>3. pc'[s] = "idle"
  BY DEF Return, Raise, Fail, Leave, Goto, TypeOK, SessionOK
<1>4. \A k \in Jobs \ {task[s]} : queue'[k] = queue[k]
  BY <1>1 DEF Return, Raise, Fail, Put, TypeOK, QueueOK
<1>5. \A t \in Sessions : pc[t] = "idle" => pc'[t] = "idle"
  BY <1>2, <1>3
<1> QED
  BY <1>2, <1>3, <1>4, <1>5 DEF OnlyAbout

\* A call that goes on, or whose thread stays where it is.
LEMMA GoesAreAbout ==
  ASSUME TypeOK, NEW s \in Sessions, NEW j \in Jobs,
         pc' = pc \/ (\E step : Goto(s, step)),
         \/ pc[s] # "idle" /\ j = task[s] /\ UNCHANGED task
         \/ task' = [task EXCEPT ![s] = j]
         \/ UNCHANGED <<pc, task>>,
         UNCHANGED job \/ (\E row : job' = [job EXCEPT ![j] = row]),
         UNCHANGED queue \/ (\E n \in Deliveries : queue' = Put(j, n) \/ queue' = Take(j, n))
  PROVE  OnlyAbout(j)
<1>1. \A t \in Sessions \ {s} : pc'[t] = pc[t] /\ task'[t] = task[t]
  BY DEF Goto, TypeOK, SessionOK
<1>2. task'[s] = j \/ (pc'[s] = pc[s] /\ task'[s] = task[s])
  BY DEF TypeOK, SessionOK
<1>3. \A k \in Jobs \ {j} : queue'[k] = queue[k]
  BY DEF Put, Take, TypeOK, QueueOK
<1>4. \A k \in Jobs \ {j} : job'[k] = job[k]
  BY DEF TypeOK, DbOK
<1> QED
  BY <1>1, <1>2, <1>3, <1>4 DEF OnlyAbout

\* A commit changes the row of the thread's job, or ends the call.
LEMMA SavesAreAbout ==
  ASSUME TypeOK, NEW s \in Sessions, pc[s] # "idle", NEW lk, NEW new, NEW step,
         Save(s, lk, new, step)
  PROVE  OnlyAbout(task[s])
<1>1. task[s] \in Jobs
  BY BusyHasJob DEF TypeOK
<1>2. CASE Accepts(s, new)
  BY <1>1, <1>2, GoesAreAbout DEF Save
<1>3. CASE ~Accepts(s, new)
  BY <1>3, EndsAreAbout DEF Save
<1> QED
  BY <1>2, <1>3

\* Every step of a worker is about the job it holds or receives.
LEMMA WorkerKeepsCreated ==
  ASSUME TypeOK, BusyJobsAreCreated, NEW w \in Workers, WorkerStep(w)
  PROVE  BusyJobsAreCreated'
<1>1. w \in Sessions /\ created' = created
  BY DEF Sessions, WorkerStep, Receive, TryLock, LoadFinished, LoadQueued, LoadInterrupted,
     LoadedAs, Verify, GetDocument, Inspect, Extract, ChunkFailed, ReplaceCanonicalContent,
     RejectCanonicalContent, Release, db
<1>2. CASE \E j \in Jobs, n \in Deliveries : Receive(w, j, n)
  <2>1. PICK j \in Jobs, n \in Deliveries : Receive(w, j, n)
    BY <1>2
  <2>2. OnlyAbout(j)
    BY <1>1, <2>1, GoesAreAbout DEF Receive, db
  <2>3. j \in created
    BY <2>1 DEF Receive, BusyJobsAreCreated
  <2> QED
    BY <1>1, <2>2, <2>3, KeptCreated
<1>3. CASE pc[w] # "idle" /\ OnlyAbout(task[w])
  <2>1. task[w] \in Jobs /\ task[w] \in created
    BY <1>1, <1>3, BusyHasJob DEF TypeOK, BusyJobsAreCreated
  <2> QED
    BY <1>1, <1>3, <2>1, KeptCreated
<1>4. pc[w] # "idle" => task[w] \in Jobs
  BY <1>1, BusyHasJob DEF TypeOK
<1>5. CASE TryLock(w)
  BY <1>1, <1>3, <1>4, <1>5, EndsAreAbout, GoesAreAbout DEF TryLock, db
<1>6. CASE LoadFinished(w)
  BY <1>1, <1>3, <1>4, <1>6, GoesAreAbout DEF LoadFinished, db
<1>7. CASE LoadQueued(w) \/ LoadInterrupted(w)
  <2>1. pc[w] # "idle" /\ \E row, step : LoadedAs(w, row, step)
    BY <1>7 DEF LoadQueued, LoadInterrupted
  <2> QED
    BY <1>1, <1>3, <1>4, <2>1, GoesAreAbout DEF LoadedAs
<1>8. CASE GetDocument(w)
  BY <1>1, <1>3, <1>4, <1>8, EndsAreAbout, GoesAreAbout DEF GetDocument, db
<1>9. CASE Verify(w) \/ Inspect(w) \/ Extract(w) \/ ChunkFailed(w) \/ ReplaceCanonicalContent(w)
  <2>1. pc[w] # "idle" /\ \E new, step : Save(w, locks, new, step)
    BY <1>9 DEF Verify, Inspect, Extract, ChunkFailed, ReplaceCanonicalContent, StageDone,
       StageFailed, StageUnavailable
  <2> QED
    BY <1>1, <1>3, <2>1, SavesAreAbout
<1>10. CASE RejectCanonicalContent(w) \/ Release(w)
  BY <1>1, <1>3, <1>10, EndsAreAbout DEF RejectCanonicalContent, Release, db
<1> QED
  BY <1>2, <1>5, <1>6, <1>7, <1>8, <1>9, <1>10 DEF WorkerStep

\* Every step of a call is about its job; an upload's is new.
LEMMA RequestKeepsCreated ==
  ASSUME TypeOK, BusyJobsAreCreated, NEW r \in Requests, StartCall(r) \/ RequestStep(r)
  PROVE  BusyJobsAreCreated'
<1>1. r \in Sessions
  BY DEF Sessions
<1>2. ASSUME NEW j \in Jobs, Upload(r, j)
      PROVE  BusyJobsAreCreated'
  <2>1. OnlyAbout(j)
    BY <1>1, <1>2, GoesAreAbout DEF Upload, Begin, Call
  <2> QED
    BY <1>2, <2>1, KeptCreated DEF Upload
<1>3. ASSUME NEW j \in Jobs, FindForRetry(r, j) \/ Delete(r, j) \/ FindForReprocessing(r, j)
      PROVE  BusyJobsAreCreated'
  <2>1. OnlyAbout(j)
    <3>1. CASE FindForRetry(r, j)
      BY <1>1, <3>1, GoesAreAbout DEF FindForRetry, Begin, Call, session, db
    <3>2. CASE Delete(r, j)
      BY <1>1, <3>2, GoesAreAbout DEF Delete, Call, session
    <3>3. CASE FindForReprocessing(r, j)
      BY <1>1, <3>3, GoesAreAbout DEF FindForReprocessing, Begin, Call, db
    <3> QED
      BY <1>3, <3>1, <3>2, <3>3
  <2>2. job[j] # NoRow /\ created' = created
    BY <1>3 DEF FindForRetry, Delete, FindForReprocessing, NoRow, db
  <2> QED
    BY <2>1, <2>2, KeptCreated DEF BusyJobsAreCreated
<1>4. CASE RequestStep(r)
  <2>1. pc[r] # "idle" /\ created' = created
    BY <1>4 DEF RequestStep, Refresh, ResetFailed, LockReset, Unlock, Send, SendFails,
       RecordDispatch, Reprocess, db
  <2>2. task[r] \in Jobs /\ task[r] \in created
    BY <1>1, <2>1, BusyHasJob DEF TypeOK, BusyJobsAreCreated
  <2>3. CASE Refresh(r)
    BY <1>1, <2>1, <2>2, <2>3, KeptCreated, EndsAreAbout, GoesAreAbout DEF Refresh, db
  <2>4. CASE ResetFailed(r)
    BY <1>1, <2>1, <2>2, <2>4, KeptCreated, SavesAreAbout DEF ResetFailed
  <2>5. CASE LockReset(r)
    BY <1>1, <2>1, <2>2, <2>5, KeptCreated, SavesAreAbout, EndsAreAbout DEF LockReset
  <2>6. CASE Unlock(r)
    BY <1>1, <2>1, <2>2, <2>6, KeptCreated, GoesAreAbout DEF Unlock, db
  <2>7. CASE Send(r)
    <3>1. 0 \in Deliveries
      BY LimitsAssumption DEF Deliveries
    <3> QED
      BY <1>1, <2>1, <2>2, <2>7, <3>1, KeptCreated, GoesAreAbout DEF Send, db
  <2>8. CASE SendFails(r)
    BY <1>1, <2>1, <2>2, <2>8, KeptCreated, EndsAreAbout DEF SendFails, db
  <2>9. CASE RecordDispatch(r) \/ Reprocess(r)
    <3>1. /\ pc'[r] = "idle" /\ UNCHANGED queue
          /\ \A t \in Sessions \ {r} : pc'[t] = pc[t] /\ task'[t] = task[t]
      BY <1>1, <2>9 DEF RecordDispatch, Reprocess, Return, Leave, Goto, TypeOK, SessionOK
    <3>2. \A k \in Jobs \ {task[r]} : job'[k] = job[k]
      BY <2>2, <2>9 DEF RecordDispatch, Reprocess, TypeOK, DbOK
    <3>3. OnlyAbout(task[r])
      BY <2>1, <3>1, <3>2 DEF OnlyAbout
    <3> QED
      BY <2>1, <2>2, <3>3, KeptCreated
  <2> QED
    BY <1>4, <2>3, <2>4, <2>5, <2>6, <2>7, <2>8, <2>9 DEF RequestStep
<1> QED
  BY <1>2, <1>3, <1>4 DEF StartCall

\* A failure brings no job into play that was not.
LEMMA FailureKeepsCreated ==
  ASSUME TypeOK, BusyJobsAreCreated, Failure \/ UNCHANGED vars
  PROVE  BusyJobsAreCreated'
<1>1. UNCHANGED db
  BY DEF Failure, Crash, Redeliver, LoseMessage, vars
<1>2. CASE UNCHANGED vars
  BY <1>2 DEF BusyJobsAreCreated, vars, db, session
<1>3. ASSUME NEW p \in Procs, Crash(p)
      PROVE  BusyJobsAreCreated'
  <2>1. \A s \in Sessions : pc'[s] # "idle" => pc[s] # "idle" /\ task'[s] = task[s]
    BY <1>3 DEF Crash
  <2>2. ASSUME NEW j \in Jobs, NEW n \in Deliveries, queue'[j][n] > 0
        PROVE  j \in created
    <3>1. queue'[j][n] = queue[j][n] + Cardinality(Unacknowledged(p, j, n))
      BY <1>3 DEF Crash
    <3>2. CASE queue[j][n] > 0
      BY <3>2 DEF BusyJobsAreCreated
    <3>3. CASE queue[j][n] = 0
      <4>1. Cardinality(Unacknowledged(p, j, n)) # 0
        BY <2>2, <3>1, <3>3
      <4>2. Unacknowledged(p, j, n) # {}
        BY <4>1, FS_EmptySet
      <4>3. PICK w \in Workers : pc[w] # "idle" /\ task[w] = j
        BY <4>2 DEF Unacknowledged
      <4> QED
        BY <4>3 DEF BusyJobsAreCreated, Sessions
    <3> QED
      BY <3>2, <3>3 DEF TypeOK, QueueOK
  <2> QED
    BY <1>1, <2>1, <2>2 DEF BusyJobsAreCreated, db
<1>4. ASSUME NEW j \in Jobs, j \in created, UNCHANGED session,
             \E n \in Deliveries : queue' = Put(j, n) \/ queue' = Take(j, n)
      PROVE  BusyJobsAreCreated'
  <2>1. \A k \in Jobs \ {j} : queue'[k] = queue[k]
    BY <1>4 DEF Put, Take, TypeOK, QueueOK
  <2>2. OnlyAbout(j)
    BY <1>1, <1>4, <2>1 DEF OnlyAbout, session, db
  <2> QED
    BY <1>1, <1>4, <2>2, KeptCreated DEF db
<1>5. ASSUME NEW w \in Workers, Redeliver(w)
      PROVE  BusyJobsAreCreated'
  <2>1. w \in Sessions /\ pc[w] # "idle" /\ task[w] \in Jobs /\ retries[w] \in Deliveries
    BY <1>5, BusyHasJob DEF Redeliver, Sessions, TypeOK, SessionOK
  <2>2. task[w] \in created
    BY <2>1 DEF BusyJobsAreCreated
  <2> QED
    BY <1>4, <1>5, <2>1, <2>2 DEF Redeliver
<1>6. ASSUME NEW j \in Jobs, NEW n \in Deliveries, LoseMessage(j, n)
      PROVE  BusyJobsAreCreated'
  BY <1>4, <1>6 DEF LoseMessage, BusyJobsAreCreated
<1> QED
  BY <1>2, <1>3, <1>5, <1>6 DEF Failure

\* No job has a row, a thread or a message that was never uploaded: job ids are
\* not made up by retries, redeliveries or crashes (upload_document).
THEOREM OnlyUploadsCreate == Spec => []BusyJobsAreCreated
<1>1. Init => BusyJobsAreCreated
  BY DEF Init, BusyJobsAreCreated
<1>2. TypeOK /\ BusyJobsAreCreated /\ [Next]_vars => BusyJobsAreCreated'
  BY WorkerKeepsCreated, RequestKeepsCreated, FailureKeepsCreated DEF Next
<1> QED
  BY <1>1, <1>2, TypeCorrect, PTL DEF Spec

-----------------------------------------------------------------------------
(***************************************************************************)
(* The effects keep the invariant.                                         *)
(***************************************************************************)
\* What a step of a thread does to the rows and the copies.
StepEffects(s) ==
  \/ Quiet(s)
  \/ \E j \in Jobs, row \in JobRow : Writes(s, j, row)
  \/ \E j \in Jobs : Inserts(s, j) \/ Removes(j)
  \/ \E j \in Jobs, row \in JobRow : Records(s, j, row)

\* After a step of a thread every copy is still the row.
LEMMA CopiesStayRows ==
  ASSUME BaseInv, CopiesAgree, BusyJobsAreCreated, NEW s \in Sessions, StepEffects(s)
  PROVE  CopiesAgree'
<1>1. job \in [Jobs -> Row] /\ \A t \in Sessions : Tracks(t) => task[t] \in Jobs
  BY CopyOfThread DEF BaseInv, TypeOK, DbOK
<1> SUFFICES ASSUME NEW t \in Sessions, Tracks(t)'
             PROVE  job'[task'[t]] = NoRow \/ SameProgress(obj'[t], job'[task'[t]])
  BY DEF CopiesAgree, SameProgress
<1>2. CASE t # s /\ OthersKeep(s)
  <2>1. Tracks(t) /\ task'[t] = task[t] /\ obj'[t] = obj[t]
    BY <1>2 DEF OthersKeep, Tracks
  <2>2. task[t] \in Jobs /\ (job[task[t]] = NoRow \/ SameProgress(obj[t], job[task[t]]))
    BY <1>1, <2>1 DEF CopiesAgree
  <2>3. CASE job'[task[t]] = job[task[t]]
    BY <2>1, <2>2, <2>3
  <2>4. CASE \E j \in Jobs, row \in JobRow : Writes(s, j, row)
    BY <1>1, <1>2, <2>1, <2>2, <2>3, <2>4 DEF Writes, AloneOn
  <2>5. CASE \E j \in Jobs : Inserts(s, j)
    <3>1. pc[t] # "idle"
      BY <2>1 DEF Tracks
    <3>2. task[t] \in created
      BY <3>1 DEF BusyJobsAreCreated
    <3> QED
      BY <1>1, <2>2, <2>3, <2>5, <3>2 DEF Inserts
  <2>6. CASE \E j \in Jobs, row \in JobRow : Records(s, j, row)
    BY <1>1, <2>1, <2>2, <2>6 DEF Records, SameProgress
  <2>7. CASE \E j \in Jobs : Removes(j)
    BY <1>1, <2>1, <2>2, <2>7 DEF Removes
  <2> QED
    BY <2>3, <2>4, <2>5, <2>6, <2>7 DEF StepEffects, Quiet, db
<1>3. CASE t = s /\ Quiet(s)
  BY <1>3 DEF Quiet, CopiesAgree, SameProgress, db
<1>4. CASE t = s /\ \E j \in Jobs, row \in JobRow : Writes(s, j, row)
  BY <1>1, <1>4 DEF Writes
<1>5. CASE \E j \in Jobs : Removes(j)
  <2>1. Tracks(t) /\ task'[t] = task[t] /\ obj'[t] = obj[t]
    BY <1>5 DEF Removes, Tracks
  <2>2. task[t] \in Jobs /\ (job[task[t]] = NoRow \/ SameProgress(obj[t], job[task[t]]))
    BY <1>1, <2>1 DEF CopiesAgree
  <2> QED
    BY <1>1, <1>5, <2>1, <2>2 DEF Removes
<1> QED
  BY <1>2, <1>3, <1>4, <1>5 DEF StepEffects, Quiet, Writes, Inserts, Records

\* A failure changes no row, and no copy of a thread that lives on.
LEMMA FailureKeepsCopies ==
  ASSUME CopiesAgree, ResettersSound, Failure \/ UNCHANGED vars
  PROVE  CopiesAgree' /\ ResettersSound'
<1>1. job' = job /\ \A s \in Sessions :
        pc'[s] = "idle" \/ (pc'[s] = pc[s] /\ task'[s] = task[s] /\ obj'[s] = obj[s])
  BY DEF Failure, Crash, Redeliver, LoseMessage, vars, db, session
<1> QED
  BY <1>1 DEF CopiesAgree, ResettersSound, Tracks, Resetting, Sessions

\* A retry reads a job that was attempted, and keeps what it read.
LEMMA ResettersStaySound ==
  ASSUME BaseInv, AttemptsCounted, ResettersSound, NEW s \in Sessions, StepEffects(s),
         s \in Requests => ReadsToReset(s)
  PROVE  ResettersSound'
<1> SUFFICES ASSUME NEW r \in Requests, Resetting(r)'
             PROVE  obj'[r].attempts > 0 /\ ChecksHold(obj'[r])
  BY DEF ResettersSound, ChecksHold
<1>1. r \in Sessions
  BY DEF Sessions
<1>2. CASE r = s
  <2>1. PICK j \in Jobs : obj'[r] = job[j] /\ job[j].status \in ActiveStatuses \cup FinalStatuses
    BY <1>2 DEF ReadsToReset
  <2> QED
    BY <2>1 DEF AttemptsCounted, BaseInv, DbInv, RowsAreConsistent
<1>3. CASE r # s
  BY <1>1, <1>3 DEF StepEffects, Quiet, Writes, Inserts, Removes, Records, OthersKeep,
     Resetting, ResettersSound
<1> QED
  BY <1>2, <1>3

-----------------------------------------------------------------------------
(***************************************************************************)
(* The effects are steps of JobLifecycle.                                  *)
(***************************************************************************)
StatusOf == [j \in Jobs |-> job[j].status]
AttemptsOf == [j \in Jobs |-> job[j].attempts]
FailureOf == [j \in Jobs |-> job[j].failure]

\* What JobLifecycle sees of a step that changes one row.
LEMMA OneRowSeen ==
  ASSUME job \in [Jobs -> Row], NEW j \in Jobs, NEW row, job' = [job EXCEPT ![j] = row]
  PROVE  /\ StatusOf' = [StatusOf EXCEPT ![j] = row.status]
         /\ AttemptsOf' = [AttemptsOf EXCEPT ![j] = row.attempts]
         /\ FailureOf' = [FailureOf EXCEPT ![j] = row.failure]
BY DEF StatusOf, AttemptsOf, FailureOf

\* A value written again is not seen.
LEMMA ColumnsKept ==
  ASSUME NEW j \in Jobs
  PROVE  /\ [StatusOf EXCEPT ![j] = job[j].status] = StatusOf
         /\ [AttemptsOf EXCEPT ![j] = job[j].attempts] = AttemptsOf
         /\ [FailureOf EXCEPT ![j] = job[j].failure] = FailureOf
BY DEF StatusOf, AttemptsOf, FailureOf

LifecycleStep == [Lifecycle!Next]_(Lifecycle!vars)

\* A step that changes no row, or only whether a dispatch is recorded, is none
\* of the lifecycle.
LEMMA UnseenStep ==
  ASSUME job \in [Jobs -> Row], UNCHANGED <<content, created>>,
         \/ job' = job
         \/ \E j \in Jobs : \E row : job' = [job EXCEPT ![j] = row] /\ SameProgress(row, job[j])
  PROVE  LifecycleStep
<1>1. StatusOf' = StatusOf /\ AttemptsOf' = AttemptsOf /\ FailureOf' = FailureOf
  <2>1. CASE job' = job
    BY <2>1 DEF StatusOf, AttemptsOf, FailureOf
  <2>2. ASSUME NEW j \in Jobs, NEW row, job' = [job EXCEPT ![j] = row],
               SameProgress(row, job[j])
        PROVE  StatusOf' = StatusOf /\ AttemptsOf' = AttemptsOf /\ FailureOf' = FailureOf
    <3>1. /\ StatusOf' = [StatusOf EXCEPT ![j] = row.status]
          /\ AttemptsOf' = [AttemptsOf EXCEPT ![j] = row.attempts]
          /\ FailureOf' = [FailureOf EXCEPT ![j] = row.failure]
      BY <2>2, OneRowSeen
    <3>2. /\ row.status = job[j].status /\ row.attempts = job[j].attempts
          /\ row.failure = job[j].failure
      BY <2>2 DEF SameProgress
    <3> QED
      BY <2>2, <3>1, <3>2, ColumnsKept
  <2> QED
    BY <2>1, <2>2
<1> QED
  BY <1>1 DEF LifecycleStep, Lifecycle!vars, StatusOf, AttemptsOf, FailureOf

\* Every outcome of a worker's step is a step of the lifecycle.
LEMMA OutcomeIsStep ==
  ASSUME job \in [Jobs -> Row], NEW w \in Workers, NEW j \in Jobs, NEW row \in JobRow,
         Writes(w, j, row), Outcome(w, j, row)
  PROVE  LifecycleStep
<1>1. /\ StatusOf' = [StatusOf EXCEPT ![j] = row.status]
      /\ AttemptsOf' = [AttemptsOf EXCEPT ![j] = row.attempts]
      /\ FailureOf' = [FailureOf EXCEPT ![j] = row.failure]
      /\ UNCHANGED created
  BY OneRowSeen DEF Writes
<1>2. StatusOf[j] = job[j].status /\ AttemptsOf[j] = job[j].attempts
  BY DEF StatusOf, AttemptsOf
<1>3. row.attempts = job[j].attempts => AttemptsOf' = AttemptsOf
  BY <1>1, ColumnsKept
<1>4. row.failure = job[j].failure => FailureOf' = FailureOf
  BY <1>1, ColumnsKept
<1>5. CASE Starts(j, row)
  <2>1. Lifecycle!Start(j)
    BY <1>1, <1>2, <1>4, <1>5 DEF Starts, Lifecycle!Start, Lifecycle!Moves, StatusOf,
       AttemptsOf, FailureOf
  <2> QED
    BY <2>1 DEF LifecycleStep, Lifecycle!Next
<1>6. CASE Advances(j, row)
  <2>1. Lifecycle!Advance(j)
    BY <1>1, <1>2, <1>3, <1>4, <1>6 DEF Advances, Kept, Lifecycle!Advance, Lifecycle!Moves,
       StatusOf, AttemptsOf, FailureOf
  <2> QED
    BY <2>1 DEF LifecycleStep, Lifecycle!Next
<1>7. CASE Publishes(j, row)
  <2>1. Lifecycle!Publish(j)
    BY <1>1, <1>2, <1>3, <1>4, <1>7 DEF Publishes, Kept, Lifecycle!Publish,
       Lifecycle!Moves, StatusOf, AttemptsOf, FailureOf
  <2> QED
    BY <2>1 DEF LifecycleStep, Lifecycle!Next
<1>8. CASE GivesUp(j, row)
  <2>1. Lifecycle!GiveUp(j)
    BY <1>1, <1>2, <1>3, <1>8 DEF GivesUp, Lifecycle!GiveUp, Lifecycle!Moves,
       Lifecycle!ActiveStatuses, ActiveStatuses, Lifecycle!FailureCodes, FailureCodes,
       StatusOf, AttemptsOf, FailureOf
  <2> QED
    BY <2>1 DEF LifecycleStep, Lifecycle!Next
<1>9. CASE Requeues(j, row)
  <2>1. Lifecycle!Requeue(j)
    BY <1>1, <1>2, <1>3, <1>4, <1>9 DEF Requeues, Kept, Lifecycle!Requeue,
       Lifecycle!Moves, Lifecycle!ActiveStatuses, ActiveStatuses, StatusOf, AttemptsOf,
       FailureOf
  <2> QED
    BY <2>1 DEF LifecycleStep, Lifecycle!Next
<1> QED
  BY <1>5, <1>6, <1>7, <1>8, <1>9 DEF Outcome

\* So is every effect of a request's.
LEMMA RequestEffectIsStep ==
  ASSUME job \in [Jobs -> Row], BusyJobsAreCreated, NEW r \in Requests, RequestEffects(r)
  PROVE  LifecycleStep
<1>1. CASE Quiet(r)
  BY <1>1, UnseenStep DEF Quiet, db
<1>2. ASSUME NEW j \in Jobs, NEW row \in JobRow, Records(r, j, row)
      PROVE  LifecycleStep
  BY <1>2, UnseenStep DEF Records
<1>3. ASSUME NEW j \in Jobs, Inserts(r, j)
      PROVE  LifecycleStep
  <2>1. job[j] = NoRow
    BY <1>3 DEF Inserts, BusyJobsAreCreated
  <2>2. /\ StatusOf' = [StatusOf EXCEPT ![j] = QueuedRow.status]
        /\ AttemptsOf' = [AttemptsOf EXCEPT ![j] = QueuedRow.attempts]
        /\ FailureOf' = [FailureOf EXCEPT ![j] = QueuedRow.failure]
    BY <1>3, OneRowSeen DEF Inserts
  <2>3. /\ QueuedRow.status = "queued" /\ QueuedRow.attempts = job[j].attempts
        /\ QueuedRow.failure = job[j].failure /\ job[j].status = "absent"
    BY <2>1 DEF QueuedRow, NoRow
  <2>4. AttemptsOf' = AttemptsOf /\ FailureOf' = FailureOf /\ StatusOf[j] = "absent"
    BY <2>2, <2>3, ColumnsKept DEF StatusOf
  <2>5. Lifecycle!Insert(j)
    BY <1>3, <2>2, <2>3, <2>4 DEF Inserts, Lifecycle!Insert, Lifecycle!Moves, StatusOf,
       AttemptsOf, FailureOf
  <2> QED
    BY <2>5 DEF LifecycleStep, Lifecycle!Next
<1>4. ASSUME NEW j \in Jobs, Removes(j)
      PROVE  LifecycleStep
  <2>1. /\ StatusOf' = [StatusOf EXCEPT ![j] = NoRow.status]
        /\ AttemptsOf' = [AttemptsOf EXCEPT ![j] = NoRow.attempts]
        /\ FailureOf' = [FailureOf EXCEPT ![j] = NoRow.failure]
    BY <1>4, OneRowSeen DEF Removes
  <2>2. NoRow.status = "absent" /\ NoRow.attempts = 0 /\ NoRow.failure = "none"
    BY DEF NoRow
  <2>3. StatusOf[j] # "absent"
    <3>1. job[j] \in JobRow
      BY <1>4, PresentRow DEF Removes
    <3> QED
      BY <3>1 DEF StatusOf, JobRow, JobStatuses, ActiveStatuses, FinalStatuses
  <2>4. Lifecycle!Remove(j)
    BY <1>4, <2>1, <2>2, <2>3 DEF Removes, Lifecycle!Remove, StatusOf, AttemptsOf, FailureOf
  <2> QED
    BY <2>4 DEF LifecycleStep, Lifecycle!Next
<1>5. ASSUME NEW j \in Jobs, NEW row \in JobRow, Writes(r, j, row), Resets(r, j, row)
      PROVE  LifecycleStep
  <2>1. /\ StatusOf' = [StatusOf EXCEPT ![j] = row.status]
        /\ AttemptsOf' = [AttemptsOf EXCEPT ![j] = row.attempts]
        /\ FailureOf' = [FailureOf EXCEPT ![j] = row.failure]
    BY <1>5, OneRowSeen DEF Writes
  <2>2. StatusOf[j] \in JobStatuses
    <3>1. job[j] \in JobRow
      BY <1>5, PresentRow DEF Writes
    <3> QED
      BY <3>1 DEF StatusOf, JobRow
  <2>3. Lifecycle!Reset(j)
    BY <1>5, <2>1, <2>2 DEF Writes, Resets, Lifecycle!Reset, Lifecycle!Moves, StatusOf,
       AttemptsOf, FailureOf, Lifecycle!JobStatuses, JobStatuses, Lifecycle!ActiveStatuses,
       ActiveStatuses, Lifecycle!FinalStatuses, FinalStatuses
  <2> QED
    BY <2>3 DEF LifecycleStep, Lifecycle!Next
<1> QED
  BY <1>1, <1>2, <1>3, <1>4, <1>5 DEF RequestEffects

\* The first state of the pipeline is the lifecycle's.
LEMMA InitIsLifecycles == Init => Lifecycle!Init
BY DEF Init, Lifecycle!Init, NoRow

-----------------------------------------------------------------------------
(***************************************************************************)
(* Attempts.  A job that may start an attempt has attempts left, except    *)
(* for those that interruptions cost: this is what bounds them.            *)
(***************************************************************************)
MayStart(j) ==
  \/ job[j].status = "queued"
  \/ job[j].status \in ActiveStatuses /\ Unattended(j)

AttemptsLeft ==
  \A j \in Jobs : MayStart(j) => job[j].attempts < MaxProcessingAttempts + faults

AttemptsInv == AttemptsBounded /\ AttemptsLeft

\* The attempts of one row are within its bounds.
WithinBounds(j) ==
  /\ job[j].attempts <= MaxProcessingAttempts + faults
  /\ MayStart(j) => job[j].attempts < MaxProcessingAttempts + faults

\* The bounds hold when they hold for each row, now and in the next state.
LEMMA BoundsRowByRow ==
  /\ AttemptsInv <=> \A j \in Jobs : WithinBounds(j)
  /\ AttemptsInv' <=> \A j \in Jobs : WithinBounds(j)'
BY DEF AttemptsInv, AttemptsBounded, AttemptsLeft, WithinBounds

\* Attempts are counted from zero.
LEMMA AttemptsAreNumbers ==
  ASSUME TypeOK
  PROVE  \A j \in Jobs : job[j].attempts \in Nat
<1>1. \A j \in Jobs : job[j] \in RowShape
  BY RowsHaveShape DEF TypeOK, DbOK
<1> QED
  BY <1>1 DEF RowShape

\* A row that is kept, and whose worker stays, keeps its bounds.
LEMMA KeptBounds ==
  ASSUME TypeOK, TypeOK', AttemptsInv, NEW j \in Jobs,
         job'[j].status = job[j].status, job'[j].attempts = job[j].attempts,
         \/ faults' = faults /\ (Unattended(j)' => Unattended(j) \/ job[j] = NoRow)
         \/ faults' = faults + 1
  PROVE  WithinBounds(j)'
<1>1. job[j].attempts \in Nat /\ faults \in Nat /\ MaxProcessingAttempts \in Nat
  BY AttemptsAreNumbers, LimitsAssumption DEF TypeOK
<1>2. WithinBounds(j)
  BY BoundsRowByRow
<1>3. CASE faults' = faults + 1
  BY <1>1, <1>2, <1>3 DEF WithinBounds
<1>4. CASE faults' = faults /\ (Unattended(j)' => Unattended(j) \/ job[j] = NoRow)
  <2>1. MayStart(j)' => MayStart(j)
    BY <1>4 DEF MayStart, NoRow, ActiveStatuses
  <2> QED
    BY <1>1, <1>2, <1>4, <2>1 DEF WithinBounds
<1> QED
  BY <1>3, <1>4

\* A worker's step that leaves the others where they are leaves the other jobs
\* to their workers.
LEMMA OthersAttend ==
  ASSUME TypeOK, NEW s \in Sessions, OthersKeep(s), NEW j \in Jobs, Unattended(j)',
         Working(s) /\ task[s] = j => s \in Requests
  PROVE  Unattended(j)
BY SessionsAssumption DEF Unattended, OthersKeep, Working, Sessions

\* The bounds survive every write.
LEMMA WritesKeepBounds ==
  ASSUME BaseInv, TypeOK', AttemptsInv, NEW s \in Sessions, NEW j \in Jobs,
         NEW row \in JobRow, Writes(s, j, row),
         \/ s \in Workers /\ Outcome(s, j, row)
         \/ s \in Requests /\ Resets(s, j, row)
  PROVE  AttemptsInv'
<1>1. /\ job \in [Jobs -> Row] /\ TypeOK /\ faults' = faults /\ faults \in Nat
      /\ MaxProcessingAttempts \in Nat \ {0}
      /\ job' = [job EXCEPT ![j] = row] /\ OthersKeep(s) /\ task[s] = j
  BY LimitsAssumption DEF BaseInv, TypeOK, DbOK, Writes
<1>2. job'[j] = row /\ \A k \in Jobs \ {j} : job'[k] = job[k]
  BY <1>1
<1>3. ASSUME NEW k \in Jobs \ {j}
      PROVE  WithinBounds(k)'
  <2>1. Unattended(k)' => Unattended(k)
    BY <1>1, OthersAttend
  <2> QED
    BY <1>1, <1>2, <2>1, KeptBounds
<1>4. job[j].attempts \in Nat /\ WithinBounds(j)
  BY <1>1, AttemptsAreNumbers, BoundsRowByRow
<1>5. WithinBounds(j)'
  <2>1. CASE s \in Requests /\ Resets(s, j, row)
    BY <1>1, <1>2, <2>1 DEF Resets, WithinBounds
  <2>2. CASE s \in Workers /\ (Starts(j, row) \/ Advances(j, row)) /\ Working(s)' /\ task'[s] = j
    <3>1. ~Unattended(j)'
      BY <2>2 DEF Unattended
    <3>2. row.status \in ActiveStatuses
      BY <2>2 DEF Starts, Advances, ActiveStatuses
    <3>3. ~MayStart(j)'
      BY <1>2, <3>1, <3>2 DEF MayStart, ActiveStatuses
    <3>4. row.attempts <= MaxProcessingAttempts + faults
      BY <1>1, <1>4, <2>2 DEF Starts, Advances, Kept, WithinBounds, MayStart
    <3> QED
      BY <1>1, <1>2, <3>3, <3>4 DEF WithinBounds
  <2>3. CASE Publishes(j, row) \/ GivesUp(j, row)
    <3>1. ~MayStart(j)' /\ row.attempts = job[j].attempts
      BY <1>2, <2>3 DEF Publishes, GivesUp, Kept, MayStart, ActiveStatuses
    <3> QED
      BY <1>1, <1>2, <1>4, <3>1 DEF WithinBounds
  <2>4. CASE Requeues(j, row) /\ (job[j].attempts < MaxProcessingAttempts \/ Unattended(j))
    <3>1. row.attempts = job[j].attempts /\ job[j].status \in ActiveStatuses
      BY <2>4 DEF Requeues, Kept
    <3>2. row.attempts < MaxProcessingAttempts + faults
      BY <1>1, <1>4, <2>4, <3>1 DEF WithinBounds, MayStart
    <3> QED
      BY <1>1, <1>2, <1>4, <3>1, <3>2 DEF WithinBounds
  <2> QED
    BY <2>1, <2>2, <2>3, <2>4 DEF Outcome
<1> QED
  BY <1>3, <1>5, BoundsRowByRow

\* The bounds survive a step that leaves the rows alone.
LEMMA QuietKeepsBounds ==
  ASSUME BaseInv, TypeOK', AttemptsInv, NEW s \in Sessions, Quiet(s)
  PROVE  AttemptsInv'
<1>1. TypeOK /\ job' = job /\ OthersKeep(s)
  BY DEF BaseInv, Quiet, db
<1>2. ASSUME NEW j \in Jobs, faults' = faults, Unattended(j)'
      PROVE  Unattended(j) \/ job[j] = NoRow
  <2>1. CASE s \in Workers /\ Working(s) /\ task[s] = j
    <3>1. Tracks(s) /\ faults' # faults + 1
      BY <1>2, <2>1 DEF Working, Tracks, TypeOK, BaseInv
    <3>2. job[j] = NoRow \/ (Tracks(s)' /\ task'[s] = j)
      BY <2>1, <3>1 DEF Quiet
    <3>3. pc'[s] \in {"idle"} \cup WorkerSteps
      BY <2>1 DEF TypeOK, SessionOK, StepsOf
    <3>4. Tracks(s)' => Working(s)'
      BY <3>3 DEF Tracks, Working, WorkerSteps
    <3> QED
      BY <1>2, <2>1, <3>2, <3>4 DEF Unattended
  <2>2. CASE ~(s \in Workers /\ Working(s) /\ task[s] = j)
    BY <1>1, <1>2, <2>2, OthersAttend DEF Sessions
  <2> QED
    BY <2>1, <2>2
<1>3. \A j \in Jobs : WithinBounds(j)'
  BY <1>1, <1>2, KeptBounds DEF Quiet
<1> QED
  BY <1>3, BoundsRowByRow

\* So they survive every step of a worker.
LEMMA WorkerKeepsBounds ==
  ASSUME BaseInv, TypeOK', AttemptsInv, NEW w \in Workers, WorkerEffects(w)
  PROVE  AttemptsInv'
BY WritesKeepBounds, QuietKeepsBounds DEF WorkerEffects, Sessions

\* So they survive every step of a request.
LEMMA RequestKeepsBounds ==
  ASSUME BaseInv, TypeOK', AttemptsInv, NEW r \in Requests, RequestEffects(r)
  PROVE  AttemptsInv'
<1>1. r \in Sessions /\ r \notin Workers /\ TypeOK /\ job \in [Jobs -> Row]
  BY SessionsAssumption DEF Sessions, BaseInv, TypeOK, DbOK
<1>2. ASSUME NEW j \in Jobs, NEW row, row.attempts = 0 \/ SameProgress(row, job[j]),
             faults' = faults, job' = [job EXCEPT ![j] = row],
             \A k \in Jobs : Unattended(k)' => Unattended(k)
      PROVE  AttemptsInv'
  <2>1. job'[j] = row /\ \A k \in Jobs \ {j} : job'[k] = job[k]
    BY <1>1, <1>2
  <2>2. \A k \in Jobs \ {j} : WithinBounds(k)'
    BY <1>1, <1>2, <2>1, KeptBounds
  <2>3. CASE row.attempts = 0
    <3>1. faults' \in Nat /\ MaxProcessingAttempts \in Nat \ {0}
      BY LimitsAssumption DEF TypeOK
    <3>2. \A n \in Nat, m \in Nat \ {0} : 0 < m + n /\ 0 <= m + n
      OBVIOUS
    <3>3. job'[j].attempts = 0
      BY <2>1, <2>3
    <3>4. WithinBounds(j)'
      BY <3>1, <3>2, <3>3, Zenon DEF WithinBounds
    <3> QED
      BY <2>2, <3>4, BoundsRowByRow
  <2>4. CASE SameProgress(row, job[j])
    <3>1. WithinBounds(j)'
      BY <1>1, <1>2, <2>1, <2>4, KeptBounds DEF SameProgress
    <3> QED
      BY <2>2, <3>1, BoundsRowByRow
  <2> QED
    BY <1>2, <2>3, <2>4
<1>3. ASSUME OthersKeep(r)
      PROVE  \A k \in Jobs : Unattended(k)' => Unattended(k)
  BY <1>1, <1>3, OthersAttend
<1>4. ASSUME NEW j \in Jobs, Inserts(r, j)
      PROVE  AttemptsInv'
  <2>1. QueuedRow.attempts = 0
    BY DEF QueuedRow, NoRow
  <2> QED
    BY <1>2, <1>3, <1>4, <2>1 DEF Inserts
<1>5. ASSUME NEW j \in Jobs, Removes(j)
      PROVE  AttemptsInv'
  <2>1. NoRow.attempts = 0
    BY DEF NoRow
  <2>2. \A k \in Jobs : Unattended(k)' => Unattended(k)
    BY <1>5 DEF Removes, Unattended, Working
  <2> QED
    BY <1>2, <1>5, <2>1, <2>2 DEF Removes
<1>6. ASSUME NEW j \in Jobs, NEW row \in JobRow, Records(r, j, row)
      PROVE  AttemptsInv'
  BY <1>2, <1>3, <1>6 DEF Records
<1>7. ASSUME NEW j \in Jobs, NEW row \in JobRow, Writes(r, j, row), Resets(r, j, row)
      PROVE  AttemptsInv'
  BY <1>1, <1>7, WritesKeepBounds
<1> QED
  BY <1>1, <1>4, <1>5, <1>6, <1>7, QuietKeepsBounds DEF RequestEffects

\* A failure costs at most one attempt.
LEMMA FailureKeepsBounds ==
  ASSUME TypeOK, TypeOK', AttemptsInv, Failure \/ UNCHANGED vars
  PROVE  AttemptsInv'
<1>1. job' = job
  BY DEF Failure, Crash, Redeliver, LoseMessage, vars, db
<1>2. \/ faults' = faults + 1
      \/ faults' = faults /\ \A j \in Jobs : Unattended(j)' => Unattended(j)
  BY DEF Failure, Crash, Redeliver, LoseMessage, Fault, vars, session, budget, Unattended,
     Working
<1>3. \A j \in Jobs : WithinBounds(j)'
  BY <1>1, <1>2, KeptBounds
<1> QED
  BY <1>3, BoundsRowByRow

-----------------------------------------------------------------------------
(***************************************************************************)
(* One step, whoever takes it.                                             *)
(***************************************************************************)
\* Attempts are counted through every effect.
LEMMA AttemptsStayCounted ==
  ASSUME TypeOK, AttemptsCounted,
         \/ \E w \in Workers : WorkerEffects(w)
         \/ \E r \in Requests : RequestEffects(r)
         \/ job' = job
  PROVE  AttemptsCounted'
<1>1. job \in [Jobs -> Row] /\ \A j \in Jobs : job[j].attempts \in Nat
  BY AttemptsAreNumbers DEF TypeOK, DbOK
<1> SUFFICES ASSUME NEW j \in Jobs, job'[j].status \in ActiveStatuses \cup FinalStatuses
             PROVE  job'[j].attempts > 0
  BY DEF AttemptsCounted
<1>2. CASE job'[j] = job[j]
  BY <1>2 DEF AttemptsCounted
<1>3. ASSUME NEW row \in JobRow, job' = [job EXCEPT ![j] = row],
             SameProgress(row, job[j])
      PROVE  job'[j].attempts > 0
  BY <1>1, <1>3 DEF AttemptsCounted, SameProgress
<1>4. ASSUME NEW row \in JobRow, job' = [job EXCEPT ![j] = row], row.status = "queued"
      PROVE  FALSE
  BY <1>1, <1>4 DEF ActiveStatuses, FinalStatuses
<1>5. ASSUME NEW w \in Workers, NEW row \in JobRow, Writes(w, j, row), Outcome(w, j, row)
      PROVE  job'[j].attempts > 0
  <2>1. job'[j] = row
    BY <1>1, <1>5 DEF Writes
  <2>2. CASE Starts(j, row)
    BY <1>1, <2>1, <2>2 DEF Starts
  <2>3. CASE Advances(j, row) \/ Publishes(j, row) \/ GivesUp(j, row)
    BY <2>1, <2>3 DEF Advances, Publishes, GivesUp, Kept, AttemptsCounted, ActiveStatuses
  <2>4. CASE Requeues(j, row)
    BY <1>4, <1>5, <2>4 DEF Requeues, Writes
  <2> QED
    BY <1>5, <2>2, <2>3, <2>4 DEF Outcome
<1>6. CASE \E w \in Workers : WorkerEffects(w)
  BY <1>1, <1>2, <1>5, <1>6 DEF WorkerEffects, Quiet, db, Writes
<1>7. CASE \E r \in Requests : RequestEffects(r)
  <2>1. PICK r \in Requests : RequestEffects(r)
    BY <1>7
  <2>2. CASE Quiet(r)
    BY <1>2, <2>2 DEF Quiet, db
  <2>3. ASSUME NEW k \in Jobs, Inserts(r, k) \/ Removes(k)
        PROVE  job'[j].attempts > 0
    BY <1>1, <1>2, <2>3 DEF Inserts, Removes, QueuedRow, NoRow, ActiveStatuses, FinalStatuses
  <2>4. ASSUME NEW k \in Jobs, NEW row \in JobRow, Records(r, k, row)
        PROVE  job'[j].attempts > 0
    BY <1>1, <1>2, <1>3, <2>4 DEF Records
  <2>5. ASSUME NEW k \in Jobs, NEW row \in JobRow, Writes(r, k, row), Resets(r, k, row)
        PROVE  job'[j].attempts > 0
    BY <1>1, <1>2, <1>4, <2>5 DEF Writes, Resets
  <2> QED
    BY <2>1, <2>2, <2>3, <2>4, <2>5 DEF RequestEffects
<1> QED
  BY <1>2, <1>6, <1>7

\* A ready job stays ready through every effect, but for a deletion or a
\* reprocessing.
LEMMA ReadyJobsStay ==
  ASSUME TypeOK, BusyJobsAreCreated,
         \/ \E w \in Workers : WorkerEffects(w)
         \/ \E r \in Requests : RequestEffects(r)
         \/ job' = job
  PROVE  ReadyStays
<1>1. job \in [Jobs -> Row]
  BY DEF TypeOK, DbOK
<1> SUFFICES ASSUME NEW j \in Jobs, job[j].status = "ready_for_indexing"
             PROVE  \/ SameProgress(job'[j], job[j])
                    \/ job'[j] = NoRow
                    \/ \E r \in Requests : pc[r] = "reprocess" /\ task[r] = j
  BY DEF ReadyStays
<1>2. CASE job'[j] = job[j]
  BY <1>2 DEF SameProgress
<1>3. ASSUME NEW w \in Workers, WorkerEffects(w)
      PROVE  job'[j] = job[j]
  <2>1. CASE Quiet(w)
    BY <2>1 DEF Quiet, db
  <2>2. ASSUME NEW k \in Jobs, NEW row \in JobRow, Writes(w, k, row), Outcome(w, k, row)
        PROVE  job'[j] = job[j]
    <3>1. job[k].status \in {"queued"} \cup ActiveStatuses
      BY <2>2 DEF Outcome, Starts, Advances, Publishes, GivesUp, Requeues, ActiveStatuses
    <3>2. k # j
      BY <3>1 DEF ActiveStatuses
    <3> QED
      BY <1>1, <2>2, <3>2 DEF Writes
  <2> QED
    BY <1>3, <2>1, <2>2 DEF WorkerEffects
<1>4. ASSUME NEW r \in Requests, RequestEffects(r)
      PROVE  \/ SameProgress(job'[j], job[j])
             \/ job'[j] = NoRow
             \/ pc[r] = "reprocess" /\ task[r] = j
  <2>1. CASE Quiet(r)
    BY <1>2, <2>1 DEF Quiet, db, SameProgress
  <2>2. ASSUME NEW k \in Jobs, Removes(k)
        PROVE  SameProgress(job'[j], job[j]) \/ job'[j] = NoRow
    BY <1>1, <2>2 DEF Removes, SameProgress
  <2>3. ASSUME NEW k \in Jobs, Inserts(r, k)
        PROVE  SameProgress(job'[j], job[j])
    BY <1>1, <2>3 DEF Inserts, BusyJobsAreCreated, NoRow, SameProgress
  <2>4. ASSUME NEW k \in Jobs, NEW row \in JobRow, Records(r, k, row)
        PROVE  SameProgress(job'[j], job[j])
    BY <1>1, <2>4 DEF Records, SameProgress
  <2>5. ASSUME NEW k \in Jobs, NEW row \in JobRow, Writes(r, k, row), Resets(r, k, row)
        PROVE  \/ SameProgress(job'[j], job[j])
               \/ pc[r] = "reprocess" /\ task[r] = j
    BY <1>1, <2>5 DEF Writes, Resets, SameProgress
  <2> QED
    BY <1>4, <2>1, <2>2, <2>3, <2>4, <2>5 DEF RequestEffects
<1> QED
  BY <1>2, <1>3, <1>4

\* One step keeps the invariant and is a step of the lifecycle.
LEMMA StepEffect ==
  ASSUME BaseInv, TypeOK', LifecycleInv, AttemptsInv, MutualExclusion, MutualExclusion',
         ResetsAlone, [Next]_vars
  PROVE  LifecycleInv' /\ AttemptsInv' /\ LifecycleStep /\ ReadyStays
<1>1. TypeOK /\ job \in [Jobs -> Row]
  BY DEF BaseInv, TypeOK, DbOK
<1>2. BusyJobsAreCreated'
  BY <1>1, WorkerKeepsCreated, RequestKeepsCreated, FailureKeepsCreated DEF Next, LifecycleInv
<1>3. ASSUME NEW w \in Workers, WorkerStep(w)
      PROVE  LifecycleInv' /\ AttemptsInv' /\ LifecycleStep /\ ReadyStays
  <2>1. WorkerEffects(w) /\ w \in Sessions /\ w \notin Requests
    BY <1>3, WorkerEffect, SessionsAssumption DEF LifecycleInv, Sessions
  <2>2. StepEffects(w)
    BY <2>1 DEF WorkerEffects, StepEffects
  <2>3. CopiesAgree' /\ ResettersSound'
    BY <2>1, <2>2, CopiesStayRows, ResettersStaySound DEF LifecycleInv
  <2>4. AttemptsCounted' /\ ReadyStays
    BY <1>1, <2>1, AttemptsStayCounted, ReadyJobsStay DEF LifecycleInv
  <2>5. AttemptsInv'
    BY <2>1, WorkerKeepsBounds
  <2>6. LifecycleStep
    <3>1. CASE Quiet(w)
      BY <1>1, <3>1, UnseenStep DEF Quiet, db
    <3> QED
      BY <1>1, <2>1, <3>1, OutcomeIsStep DEF WorkerEffects
  <2> QED
    BY <1>2, <2>3, <2>4, <2>5, <2>6 DEF LifecycleInv
<1>4. ASSUME NEW r \in Requests, StartCall(r) \/ RequestStep(r)
      PROVE  LifecycleInv' /\ AttemptsInv' /\ LifecycleStep /\ ReadyStays
  <2>1. RequestEffects(r) /\ ReadsToReset(r) /\ r \in Sessions
    BY <1>4, StartCallEffect, RequestEffect DEF LifecycleInv, Sessions
  <2>2. StepEffects(r)
    BY <2>1 DEF RequestEffects, StepEffects
  <2>3. CopiesAgree' /\ ResettersSound'
    BY <2>1, <2>2, CopiesStayRows, ResettersStaySound DEF LifecycleInv
  <2>4. AttemptsCounted' /\ ReadyStays
    BY <1>1, <2>1, AttemptsStayCounted, ReadyJobsStay DEF LifecycleInv
  <2>5. AttemptsInv'
    BY <2>1, RequestKeepsBounds
  <2>6. LifecycleStep
    BY <1>1, <2>1, RequestEffectIsStep DEF LifecycleInv
  <2> QED
    BY <1>2, <2>3, <2>4, <2>5, <2>6 DEF LifecycleInv
<1>5. CASE Failure \/ UNCHANGED vars
  <2>1. job' = job /\ UNCHANGED <<content, created>>
    BY <1>5 DEF Failure, Crash, Redeliver, LoseMessage, vars, db
  <2>2. CopiesAgree' /\ ResettersSound'
    BY <1>5, FailureKeepsCopies DEF LifecycleInv
  <2>3. AttemptsCounted' /\ ReadyStays
    BY <1>1, <2>1, AttemptsStayCounted, ReadyJobsStay DEF LifecycleInv
  <2>4. AttemptsInv'
    BY <1>1, <1>5, FailureKeepsBounds
  <2>5. LifecycleStep
    BY <1>1, <2>1, UnseenStep
  <2> QED
    BY <1>2, <2>2, <2>3, <2>4, <2>5 DEF LifecycleInv
<1> QED
  BY <1>3, <1>4, <1>5 DEF Next

-----------------------------------------------------------------------------
(***************************************************************************)
(* A retry starts over.  The UPDATE of a reset leaves alone what its copy  *)
(* had already: only the dispatch could be another one in the table, and   *)
(* only a request records a dispatch.                                      *)
(***************************************************************************)
\* A step of a worker records no dispatch.
NothingDispatched ==
  \A j \in Jobs : job[j].dispatched = FALSE => job'[j].dispatched = FALSE

\* What a retry does not write, the dispatch of an earlier message, is not
\* there either: nobody recorded it since the retry read the row.
DispatchSeen ==
  \A r \in Requests :
    pc[r] \in {"reset", "lockreset"} /\ obj[r].dispatched = FALSE =>
      job[task[r]].dispatched = FALSE

\* A commit that does not mean to record one records none.
LEMMA SaveDispatchesNothing ==
  ASSUME TypeOK, NEW s \in Sessions, pc[s] # "idle", NEW lk, NEW new, NEW step,
         Save(s, lk, new, step),
         new.dispatched = obj[s].dispatched \/ new.dispatched = FALSE
  PROVE  NothingDispatched
<1>1. task[s] \in Jobs /\ job \in [Jobs -> Row]
  BY BusyHasJob DEF TypeOK, DbOK
<1>2. CASE Accepts(s, new)
  <2> DEFINE row == Flush(job[task[s]], obj[s], new)
  <2>1. job' = [job EXCEPT ![task[s]] = row]
    BY <1>2 DEF Save
  <2>2. job[task[s]].dispatched = FALSE => row.dispatched = FALSE
    BY DEF Flush
  <2> HIDE DEF row
  <2> QED
    BY <1>1, <2>1, <2>2 DEF NothingDispatched
<1>3. CASE ~Accepts(s, new)
  BY <1>3 DEF Save, NothingDispatched
<1> QED
  BY <1>2, <1>3

\* What a worker means to write.
LEMMA WorkerRowsDispatch ==
  ASSUME NEW row \in Row
  PROVE  /\ StartAttempt(row).dispatched = row.dispatched
         /\ RecoverInterruptedJob(row).dispatched = FALSE
         /\ \A target \in JobStatuses : Transition(row, target).dispatched = row.dispatched
         /\ \A code \in FailureCodes : MarkFailed(row, code).dispatched = row.dispatched
BY DEF StartAttempt, RecoverInterruptedJob, MarkFailed, Transition, Row, JobRow, NoRow

\* And so no worker records one.
LEMMA WorkerDispatchesNothing ==
  ASSUME TypeOK, NEW w \in Workers, WorkerStep(w)
  PROVE  NothingDispatched
<1>1. w \in Sessions
  BY DEF Sessions
<1>2. pc[w] # "idle" => task[w] \in Jobs /\ job[task[w]] \in Row /\ obj[w] \in Row
  BY <1>1, BusyHasJob DEF TypeOK, DbOK, SessionOK
<1>3. CASE UNCHANGED job
  BY <1>3 DEF NothingDispatched
<1>4. ASSUME NEW row, NEW step, pc[w] # "idle", LoadedAs(w, row, step),
             row.dispatched = job[task[w]].dispatched \/ row.dispatched = FALSE
      PROVE  NothingDispatched
  <2>1. job' = [job EXCEPT ![task[w]] = row] /\ job \in [Jobs -> Row]
    BY <1>4 DEF LoadedAs, TypeOK, DbOK
  <2> QED
    BY <1>2, <1>4, <2>1 DEF NothingDispatched
<1>5. CASE LoadQueued(w) \/ LoadInterrupted(w)
  <2>1. pc[w] # "idle"
    BY <1>5 DEF LoadQueued, LoadInterrupted
  <2>2. /\ StartAttempt(job[task[w]]).dispatched = job[task[w]].dispatched
        /\ RecoverInterruptedJob(job[task[w]]).dispatched = FALSE
    BY <1>2, <2>1, WorkerRowsDispatch
  <2> QED
    BY <1>4, <1>5, <2>1, <2>2 DEF LoadQueued, LoadInterrupted
<1>6. ASSUME NEW new, NEW step, pc[w] # "idle", Save(w, locks, new, step),
             new.dispatched = obj[w].dispatched
      PROVE  NothingDispatched
  BY <1>1, <1>6, SaveDispatchesNothing
<1>7. CASE Verify(w)
  <2>1. pc[w] # "idle" /\ StartAttempt(obj[w]).dispatched = obj[w].dispatched
    BY <1>2, <1>7, WorkerRowsDispatch DEF Verify
  <2> QED
    BY <1>6, <1>7, <2>1 DEF Verify
<1>8. ASSUME pc[w] # "idle",
             \/ StageFailed(w)
             \/ StageUnavailable(w)
             \/ \E status \in JobStatuses, step \in WorkerSteps : StageDone(w, status, step)
      PROVE  NothingDispatched
  <2>1. \A code \in FailureCodes : MarkFailed(obj[w], code).dispatched = obj[w].dispatched
    BY <1>2, <1>8, WorkerRowsDispatch
  <2>2. \A status \in JobStatuses : Transition(obj[w], status).dispatched = obj[w].dispatched
    BY <1>2, <1>8, WorkerRowsDispatch
  <2>3. /\ "permanent" \in FailureCodes
        /\ "storage_temporarily_unavailable" \in FailureCodes
        /\ "queued" \in JobStatuses
    BY DEF FailureCodes, JobStatuses
  <2>4. CASE StageFailed(w)
    BY <1>6, <1>8, <2>1, <2>3, <2>4 DEF StageFailed
  <2>5. CASE StageUnavailable(w)
    BY <1>6, <1>8, <2>1, <2>2, <2>3, <2>5 DEF StageUnavailable
  <2>6. ASSUME NEW status \in JobStatuses, NEW step \in WorkerSteps,
               StageDone(w, status, step)
        PROVE  NothingDispatched
    BY <1>6, <1>8, <2>2, <2>6 DEF StageDone
  <2> QED
    BY <1>8, <2>4, <2>5, <2>6
<1>9. CASE Inspect(w) \/ Extract(w) \/ ChunkFailed(w) \/ ReplaceCanonicalContent(w)
  <2>1. /\ {"extract", "chunk", "release"} \subseteq WorkerSteps
        /\ {"extracting", "chunking", "ready_for_indexing"} \subseteq JobStatuses
    BY DEF WorkerSteps, JobStatuses, ActiveStatuses, FinalStatuses
  <2>2. pc[w] # "idle"
    BY <1>9 DEF Inspect, Extract, ChunkFailed, ReplaceCanonicalContent
  <2> QED
    BY <1>8, <1>9, <2>1, <2>2 DEF Inspect, Extract, ChunkFailed, ReplaceCanonicalContent
<1>10. CASE \/ \E j \in Jobs, n \in Deliveries : Receive(w, j, n)
            \/ TryLock(w) \/ LoadFinished(w) \/ GetDocument(w)
            \/ RejectCanonicalContent(w) \/ Release(w)
  BY <1>3, <1>10 DEF Receive, TryLock, LoadFinished, GetDocument, RejectCanonicalContent,
     Release, db
<1> QED
  BY <1>5, <1>7, <1>9, <1>10 DEF WorkerStep

\* A retry's reset, if PostgreSQL takes it: all columns are those of a new job.
LEMMA ResetOfSeenRow ==
  ASSUME NEW row \in JobRow, NEW loaded \in JobRow, loaded.status # "queued",
         loaded.attempts > 0, ChecksHold(Flush(row, loaded, ResetJob(loaded))),
         loaded.dispatched = FALSE => row.dispatched = FALSE
  PROVE  Flush(row, loaded, ResetJob(loaded)) = QueuedRow
<1> DEFINE new == ResetJob(loaded)
           left == Flush(row, loaded, new)
<1>1. left.status = "queued" /\ left.attempts = 0 /\ left.failure = "none"
  BY ResetOfAnyRow
<1>2. new.dispatched = FALSE /\ new.completed = FALSE
  BY DEF ResetJob, Transition, JobRow
<1>3. /\ row.dispatched \in BOOLEAN /\ row.completed \in BOOLEAN
      /\ loaded.dispatched \in BOOLEAN /\ loaded.completed \in BOOLEAN
  BY DEF JobRow
<1> HIDE DEF new
<1>4. left.dispatched = FALSE
  BY <1>2, <1>3 DEF Flush
<1>5. left.completed = FALSE
  <2>1. left.completed \in BOOLEAN
    BY <1>2, <1>3 DEF Flush
  <2>2. left.status \notin FinalStatuses
    BY <1>1 DEF FinalStatuses
  <2>3. ChecksHold(left)
    BY DEF new
  <2>4. left.completed # TRUE
    BY <2>2, <2>3 DEF ChecksHold
  <2> HIDE DEF left
  <2> QED
    BY <2>1, <2>4, Zenon
<1>6. left = [status |-> left.status, attempts |-> left.attempts, failure |-> left.failure,
              dispatched |-> left.dispatched, completed |-> left.completed]
  BY DEF Flush
<1>7. QueuedRow = [status |-> "queued", attempts |-> 0, failure |-> "none",
                   dispatched |-> FALSE, completed |-> FALSE]
  <2>1. \A x, y : [[status |-> "absent", attempts |-> 0, failure |-> "none",
                    dispatched |-> x, completed |-> y] EXCEPT !.status = "queued"] =
                  [status |-> "queued", attempts |-> 0, failure |-> "none",
                   dispatched |-> x, completed |-> y]
    OBVIOUS
  <2> QED
    BY <2>1, Zenon DEF QueuedRow, NoRow
<1> HIDE DEF left
<1>8. left = QueuedRow
  BY <1>1, <1>4, <1>5, <1>6, <1>7
<1> QED
  BY <1>8 DEF left, new

\* The threads that take no part in a step stay where they are.
LEMMA WorkerMovesAlone ==
  ASSUME BaseInv, LifecycleInv, MutualExclusion, ResetsAlone,
         NEW w \in Workers, WorkerStep(w), NEW r \in Requests
  PROVE  pc'[r] = pc[r] /\ task'[r] = task[r] /\ obj'[r] = obj[r]
<1>1. OthersKeep(w)
  BY WorkerEffect DEF LifecycleInv, WorkerEffects, Quiet, Writes
<1> QED
  BY <1>1, SessionsAssumption DEF OthersKeep, Sessions

\* With one API thread no dispatch is recorded while that thread resets a job.
LEMMA DispatchStaysSeen ==
  ASSUME BaseInv, LifecycleInv, MutualExclusion, MutualExclusion', ResetsAlone,
         DispatchSeen, \A r, s \in Requests : r = s, [Next]_vars
  PROVE  DispatchSeen'
<1> SUFFICES ASSUME NEW r \in Requests, pc'[r] \in {"reset", "lockreset"},
                    obj'[r].dispatched = FALSE
             PROVE  job'[task'[r]].dispatched = FALSE
  BY DEF DispatchSeen
<1>1. r \in Sessions
  BY DEF Sessions
<1>2. TypeOK /\ DOMAIN pc = Sessions /\ DOMAIN task = Sessions /\ DOMAIN obj = Sessions
      /\ (pc[r] # "idle" => task[r] \in Jobs)
  BY <1>1, BusyHasJob DEF BaseInv, TypeOK, SessionOK
<1>3. CASE \E w \in Workers : WorkerStep(w)
  <2>1. PICK w \in Workers : WorkerStep(w)
    BY <1>3
  <2>2. NothingDispatched
    BY <1>2, <2>1, WorkerDispatchesNothing
  <2>3. pc'[r] = pc[r] /\ task'[r] = task[r] /\ obj'[r] = obj[r]
    BY <2>1, WorkerMovesAlone
  <2> QED
    BY <1>2, <2>2, <2>3 DEF DispatchSeen, NothingDispatched
<1>4. CASE StartCall(r)
  <2>1. PICK j \in Jobs : \/ Upload(r, j) \/ FindForRetry(r, j)
                         \/ Delete(r, j) \/ FindForReprocessing(r, j)
    BY <1>4 DEF StartCall
  <2>2. ~Upload(r, j) /\ ~Delete(r, j) /\ ~FindForReprocessing(r, j)
    BY <1>1, <1>2
       DEF Upload, Delete, FindForReprocessing, Begin, Goto, Call, session
  <2>3. job' = job /\ pc[r] = "idle" /\ pc' # pc
    BY <2>1, <2>2 DEF FindForRetry, Call, db
  <2>4. Begin(r, j, job[j], RetryStep(job[j].status))
    BY <2>1, <2>2, <2>3 DEF FindForRetry, session
  <2>5. task'[r] = j /\ obj'[r] = job[j]
    BY <1>1, <1>2, <2>4 DEF Begin
  <2> QED
    BY <2>3, <2>5
<1>5. CASE RequestStep(r)
  <2>1. ReadsToReset(r)
    BY <1>5, RequestEffect DEF LifecycleInv
  <2>2. pc'[r] \in {"idle", "send", "record", "unlock"}
    BY <1>1, <1>5 DEF RequestStep, Refresh, ResetFailed, LockReset, Unlock, Send, SendFails,
       RecordDispatch, Reprocess, Save, Fail, Raise, Return, Leave, Goto, BaseInv, TypeOK,
       SessionOK
  <2> QED
    BY <2>2
<1>6. CASE Failure \/ UNCHANGED vars
  <2>1. /\ job' = job
        /\ \/ pc'[r] = "idle"
           \/ pc'[r] = pc[r] /\ task'[r] = task[r] /\ obj'[r] = obj[r]
    BY <1>1, <1>6 DEF Failure, Crash, Redeliver, LoseMessage, vars, db, session
  <2> QED
    BY <2>1 DEF DispatchSeen
<1> QED
  BY <1>3, <1>4, <1>5, <1>6 DEF Next

\* A reset that commits leaves the row of a new job.
LEMMA ResetsStartOver ==
  ASSUME BaseInv, LifecycleInv, MutualExclusion, MutualExclusion', ResetsAlone,
         DispatchSeen, \A r, s \in Requests : r = s, [Next]_vars
  PROVE  ResetStartsOver
<1> SUFFICES ASSUME NEW r \in Requests, pc[r] \in {"reset", "lockreset"},
                    pc'[r] \in {"send", "unlock"}
             PROVE  job'[task[r]] = QueuedRow
  BY DEF ResetStartsOver
<1>1. /\ r \in Sessions /\ pc[r] # "idle" /\ r \notin Workers
      /\ task[r] \in Jobs /\ job \in [Jobs -> Row] /\ job[task[r]] \in Row
      /\ obj[r] \in JobRow /\ obj[r].status # "queued" /\ obj[r].attempts > 0
  <2>1. r \in Sessions /\ pc[r] # "idle" /\ r \notin Workers
    BY SessionsAssumption DEF Sessions
  <2>2. task[r] \in Jobs /\ job \in [Jobs -> Row] /\ obj[r] \in Row
    BY <2>1, BusyHasJob DEF BaseInv, TypeOK, DbOK, SessionOK
  <2>3. obj[r].status = "failed" \/ obj[r].status \in ActiveStatuses
    BY <2>1 DEF BaseInv, StageMatchesStatus
  <2>4. obj[r].status # "absent" /\ obj[r].status # "queued"
    BY <2>3 DEF ActiveStatuses
  <2>5. obj[r] \in JobRow
    BY <2>2, <2>4, PresentRow DEF NoRow
  <2>6. obj[r].attempts > 0
    BY DEF LifecycleInv, ResettersSound, Resetting
  <2> QED
    BY <2>1, <2>2, <2>4, <2>5, <2>6
<1>2. ASSUME NEW lk, NEW step, Save(r, lk, ResetJob(obj[r]), step)
      PROVE  job'[task[r]] = QueuedRow
  <2> DEFINE new == ResetJob(obj[r])
             row == Flush(job[task[r]], obj[r], new)
  <2>1. Accepts(r, new)
    <3> SUFFICES ASSUME ~Accepts(r, new)  PROVE FALSE
      OBVIOUS
    <3>1. pc' = [pc EXCEPT ![r] = "idle"]
      BY <1>1, <1>2 DEF Save, Fail, Return, Leave, Goto
    <3> QED
      BY <1>1, <3>1 DEF BaseInv, TypeOK, SessionOK
  <2>2. job[task[r]] # NoRow /\ ChecksHold(row)
    BY <2>1 DEF Accepts
  <2>3. job[task[r]] \in JobRow
    BY <1>1, <2>2, PresentRow
  <2>4. obj[r].dispatched = FALSE => job[task[r]].dispatched = FALSE
    BY DEF DispatchSeen
  <2>5. row = QueuedRow
    BY <1>1, <2>2, <2>3, <2>4, ResetOfSeenRow
  <2>6. job' = [job EXCEPT ![task[r]] = row]
    BY <1>2, <2>1 DEF Save
  <2> HIDE DEF row
  <2> QED
    BY <1>1, <2>5, <2>6
<1>3. CASE \E w \in Workers : WorkerStep(w)
  BY <1>3, WorkerMovesAlone
<1>4. CASE StartCall(r)
  BY <1>1, <1>4 DEF StartCall, Upload, FindForRetry, Delete, FindForReprocessing, Call
<1>5. CASE RequestStep(r)
  <2>1. ResetFailed(r) \/ LockReset(r)
    BY <1>5 DEF RequestStep, Refresh, Unlock, Send, SendFails, RecordDispatch, Reprocess
  <2>2. CASE ResetFailed(r)
    BY <1>2, <2>2 DEF ResetFailed
  <2>3. CASE LockReset(r)
    <3>1. CASE Grantable(r, task[r])
      BY <1>2, <2>3, <3>1 DEF LockReset
    <3>2. CASE ~Grantable(r, task[r])
      <4>1. pc' = [pc EXCEPT ![r] = "idle"]
        BY <2>3, <3>2 DEF LockReset, Return, Leave, Goto
      <4> QED
        BY <1>1, <4>1 DEF BaseInv, TypeOK, SessionOK
    <3> QED
      BY <3>1, <3>2
  <2> QED
    BY <2>1, <2>2, <2>3
<1>6. CASE Failure \/ UNCHANGED vars
  <2>1. pc'[r] = "idle" \/ pc'[r] = pc[r]
    BY <1>1, <1>6 DEF Failure, Crash, Redeliver, LoseMessage, vars, session
  <2> QED
    BY <2>1
<1> QED
  BY <1>3, <1>4, <1>5, <1>6 DEF Next

-----------------------------------------------------------------------------
(***************************************************************************)
(* The theorems.                                                           *)
(***************************************************************************)
\* The invariant holds at the start.
LEMMA InitLifecycle == Init => LifecycleInv /\ AttemptsInv
<1> SUFFICES ASSUME Init PROVE LifecycleInv /\ AttemptsInv
  OBVIOUS
<1>1. CopiesAgree /\ ResettersSound /\ BusyJobsAreCreated
  BY DEF Init, CopiesAgree, ResettersSound, BusyJobsAreCreated, Tracks, Resetting, Sessions
<1>2. \A j \in Jobs : job[j].status = "absent" /\ job[j].attempts = 0
  BY DEF Init, NoRow
<1>3. AttemptsCounted
  BY <1>2 DEF AttemptsCounted, ActiveStatuses, FinalStatuses
<1>4. AttemptsInv
  <2>1. 0 <= MaxProcessingAttempts + faults
    BY LimitsAssumption DEF Init
  <2> QED
    BY <1>2, <2>1 DEF AttemptsInv, AttemptsBounded, AttemptsLeft, MayStart, ActiveStatuses
<1> QED
  BY <1>1, <1>3, <1>4 DEF LifecycleInv

\* What was proved before, as one invariant.
LEMMA BaseHolds == Spec => []BaseInv
<1>1. TypeOK /\ DbInv /\ StageMatchesStatus => BaseInv
  BY DEF BaseInv
<1> QED
  BY <1>1, TypeCorrect, DbStaysSound, StagesMatch, PTL

\* Where the lock excludes and no two requests reset one job at the same time,
\* each step keeps the copies, counts the attempts, leaves ready jobs alone and
\* is a step of JobLifecycle.
THEOREM LifecycleKept ==
  Spec /\ []MutualExclusion /\ []ResetsAlone =>
    /\ [](LifecycleInv /\ AttemptsInv)
    /\ [][LifecycleStep /\ ReadyStays]_vars
<1>1. /\ BaseInv /\ TypeOK' /\ LifecycleInv /\ AttemptsInv
      /\ MutualExclusion /\ MutualExclusion' /\ ResetsAlone /\ [Next]_vars
      => /\ LifecycleInv' /\ AttemptsInv'
         /\ [LifecycleStep /\ ReadyStays]_vars
  BY StepEffect
<1> QED
  BY <1>1, BaseHolds, InitLifecycle, TypeCorrect, PTL DEF Spec

\* Where processes run one thread each, a worker that is at work has in memory
\* what the table has, over all its commits, until the document is deleted: no
\* retry, redelivery or crash changes the job under it
\* (process_ingestion_job with expire_on_commit=False).
THEOREM WorkersSeeRows ==
  ASSUME OneThreadPerProcess
  PROVE  Spec /\ []ResetsAlone => []WriterSeesRow
<1>1. CopiesAgree => WriterSeesRow
  BY DEF CopiesAgree, WriterSeesRow, Working, Tracks, Sessions
<1> QED
  BY <1>1, Exclusion, LifecycleKept, PTL DEF LifecycleInv

\* There, too, a job is attempted MAX_PROCESSING_ATTEMPTS times at most, and
\* once more for each interruption (_handle_transient_failure).
THEOREM AttemptsStayBounded ==
  ASSUME OneThreadPerProcess
  PROVE  Spec /\ []ResetsAlone => []AttemptsBounded
<1>1. AttemptsInv => AttemptsBounded
  BY DEF AttemptsInv
<1> QED
  BY <1>1, Exclusion, LifecycleKept, PTL

\* A ready job is left alone until it is deleted or an operator has it
\* processed again: a retry that read it while it was processed is refused by
\* the CHECK on completed_at (completion_matches_status).
THEOREM ReadyJobsAreFinal ==
  ASSUME OneThreadPerProcess
  PROVE  Spec /\ []ResetsAlone => ReadyIsFinal
<1>1. [LifecycleStep /\ ReadyStays]_vars => [ReadyStays]_vars
  OBVIOUS
<1> QED
  BY <1>1, Exclusion, LifecycleKept, PTL DEF ReadyIsFinal

\* The pipeline, with its threads, locks, connections, messages and failures,
\* implements JobLifecycle: every commit is the move of one job that
\* ALLOWED_TRANSITIONS and the counting of attempts permit, or none.
THEOREM PipelineImplementsLifecycle ==
  ASSUME OneThreadPerProcess
  PROVE  Spec /\ []ResetsAlone => ImplementsLifecycle
<1>1. [LifecycleStep /\ ReadyStays]_vars => [Lifecycle!Next]_(Lifecycle!vars)
  <2>1. UNCHANGED vars => UNCHANGED Lifecycle!vars
    BY DEF vars, db, Lifecycle!vars
  <2> QED
    BY <2>1 DEF LifecycleStep
<1> QED
  BY <1>1, Exclusion, LifecycleKept, InitIsLifecycles, PTL
     DEF Spec, ImplementsLifecycle, Lifecycle!Spec

\* With one API thread no two requests ever reset one job, and nothing is left
\* to assume of the behaviours: this is the deployment the run
\* pipeline_isolated checks, with any number of workers, jobs, retries,
\* crashes and redeliveries.
THEOREM OneApiThread ==
  ASSUME OneThreadPerProcess, \A r, s \in Requests : r = s
  PROVE  Spec => /\ [](WriterSeesRow /\ AttemptsBounded)
                 /\ ReadyIsFinal /\ ImplementsLifecycle
<1>1. ResetsAlone
  BY DEF ResetsAlone
<1> QED
  BY <1>1, WorkersSeeRows, AttemptsStayBounded, ReadyJobsAreFinal,
     PipelineImplementsLifecycle, PTL

\* In that deployment a retry that commits its reset leaves the job as an
\* upload leaves it, dispatched_at included, whatever the workers made of the
\* row since it was read (reset_job_for_retry).  With two API threads the
\* dispatch of an earlier message may stay: the run stale_dispatch.
THEOREM RetryIsANewStart ==
  ASSUME OneThreadPerProcess, \A r, s \in Requests : r = s
  PROVE  Spec => RetriesStartOver
<1>1. ResetsAlone
  BY DEF ResetsAlone
<1>2. Init => DispatchSeen
  BY DEF Init, DispatchSeen, Sessions
<1>3. /\ BaseInv /\ LifecycleInv /\ MutualExclusion /\ MutualExclusion' /\ ResetsAlone
      /\ DispatchSeen /\ [Next]_vars
      => DispatchSeen' /\ [ResetStartsOver]_vars
  BY DispatchStaysSeen, ResetsStartOver
<1> QED
  BY <1>1, <1>2, <1>3, BaseHolds, Exclusion, LifecycleKept, PTL DEF Spec, RetriesStartOver
=============================================================================
