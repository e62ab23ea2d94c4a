------------------------------ MODULE JobRows ------------------------------
(***************************************************************************)
(* Rows of the ingestion_jobs table and the in-memory changes the service  *)
(* layer makes to them (app/models/ingestion_job.py and the pure functions *)
(* of app/services/ingestion_jobs.py).                                     *)
(*                                                                         *)
(* Timestamps are abstracted to whether they are set.  started_at is never *)
(* read by any code and is left out.  A failure code is either one of the  *)
(* codes of a permanent failure, the code of an exhausted temporary        *)
(* failure, or NULL ("none").                                              *)
(***************************************************************************)
EXTENDS Naturals

ActiveStatuses == {"verifying", "extracting", "chunking"}
FinalStatuses == {"ready_for_indexing", "failed"}
JobStatuses == {"queued"} \cup ActiveStatuses \cup FinalStatuses

AllowedTransitions ==
  [queued             |-> {"verifying"},
   verifying          |-> {"queued", "extracting", "failed"},
   extracting         |-> {"queued", "chunking", "failed"},
   chunking           |-> {"queued", "ready_for_indexing", "failed"},
   ready_for_indexing |-> {"queued"},
   failed             |-> {"queued"}]

FailureCodes == {"permanent", "storage_temporarily_unavailable"}

JobRow ==
  [status : JobStatuses, attempts : Nat, failure : FailureCodes \cup {"none"},
   dispatched : BOOLEAN, completed : BOOLEAN]

\* No row: never inserted, or deleted together with its document.
NoRow ==
  [status |-> "absent", attempts |-> 0, failure |-> "none",
   dispatched |-> FALSE, completed |-> FALSE]

Row == JobRow \cup {NoRow}

\* The row an upload inserts.
QueuedRow == [NoRow EXCEPT !.status = "queued"]

\* The CHECK constraints failure_code_matches_status and
\* completion_matches_status.
ChecksHold(row) ==
  /\ (row.status = "failed") <=> (row.failure # "none")
  /\ (row.status \in FinalStatuses) <=> (row.completed = TRUE)

-----------------------------------------------------------------------------
\* transition_job.  That its callers never ask for a transition outside
\* AllowedTransitions is the invariant StageMatchesStatus of
\* IngestionPipeline; the exception it would raise is unreachable.
Transition(row, target) ==
  [row EXCEPT !.status = target,
              !.completed = IF target \in FinalStatuses THEN TRUE ELSE @]

\* A slip: The dispatch of the earlier message is kept.
ResetKeepingDispatch(row) ==
  [Transition(row, "queued") EXCEPT !.attempts = 0, !.failure = "none", !.completed = FALSE]

ResetJob(row) ==
  [Transition(row, "queued") EXCEPT !.attempts = 0, !.failure = "none",
                                    !.dispatched = FALSE, !.completed = FALSE]

\* A slip: An interrupted job keeps its status.
RecoverNothing(row) == row

RecoverInterruptedJob(row) ==
  [Transition(row, "queued") EXCEPT !.failure = "none", !.dispatched = FALSE,
                                    !.completed = FALSE]

\* A slip: The attempt is not counted.
StartUncounted(row) == Transition(row, "verifying")
StartAttempt(row) == [Transition(row, "verifying") EXCEPT !.attempts = @ + 1]

MarkFailed(row, code) == [Transition(row, "failed") EXCEPT !.failure = code]

-----------------------------------------------------------------------------
(***************************************************************************)
(* What an UPDATE leaves in the table.  The session writes the columns     *)
(* whose value differs from the copy it loaded, so columns another session *)
(* changed in the meantime survive unless this one changed them too.       *)
(***************************************************************************)
Flush(row, loaded, new) ==
  LET Column(f) == IF new[f] # loaded[f] THEN new[f] ELSE row[f]
  IN [status |-> Column("status"), attempts |-> Column("attempts"),
      failure |-> Column("failure"), dispatched |-> Column("dispatched"),
      completed |-> Column("completed")]
=============================================================================
