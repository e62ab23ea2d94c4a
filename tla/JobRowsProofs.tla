--------------------------- MODULE JobRowsProofs ---------------------------
(***************************************************************************)
(* Lemmas about the rows of ingestion_jobs and the changes the service     *)
(* layer makes to them, for the proofs about the modules that use them.    *)
(***************************************************************************)
EXTENDS JobRows, TLAPS

RowShape ==
  [status : JobStatuses \cup {"absent"}, attempts : Nat,
   failure : FailureCodes \cup {"none"}, dispatched : BOOLEAN, completed : BOOLEAN]

\* A row, present or not, has the columns of a row.
LEMMA RowsHaveShape == Row \subseteq RowShape
<1>1. NoRow \in RowShape
  BY DEF NoRow, RowShape
<1>2. JobRow \subseteq RowShape
  BY DEF JobRow, RowShape
<1> QED
  BY <1>1, <1>2 DEF Row

\* A row that is there is a proper row.
LEMMA PresentRow ==
  ASSUME NEW row \in Row, row # NoRow
  PROVE  row \in JobRow
BY DEF Row

\* The row an upload inserts is a proper row.
LEMMA QueuedRowType == QueuedRow \in JobRow
BY DEF QueuedRow, NoRow, JobRow, JobStatuses

\* transition_job yields a proper row.
LEMMA TransitionType ==
  ASSUME NEW row \in Row, NEW target \in JobStatuses
  PROVE  Transition(row, target) \in JobRow
<1>1. row \in RowShape
  BY RowsHaveShape
<1> QED
  BY <1>1 DEF RowShape, JobRow, Transition

\* So does every other change the service layer makes to a job.
LEMMA ChangedRows ==
  ASSUME NEW row \in Row
  PROVE  /\ ResetJob(row) \in JobRow
         /\ RecoverInterruptedJob(row) \in JobRow
         /\ StartAttempt(row) \in JobRow
         /\ \A code \in FailureCodes : MarkFailed(row, code) \in JobRow
<1>1. /\ Transition(row, "queued") \in JobRow
      /\ Transition(row, "verifying") \in JobRow
      /\ Transition(row, "failed") \in JobRow
  BY TransitionType DEF JobStatuses, ActiveStatuses, FinalStatuses
<1>2. ResetJob(row) \in JobRow
  BY <1>1 DEF ResetJob, JobRow
<1>3. RecoverInterruptedJob(row) \in JobRow
  BY <1>1 DEF RecoverInterruptedJob, JobRow
<1>4. StartAttempt(row) \in JobRow
  BY <1>1 DEF StartAttempt, JobRow
<1>5. \A code \in FailureCodes : MarkFailed(row, code) \in JobRow
  BY <1>1 DEF MarkFailed, JobRow
<1> QED
  BY <1>2, <1>3, <1>4, <1>5

\* An UPDATE of a proper row leaves a proper row.
LEMMA FlushedRow ==
  ASSUME NEW row \in JobRow, NEW loaded \in Row, NEW new \in JobRow
  PROVE  Flush(row, loaded, new) \in JobRow
<1>1. loaded \in RowShape
  BY RowsHaveShape
<1> QED
  BY <1>1 DEF Flush, JobRow, RowShape
=============================================================================
