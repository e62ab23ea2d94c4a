---------------------------- MODULE JobLifecycle ----------------------------
(***************************************************************************)
(* What the processing of documents promises, without threads, locks,      *)
(* connections or messages: each job moves along ALLOWED_TRANSITIONS, its  *)
(* attempts are counted, a failure is recorded with its reason, and a job  *)
(* becomes ready in the step that publishes its content.                   *)
(***************************************************************************)
EXTENDS JobRows

CONSTANTS Jobs, MaxProcessingAttempts

VARIABLES
  status,     \* status of each job, "absent" when there is no row
  attempts,   \* attempts started since the job was queued or reset
  failure,    \* reason of a failed job
  published,  \* jobs with a complete canonical content
  inserted    \* jobs ever inserted

vars == <<status, attempts, failure, published, inserted>>

Init ==
  /\ status = [j \in Jobs |-> "absent"]
  /\ attempts = [j \in Jobs |-> 0]
  /\ failure = [j \in Jobs |-> "none"]
  /\ published = {}
  /\ inserted = {}

Moves(j, from, to) ==
  /\ status[j] \in from
  /\ status' = [status EXCEPT ![j] = to]

Insert(j) ==
  /\ j \notin inserted
  /\ inserted' = inserted \cup {j}
  /\ Moves(j, {"absent"}, "queued")
  /\ UNCHANGED <<attempts, failure, published>>

\* An attempt starts only from the queue, and is counted.
Start(j) ==
  /\ Moves(j, {"queued"}, "verifying")
  /\ attempts' = [attempts EXCEPT ![j] = @ + 1]
  /\ UNCHANGED <<failure, published, inserted>>

Advance(j) ==
  /\ \/ Moves(j, {"verifying"}, "extracting")
     \/ Moves(j, {"extracting"}, "chunking")
  /\ UNCHANGED <<attempts, failure, published, inserted>>

\* Only a complete attempt publishes, and publishing makes the job ready.
Publish(j) ==
  /\ Moves(j, {"chunking"}, "ready_for_indexing")
  /\ published' = published \cup {j}
  /\ UNCHANGED <<attempts, failure, inserted>>

\* A job that only met temporary failures is not given up before its last
\* attempt.
GiveUp(j) ==
  /\ Moves(j, ActiveStatuses, "failed")
  /\ \E code \in FailureCodes :
       /\ code = "storage_temporarily_unavailable" =>
            attempts[j] >= MaxProcessingAttempts
       /\ failure' = [failure EXCEPT ![j] = code]
  /\ UNCHANGED <<attempts, published, inserted>>

\* A temporary failure, or the recovery of an attempt that was interrupted,
\* puts the job back without forgetting its attempts.
Requeue(j) ==
  /\ Moves(j, ActiveStatuses, "queued")
  /\ UNCHANGED <<attempts, failure, published, inserted>>

\* The owner retries, or an operator has a prepared job processed again: the
\* content published last stays.  A retry that read an active status may find
\* the job queued again by a temporary failure; it then only resets attempts.
Reset(j) ==
  /\ Moves(j, JobStatuses, "queued")
  /\ attempts' = [attempts EXCEPT ![j] = 0]
  /\ failure' = [failure EXCEPT ![j] = "none"]
  /\ UNCHANGED <<published, inserted>>

Remove(j) ==
  /\ status[j] # "absent"
  /\ status' = [status EXCEPT ![j] = "absent"]
  /\ attempts' = [attempts EXCEPT ![j] = 0]
  /\ failure' = [failure EXCEPT ![j] = "none"]
  /\ published' = published \ {j}
  /\ UNCHANGED inserted

Next ==
  \E j \in Jobs :
    \/ Insert(j) \/ Start(j) \/ Advance(j) \/ Publish(j)
    \/ GiveUp(j) \/ Requeue(j) \/ Reset(j) \/ Remove(j)

Spec == Init /\ [][Next]_vars
=============================================================================
