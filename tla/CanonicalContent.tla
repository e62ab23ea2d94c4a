-------------------------- MODULE CanonicalContent --------------------------
(***************************************************************************)
(* The canonical content of documents, statement by statement: workers     *)
(* replace the extraction and the chunks of a document                     *)
(* (_replace_canonical_content of app/services/ingestion_jobs.py) while    *)
(* other workers prepare the same document, documents are deleted, the     *)
(* inspection script reads, and Alembic migrates the schema down and up    *)
(* again (alembic/versions/20260829_0004 and _0005).                       *)
(*                                                                         *)
(* Nothing here relies on the advisory lock: two workers may prepare one   *)
(* document, as they can when it does not exclude (IngestionPipeline).     *)
(* What protects the content is PostgreSQL, at READ COMMITTED: a DELETE    *)
(* removes the rows its snapshot shows, waits for transactions that remove *)
(* them too, and skips rows that are gone then; an INSERT waits for        *)
(* uncommitted rows with its key and is refused by committed ones.         *)
(* A transaction that waits in a cycle, meets an error or dies rolls back. *)
(***************************************************************************)
EXTENDS JobRows, FiniteSets

CONSTANTS
  Docs,
  Workers,
  Inspectors,     \* runs of scripts/inspect_document.py
  Generations,    \* canonical sets that workers build, each once
  Length,         \* the number of chunks of each
  NoDoc, NoGeneration,
  MaxMigrations   \* migrations in a behaviour

ASSUME LengthAssumption == Length \in [Generations -> Nat \ {0}]
ASSUME NothingAssumption == NoDoc \notin Docs /\ NoGeneration \notin Generations

VARIABLES
  revision,    \* the schema revision: 3, 4 or 5
  document,    \* documents: "none" yet, "there", or "gone"
  row,         \* the ingestion_jobs row of each document
  stored,      \* the committed rows of the two content tables
  tx,          \* what each worker has in memory and in its transaction
  view,        \* what each inspector has read
  used,        \* generations built so far
  migrations   \* migrations so far

vars == <<revision, document, row, stored, tx, view, used, migrations>>

-----------------------------------------------------------------------------
(***************************************************************************)
(* Rows.  A content row is its key within the document, the ordinal of a   *)
(* chunk or 0 for the one extraction, and the generation it belongs to.    *)
(***************************************************************************)
Tables == {"chunks", "extraction"}
ContentRow == Nat \X Generations

Rows(t, g) == IF t = "chunks" THEN (0..Length[g] - 1) \X {g} ELSE {<<0, g>>}

Whole(g) == [t \in Tables |-> Rows(t, g)]
Nothing == [t \in Tables |-> {}]

\* A slip: No unique constraint.
NoConflict(R, S) == FALSE

\* The primary key of document_extractions, the unique (document_id, ordinal)
\* of document_chunks.
Conflict(R, S) == \E x \in R, y \in S : x[1] = y[1]

\* The vocabulary of revision 0004, before the stages of a job were recorded.
OldStatuses == {"queued", "processing", "ready", "failed"}

OldRow ==
  [status : OldStatuses, attempts : Nat, failure : FailureCodes \cup {"none"},
   dispatched : BOOLEAN, completed : BOOLEAN]

\* The CHECK constraints of ingestion_jobs at revision 4 and at revision 5.
OldChecksHold(r) ==
  /\ r.status \in OldStatuses
  /\ (r.status = "failed") <=> (r.failure # "none")
  /\ (r.status \in {"ready", "failed"}) <=> (r.completed = TRUE)

Fits(rev, r) ==
  IF rev = 5 THEN r.status \in JobStatuses /\ ChecksHold(r) ELSE OldChecksHold(r)

-----------------------------------------------------------------------------
(***************************************************************************)
(* Workers.                                                                *)
(***************************************************************************)
\* A worker at rest.
Idle ==
  [pc |-> "idle", doc |-> NoDoc, obj |-> NoRow, gen |-> NoGeneration, seen |-> {},
   removed |-> Nothing, added |-> Nothing, updated |-> FALSE]

WorkerState ==
  [pc : {"idle", "chunking", "chunks", "between", "extraction", "flush"},
   doc : Docs \cup {NoDoc}, obj : Row, gen : Generations \cup {NoGeneration},
   seen : SUBSET ContentRow,                   \* rows the running DELETE is to remove
   removed : [Tables -> SUBSET ContentRow],    \* rows deleted and not committed
   added : [Tables -> SUBSET ContentRow],      \* rows inserted and not committed
   updated : BOOLEAN]                          \* the job row is updated and locked

At(w, step) == tx[w].pc = step
Become(w, state) == tx' = [tx EXCEPT ![w] = state]

\* The transactions on the same document.
Rivals(w) == {v \in Workers \ {w} : tx[v].doc = tx[w].doc}

\* No transaction has updated the job row of d and so locked it.
RowFree(d) == \A w \in Workers : tx[w].doc = d => ~tx[w].updated

\* process_ingestion_job up to the chunks: the status of the job follows the
\* stages, and the worker keeps the row in memory.
Prepared(r) ==
  LET start == IF r.status \in ActiveStatuses THEN RecoverInterruptedJob(r) ELSE r
  IN Transition(Transition(StartAttempt(start), "extracting"), "chunking")

Prepare(w, d) ==
  /\ At(w, "idle")
  /\ revision = 5
  /\ document[d] = "there"
  /\ RowFree(d)
  /\ row[d].status \notin FinalStatuses
  /\ row' = [row EXCEPT ![d] = Prepared(row[d])]
  /\ \E g \in Generations \ used :
       /\ used' = used \cup {g}
       /\ Become(w, [Idle EXCEPT !.pc = "chunking", !.doc = d, !.gen = g,
                                 !.obj = Prepared(row[d])])
  /\ UNCHANGED <<revision, document, stored, view, migrations>>

\* The chunks cannot be built.  The failure is written over whatever became
\* of the row since the worker read it.
GiveUp(w) ==
  LET d == tx[w].doc
      new == Flush(row[d], tx[w].obj, MarkFailed(tx[w].obj, "permanent"))
  IN /\ At(w, "chunking")
     /\ revision >= 4
     /\ row[d] # NoRow
     /\ RowFree(d)
     /\ Fits(revision, new)
     /\ row' = [row EXCEPT ![d] = new]
     /\ Become(w, Idle)
     /\ UNCHANGED <<revision, document, stored, view, used, migrations>>

\* A DELETE of the document's rows starts: it takes its snapshot ...
Look(w, from, t) ==
  /\ At(w, from)
  /\ revision = 5
  /\ Become(w, [tx[w] EXCEPT !.pc = t, !.seen = stored[tx[w].doc][t]])
  /\ UNCHANGED <<revision, document, row, stored, view, used, migrations>>

\* ... and removes what no other transaction has removed.
Delete(w, t, next) ==
  /\ At(w, t)
  /\ \A v \in Rivals(w) : tx[v].removed[t] \cap tx[w].seen = {}
  /\ Become(w, [tx[w] EXCEPT !.pc = next, !.seen = {},
                             !.removed[t] = tx[w].seen \cap stored[tx[w].doc][t]])
  /\ UNCHANGED <<revision, document, row, stored, view, used, migrations>>

\* The statements of the flush, in the order the session chooses.  The foreign
\* key refuses rows of a document that is gone.
Insert(w, t) ==
  LET d == tx[w].doc
      rows == Rows(t, tx[w].gen)
  IN /\ At(w, "flush")
     /\ tx[w].added[t] = {}
     /\ document[d] = "there"
     /\ \A v \in Rivals(w) : ~Conflict(rows, tx[v].added[t] \cup tx[v].removed[t])
     /\ ~Conflict(rows, stored[d][t] \ tx[w].removed[t])
     /\ Become(w, [tx[w] EXCEPT !.added[t] = rows])
     /\ UNCHANGED <<revision, document, row, stored, view, used, migrations>>

\* The row as the worker's UPDATE leaves it.
Readied(w) ==
  Flush(row[tx[w].doc], tx[w].obj, Transition(tx[w].obj, "ready_for_indexing"))

UpdateJob(w) ==
  /\ At(w, "flush")
  /\ row[tx[w].doc] # NoRow
  /\ RowFree(tx[w].doc)
  /\ Fits(revision, Readied(w))
  /\ Become(w, [tx[w] EXCEPT !.updated = TRUE])
  /\ UNCHANGED <<revision, document, row, stored, view, used, migrations>>

Commit(w) ==
  LET d == tx[w].doc
  IN /\ At(w, "flush")
     /\ tx[w].updated
     /\ \A t \in Tables : tx[w].added[t] # {}
     /\ stored' = [stored EXCEPT ![d] =
          [t \in Tables |-> (stored[d][t] \ tx[w].removed[t]) \cup tx[w].added[t]]]
     /\ row' = [row EXCEPT ![d] = Readied(w)]
     /\ Become(w, Idle)
     /\ UNCHANGED <<revision, document, view, used, migrations>>

\* A slip: The session goes on with what it had not committed.
RollbackForgetful(w) ==
  /\ ~At(w, "idle")
  /\ Become(w, [tx[w] EXCEPT !.pc = "idle"])
  /\ UNCHANGED <<revision, document, row, stored, view, used, migrations>>

\* An error, a deadlock, or the death of the worker.
Rollback(w) ==
  /\ ~At(w, "idle")
  /\ Become(w, Idle)
  /\ UNCHANGED <<revision, document, row, stored, view, used, migrations>>

WorkerStep(w) ==
  \/ \E d \in Docs : Prepare(w, d)
  \/ GiveUp(w)
  \/ Look(w, "chunking", "chunks") \/ Delete(w, "chunks", "between")
  \/ Look(w, "between", "extraction") \/ Delete(w, "extraction", "flush")
  \/ \E t \in Tables : Insert(w, t)
  \/ UpdateJob(w) \/ Commit(w) \/ Rollback(w)

-----------------------------------------------------------------------------
(***************************************************************************)
(* The API, the inspection script, and the application of revision 4.      *)
(***************************************************************************)
Upload(d) ==
  /\ document[d] = "none"
  /\ document' = [document EXCEPT ![d] = "there"]
  /\ row' = IF revision = 3 THEN row ELSE [row EXCEPT ![d] = QueuedRow]
  /\ UNCHANGED <<revision, stored, tx, view, used, migrations>>

\* A retry, or reprocessing of a ready job.  The content stays.
Reset(d) ==
  /\ revision = 5
  /\ RowFree(d)
  /\ row[d].status \notin {"absent", "queued"}
  /\ row' = [row EXCEPT ![d] = ResetJob(row[d])]
  /\ UNCHANGED <<revision, document, stored, tx, view, used, migrations>>

\* The transactions that have locked rows of d, or d itself by a reference.
Holds(w) == tx[w].updated \/ tx[w].removed # Nothing \/ tx[w].added # Nothing

\* A slip: The content is left to the application.
DeleteRowsOnly(d) ==
  /\ document[d] = "there"
  /\ \A w \in Workers : tx[w].doc = d => ~Holds(w)
  /\ document' = [document EXCEPT ![d] = "gone"]
  /\ row' = [row EXCEPT ![d] = NoRow]
  /\ UNCHANGED <<revision, stored, tx, view, used, migrations>>

\* ON DELETE CASCADE takes the job and the content with the document.
DeleteDocument(d) ==
  /\ document[d] = "there"
  /\ \A w \in Workers : tx[w].doc = d => ~Holds(w)
  /\ document' = [document EXCEPT ![d] = "gone"]
  /\ row' = [row EXCEPT ![d] = NoRow]
  /\ stored' = [stored EXCEPT ![d] = Nothing]
  /\ UNCHANGED <<revision, tx, view, used, migrations>>

Unread == [pc |-> "idle", doc |-> NoDoc, extraction |-> {}, chunks |-> {}]

InspectJob(i, d) ==
  /\ view[i].pc \in {"idle", "shown"}
  /\ revision = 5
  /\ row[d] # NoRow
  /\ view' = [view EXCEPT ![i] = [Unread EXCEPT !.pc = "extraction", !.doc = d]]
  /\ UNCHANGED <<revision, document, row, stored, tx, used, migrations>>

InspectExtraction(i) ==
  /\ view[i].pc = "extraction"
  /\ view' = [view EXCEPT ![i].pc = "chunks",
                          ![i].extraction = stored[view[i].doc]["extraction"]]
  /\ UNCHANGED <<revision, document, row, stored, tx, used, migrations>>

InspectChunks(i) ==
  /\ view[i].pc = "chunks"
  /\ view' = [view EXCEPT ![i].pc = "shown",
                          ![i].chunks = stored[view[i].doc]["chunks"]]
  /\ UNCHANGED <<revision, document, row, stored, tx, used, migrations>>

\* Programs of the previous release write what its constraints allow; this one
\* may only write statuses both know (bound: one attempt).
OldApplication(d) ==
  /\ revision = 4
  /\ row[d] # NoRow
  /\ RowFree(d)
  /\ \E s \in OldStatuses, f \in FailureCodes \cup {"none"}, n \in 0..1, b, c \in BOOLEAN :
       LET new == [status |-> s, attempts |-> n, failure |-> f, dispatched |-> b, completed |-> c]
       IN OldChecksHold(new) /\ row' = [row EXCEPT ![d] = new]
  /\ UNCHANGED <<revision, document, stored, tx, view, used, migrations>>

-----------------------------------------------------------------------------
(***************************************************************************)
(* Migrations.  Each runs in one transaction, whose locks wait for all     *)
(* others to end; a row that does not satisfy a new constraint undoes it.  *)
(***************************************************************************)
Untouched ==
  /\ \A w \in Workers : tx[w].pc \in {"idle", "chunking"}
  /\ \A i \in Inspectors : view[i].pc \in {"idle", "shown"}

Migrate(from, to) ==
  /\ revision = from
  /\ Untouched
  /\ migrations < MaxMigrations
  /\ migrations' = migrations + 1
  /\ revision' = to
  /\ UNCHANGED <<document, tx, view, used>>

\* A slip: Documents of the time before have no job.
CreateEmptyJobs ==
  /\ Migrate(3, 4)
  /\ UNCHANGED <<row, stored>>

\* The backfill queues the documents that are there.
CreateJobs ==
  /\ Migrate(3, 4)
  /\ row' = [d \in Docs |-> IF document[d] = "there" THEN QueuedRow ELSE NoRow]
  /\ UNCHANGED stored

DropJobs ==
  /\ Migrate(4, 3)
  /\ row' = [d \in Docs |-> NoRow]
  /\ UNCHANGED stored

\* A slip: The completion of an old ready job stays.
UpgradedStatus(r) ==
  IF r.status \in {"processing", "ready"} THEN [r EXCEPT !.status = "queued"] ELSE r

\* A slip: An old ready job is taken for a prepared one.
UpgradedInPlace(r) ==
  IF r.status = "ready" THEN [r EXCEPT !.status = "ready_for_indexing"]
  ELSE IF r.status = "processing" THEN QueuedRow ELSE r

\* ready only meant that the file was intact: its job starts again.
Upgraded(r) == IF r.status \in {"processing", "ready"} THEN QueuedRow ELSE r

Downgraded(r) ==
  IF r.status = "ready_for_indexing" THEN [r EXCEPT !.status = "ready"]
  ELSE IF r.status \in ActiveStatuses THEN [r EXCEPT !.status = "processing"]
  ELSE r

Converts(rev, F(_)) == \A d \in Docs : row[d] # NoRow => Fits(rev, F(row[d]))

CreateContent ==
  /\ Migrate(4, 5)
  /\ Converts(5, Upgraded)
  /\ row' = [d \in Docs |-> Upgraded(row[d])]
  /\ UNCHANGED stored

DropContent ==
  /\ Migrate(5, 4)
  /\ Converts(4, Downgraded)
  /\ row' = [d \in Docs |-> Downgraded(row[d])]
  /\ stored' = [d \in Docs |-> Nothing]

-----------------------------------------------------------------------------
Init ==
  /\ revision = 3
  /\ document = [d \in Docs |-> "none"]
  /\ row = [d \in Docs |-> NoRow]
  /\ stored = [d \in Docs |-> Nothing]
  /\ tx = [w \in Workers |-> Idle]
  /\ view = [i \in Inspectors |-> Unread]
  /\ used = {}
  /\ migrations = 0

Next ==
  \/ \E w \in Workers : WorkerStep(w)
  \/ \E d \in Docs : Upload(d) \/ Reset(d) \/ DeleteDocument(d) \/ OldApplication(d)
  \/ \E i \in Inspectors :
       (\E d \in Docs : InspectJob(i, d)) \/ InspectExtraction(i) \/ InspectChunks(i)
  \/ CreateJobs \/ DropJobs \/ CreateContent \/ DropContent

Spec == Init /\ [][Next]_vars

-----------------------------------------------------------------------------
(***************************************************************************)
(* Properties.                                                             *)
(***************************************************************************)
TypeOK ==
  /\ revision \in 3..5
  /\ document \in [Docs -> {"none", "there", "gone"}]
  /\ row \in [Docs -> Row \cup OldRow]
  /\ stored \in [Docs -> [Tables -> SUBSET ContentRow]]
  /\ tx \in [Workers -> WorkerState]
  /\ view \in [Inspectors ->
       [pc : {"idle", "extraction", "chunks", "shown"}, doc : Docs \cup {NoDoc},
        extraction : SUBSET ContentRow, chunks : SUBSET ContentRow]]
  /\ used \in SUBSET Generations
  /\ migrations \in Nat
  \* A worker under way has a document and a generation; an inspector a document.
  /\ \A w \in Workers :
       /\ At(w, "idle") => tx[w] = Idle
       /\ ~At(w, "idle") => tx[w].doc \in Docs /\ tx[w].gen \in used
  /\ \A i \in Inspectors : view[i].pc # "idle" => view[i].doc \in Docs

\* The committed content of a document is one whole generation, its extraction
\* and all its chunks, or nothing, even when two workers replace it at once
\* (_replace_canonical_content; the constraints of document_chunks and
\* document_extractions).
ContentWhole ==
  \A d \in Docs : stored[d] = Nothing \/ \E g \in Generations : stored[d] = Whole(g)

\* A job is ready_for_indexing only while its document has content, also after
\* a downgrade and the upgrade that follows it, and when a worker finishes
\* across them (the UPDATE of revision 0005).
ReadyHasContent ==
  \A d \in Docs :
    revision = 5 /\ row[d].status = "ready_for_indexing" => stored[d] # Nothing

\* Content belongs to a document that is there, in a schema that has its
\* tables: a worker brings nothing back that was deleted or dropped meanwhile
\* (ON DELETE CASCADE and the foreign keys).
ContentHasDocument ==
  \A d \in Docs : stored[d] # Nothing => document[d] = "there" /\ revision = 5

\* As soon as there is a jobs table, every document has its job and no job
\* outlives its document (the backfill of revision 0004).
EveryDocumentHasJob ==
  revision >= 4 => \A d \in Docs : document[d] = "there" <=> row[d] # NoRow

\* Whatever workers and old programs wrote, both migrations of revision 0005
\* leave rows their new constraints accept: neither is ever refused.
MigrationsApply ==
  /\ revision = 4 => Converts(5, Upgraded)
  /\ revision = 5 => Converts(4, Downgraded)

\* When scripts/inspect_document.py shows an extraction and chunks, they are of
\* one generation: "readers never observe a half-old, half-new canonical set"
\* (README.md).
InspectionIsWhole ==
  \A i \in Inspectors :
    view[i].pc = "shown" /\ view[i].extraction # {} /\ view[i].chunks # {} =>
      \E g \in Generations : /\ view[i].extraction = Rows("extraction", g)
                             /\ view[i].chunks = Rows("chunks", g)
=============================================================================
