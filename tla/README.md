# TLA+ models of the RAG knowledge platform

The platform stores documents of knowledge bases, prepares them for indexing in
a background worker, and keeps all durable state in PostgreSQL. These modules
model the program's own logic: the ingestion
pipeline, from the API calls that create, retry and delete jobs to the worker
that processes them under a PostgreSQL advisory lock; the storage of documents,
whose rows and files are changed by overlapping requests without a common
transaction; what the worker makes of a file, from the checks of the upload to
its chunks; and the tables that hold the result, under concurrent replacement
and migration. TLC checks each on small instances and TLAPS proves their main
invariants for all of them.

## 1. The system

| Component | State | Operations | Hard behaviour | What makes it correct |
|---|---|---|---|---|
| Processing state machine (`services/ingestion_jobs.py`, `models/ingestion_job.py`) | one `ingestion_jobs` row per document | `transition_job`, resets, recovery, `_mark_failed` | stale copies written back column by column | only allowed transitions; rows satisfy their CHECKs; attempts counted |
| Ingestion worker (`process_ingestion_job`, `workers/tasks.py`) | session, in-memory job, advisory lock | lock, load, four stages, unlock | crash between commits, two deliveries of one job, deletion under the worker | one thread per job; ready means content is there; every dispatched job ends |
| Dispatch and retry (`dispatch_ingestion_job`, `api/documents.py`) | `dispatched_at`, a message | upload, retry, reprocess | commit, send and record are three steps; the retry decides on a status it read earlier | a ready job stays ready; a refused retry changes nothing |
| Message delivery (Dramatiq, Redis) | queue of job ids | enqueue, deliver, retry, dead-letter | at least once, bounded retries, loss | external; its effect on the jobs is checked |
| Database sessions (`db/session.py`) | a pool of connections per process | checkout, commit, rollback, close | locks belong to connections, and connections change hands at commits | the unlock meets the lock |
| Upload and deletion of documents (`api/documents.py`, `services/document_lifecycle.py`) | document row and file | upload, delete | file system and database do not commit together | no row without file after success, files come back after a failed delete |
| File storage (`storage/local.py`) | files, `.trash` | save, inspect, stage, restore, finalize | crashes, half-done batches, directories removed under a writer | no bytes lost, none left over |
| Knowledge bases (`api/knowledge_bases.py`) | rows, cascades | create, update, delete with all files | deletion races uploads | no file outlives its knowledge base |
| Canonical content (`_replace_canonical_content`, `models/document_chunk.py`) | extraction and chunks | replace in one transaction | two replacements at once | never a mixture of two sets |
| Chunking (`processing/chunking.py`) | the loop of the split, the chunk being packed | `build_chunks` | limits with long headings, progress of the split | bounded chunks, nothing lost or out of order, termination |
| Extraction (`processing/extraction.py`) | `current_heading`, `expecting_heading` | Markdown token loop, pages, paragraphs, normalization | empty headings, order of the replacements | provenance of each block, normal form |
| Upload validation, ownership, authentication | users, tokens | requests | none concurrent | checks precede effects |
| Migrations (`alembic/versions`) | schema, old rows | upgrade, downgrade | old statuses meet new CHECKs; workers that go on across a migration | mapped rows are valid; every document has a job; ready still means content |
| Inspection script (`scripts/inspect_document.py`) | what it has read | three queries | commits between them | what it shows belongs together |
| Configuration, logging, health | none | | | |

The API commits a document and its job in one transaction, sends the job's id
to the broker, and records the dispatch. A worker thread receives the id, takes
the advisory lock of the job, and moves the row through `verifying`,
`extracting` and `chunking` to `ready_for_indexing`, committing each stage; the
last commit also replaces the canonical content. API and worker share only the
database (rows and locks), the broker and the directory of files. All concurrency
is that of threads and processes; there are no callbacks.

`PROJECT.json` lists each hazard at its line with the properties that cover it,
or why none does.

## 2. Modules

| Module | What it is |
|---|---|
| `JobRows` | rows of `ingestion_jobs`, the pure functions of `services/ingestion_jobs.py` on them, the CHECK constraints, and `Flush`, what an UPDATE of the changed columns leaves |
| `JobLifecycle` | abstract specification: jobs without threads, locks, connections or messages |
| `IngestionPipeline` | the pipeline: workers, API threads, locks, pools, messages and faults; its properties |
| `IngestionPipelineMC` | instances for TLC |
| `JobRowsProofs` | lemmas about rows, transitions and `Flush` |
| `IngestionPipelineProofs` | type invariant, content of ready jobs, no refused transition: in any deployment, proved |
| `IngestionExclusionProofs` | mutual exclusion in deployments with one thread per process, proved |
| `IngestionLifecycleProofs` | what follows from mutual exclusion: copies, attempts, ready jobs, retries and the refinement of `JobLifecycle`, proved |
| `DocumentStore` | abstract specification: rows and bytes of documents, without directories, staging or failures |
| `DocumentStorage` | uploads and deletions of documents and knowledge bases over PostgreSQL and the file system; its properties |
| `DocumentStorageMC` | instances for TLC |
| `DocumentStorageProofs` | types, safety of the bytes, the refinement of `DocumentStore`, orphans and careful deletions, proved |
| `Selections` | subsequences chosen by positions, as operators |
| `UploadValidation` | names, declared types and signatures of uploads, as operators |
| `BlockSplitting` | `_split_oversized` and `_find_break`, an iteration per step; its properties |
| `BlockSplittingProofs` | soundness and progress of the split, proved |
| `Preparation` | one file from the upload over extraction, normalization and chunking to the last commit, on `BlockSplitting` and `UploadValidation`; its properties |
| `PreparationMC` | the files TLC prepares |
| `PreparationProofs` | types, names of uploads, normalization, and the order, length, completeness and origin of chunks, proved |
| `CanonicalContent` | the content tables: workers that replace, retries, deletions, the inspection script, migrations; its properties |
| `CanonicalContentMC` | instances for TLC |
| `CanonicalContentProofs` | its invariants, proved |

The four state machines meet in the document. `IngestionPipeline` sees it as
a job that appears and disappears, a file whose inspection may succeed or fail and
stages with outcomes; `DocumentStorage` as a row and a file with no regard to its job;
`Preparation` is what happens inside the stages, and decides their outcomes;
`CanonicalContent` is what happens inside the last transaction, which
`IngestionPipeline` takes for atomic. It does without the lock, so that it
covers the deployments in which the lock does not exclude.

### How `IngestionPipeline` corresponds to the code

A step is one statement, or one transaction when all its statements concern one
row that it locks.

| Variable | In the program |
|---|---|
| `job`, `content`, `created` | rows of `ingestion_jobs`; documents with extraction and chunks; ids ever used |
| `pc`, `task`, `retries` | where a thread is in `process_ingestion_job` or in its request, on which job, and the retries option of its message |
| `obj` | the `IngestionJob` in the session of the thread; `expire_on_commit=False` keeps it over commits |
| `conn`, `idle`, `locks` | the connection a session has checked out; the SQLAlchemy pool of each process; how often each PostgreSQL session holds each advisory lock |
| `queue` | messages in Redis, counted by job and retries option |
| `requests`, `faults` | counters that bound a behaviour |

| Action | Code |
|---|---|
| `Receive`, `TryLock` | `prepare_document`, `_try_acquire_job_lock`; a refused lock raises `JobAlreadyProcessing` |
| `LoadFinished`, `LoadQueued`, `LoadInterrupted`, `Verify` | the `FOR UPDATE` read and the commits up to `verifying`; an interrupted job takes two commits, with the lock in the pool between them |
| `GetDocument`, `Inspect`, `Extract`, `ChunkFailed` | the stages; each may succeed, fail for good or, where it reads the file, fail for now (`_handle_transient_failure`) |
| `ReplaceCanonicalContent`, `RejectCanonicalContent` | the last transaction, and its refusal by a constraint |
| `Release` | the `finally` clause, the end of the session and of the actor |
| `Upload`, `Refresh`, `Send`, `SendFails`, `RecordDispatch` | `upload_document` and `dispatch_ingestion_job` |
| `FindForRetry`, `ResetFailed`, `LockReset`, `Unlock` | `retry_ingestion_job`, `reset_job_for_retry` |
| `Delete` | `delete_document`: the document with all rows that cascade |
| `FindForReprocessing`, `Reprocess` | `reset_job_for_reprocessing`, which no route calls |
| `Crash`, `Redeliver`, `LoseMessage` | faults of the environment |

What happens to a lock is the subtle part, so pool and connections are modelled
statement by statement. `Hold` runs a statement and keeps the connection;
`GiveBack` runs one and ends the transaction: the connection goes to the end of
the process's pool, its advisory locks with it, or is closed when the pool is
full. `ConnFor` is the connection the next statement gets: SQLAlchemy's pool
is first in, first out. `Save` is a commit of the job: it fails when the row is
gone (`StaleDataError`) or a CHECK refuses it (`IntegrityError`), after which the
session refuses further statements until it is rolled back, so that the
unlock in the `finally` clause never reaches PostgreSQL.

Abstracted: timestamps to whether they are set (`started_at` is never read and
left out); failure codes to permanent or exhausted; whatever storage, extraction
and chunking decide to a choice among their outcomes; a document exists exactly
as long as its job's row. Not modelled: database outages (a commit whose answer is lost),
`max_overflow` and checkout timeouts of the pool (`Conns` bounds the connections
instead), the delay with which PostgreSQL notices a dead client, the connection
an API session holds for the authentication query at the start of a request,
back-off delays of retries.

### How `DocumentStorage` corresponds to the code

A step is one system call, or one database statement or commit. Reading a
directory for emptiness and removing it is one step, because `rmdir` is.

| Variable | In the program |
|---|---|
| `kbs`, `docs` | rows of `knowledge_bases` and `documents` |
| `used` | documents whose id `uuid4` has drawn |
| `file` | per document: no file, an incomplete one or a complete one at its storage key, or a file in `.trash` |
| `dirs` | directories of knowledge bases, and `.trash` |
| `pc`, `entity`, `doc` | where a request is, what it deletes, which file it is at |
| `todo`, `staged` | storage keys still to stage; the `StagedDeletion`s of the request |

| Action | Code |
|---|---|
| `Upload`, `MakeKbDir`, `Create`, `Write`, `WriteFails` | `upload_document`, `LocalFileStorage.save` |
| `Insert` | `commit_uploaded_document`; the foreign key refuses a document of a deleted knowledge base |
| `RemoveUploaded`, `PruneKbDir` | `_remove_file`, `delete`, `_remove_empty_parents` |
| `DeleteDocument`, `DeleteKnowledgeBase`, `ListKeys` | the routes, and the query for the storage keys |
| `StageDir`, `Stage`, `StageMisses`, `PruneStaged` | `stage_delete`, `stage_many` |
| `CommitDelete`, `CommitRefused` | the commit, with the cascade to the documents of a knowledge base, and its failure |
| `FinalizeStaged`, `FinalizeFails`, `PruneTrash` | `finalize_many` |
| `RestoreDir`, `Restore` | `restore_many` |
| `Crash` | death of the API process: requests are gone, rows and files stay |

Deleting a row that another request deleted meanwhile is no error (SQLAlchemy only
warns), so `CommitDelete` has no guard on it. Faults are `io` (a file system
call of `save` or staging fails), `refuse` (the commit fails), `cleanup` (an
unlink or rename of the clean-up fails) and `crash`. Abstracted: what is in a
file to whether it is complete; the order in which files are staged, restored
and destroyed (any). Not modelled: a commit that succeeded but whose answer is
lost, durability of the file system (the code never calls `fsync`), several API
processes (which would differ only in what a crash takes with it).

`faults` is the set of kinds of faults that have happened, with `overlap` as soon
as two requests were under way at once. Properties that hold only without some
of them name them, so that one run covers all.

### How `Preparation` corresponds to the code

A step is one iteration of a loop of the program, or a whole function that only
maps its argument. A file is what its reader sees of it: the tokens of the
Markdown parser, the text of each page that pypdf returns, the characters of a text.
Characters are of the kinds the code tells apart: a letter, `.` for the end of a sentence,
`"space"`, `"tab"`, `"newline"`, `"return"` (carriage return), `"null"`, `"blank"` for any other white space,
`"mark"` for a combining mark, and `"composed"` for the one character that NFC makes of a letter and its mark.

| Variable | In the program |
|---|---|
| `file`, `type`, `phase`, `result` | the upload and the item whose reading fails; `content_type`; how far the job is, and its final status or failure code |
| `items` | the pages, paragraphs or tokens of the opened file |
| `next`, `heading`, `expecting`, `blocks` | the loop of `_extract_markdown` (or over pages, paragraphs) with `current_heading` and `expecting_heading`; the blocks, before and after normalization |
| `group`, `unit`, `parts`, `current`, `chunks` | the loops of `build_chunks` and `_pack_blocks`: the group with its prefix, the body being split, pieces not yet packed, the candidate, the chunks |
| `text`, `limit`, `start`, `pieces`, `splitting` | the loop of `_split_oversized` (module `BlockSplitting`) |

| Action | Code |
|---|---|
| `Accept` | `validate_upload_metadata`, `sanitize_original_filename`, `validate_pdf_signature` |
| `Open`, `ReadFails` | opening and decoding; each exception becomes its failure code and drops what was extracted |
| `ReadPage`, `ReadParagraph`, `ReadHeadingOpen`, `ReadHeading`, `ReadInline`, `ReadCode`, `SkipToken` | the iterations of the three extractors |
| `NormalizeBlocks` | `normalize_document` with `_normalize_text` |
| `StartGroup`, `Split` (`Cut`, `Finish`), `Collect`, `Pack`, `EndGroup` | `build_chunks`, `_pack_blocks`, `_split_oversized` |
| `SplitAstray` | the same loop with a negative limit |
| `Store` | the last transaction, as far as the CHECK constraints of `document_chunks` decide it |

A piece is an interval of positions of its block, not a text, so that the properties can say
what became of each character. The length of a chunk is computed from the intervals and the
heading, and its text is left out. With a negative limit (a heading of almost
the maximum) Python's slices count from the end, the loop walks backwards until an
index lies before the text, and the `IndexError` becomes `chunking_failed`, or it stands still
for ever; `SplitAstray` has both. `Normalize` is `_normalize_text` with its replacements in the code's order, of which
NFC (`Composed`) is the first. In names NFC is left out: it
makes no separator, control character or dot, and the length is tested after it. Left out as well: what the
parsers do, `_inline_text` (its result is the text of a token), the joined `normalized_text`.

### How `CanonicalContent` corresponds to the code

A step is one SQL statement or commit; everything a worker does before its last
transaction is one step, as it writes only the job. PostgreSQL runs the statements at READ COMMITTED:
a DELETE takes a snapshot (`Look`), waits for others that delete the same rows, and skips those
that are gone (`Delete`); an INSERT waits for uncommitted rows with its key and is
refused by committed ones (`Insert`); an UPDATE waits for the lock of the row (`UpdateJob`). A
transaction that cannot go on, by an error, a deadlock or death, is rolled back (`Rollback`).

| Variable | In the program |
|---|---|
| `revision`, `migrations` | the Alembic revision, 0003 to 0005, and a bound |
| `document`, `row`, `stored` | whether the document is there; its job, in the columns of the revision; committed rows of `document_chunks` and `document_extractions` by key and generation |
| `tx` | per worker: the job in memory, the rows its transaction has deleted and inserted, and whether it has updated the job |
| `view` | what the inspection script has read |
| `used` | generations: a set of content is built once |

A migration runs in one transaction, and its `ALTER TABLE` and `DROP TABLE` wait for the transactions that use
the tables; a worker between two transactions does not hold it up and goes on after it,
with a job read under another revision. `Upgraded` and `Downgraded` are the
UPDATEs of revision 0005, applied only if all rows satisfy the new
constraints (`Converts`). The application of revision 0004 is not in this repository: at that
revision jobs become anything its constraints allow (`OldApplication`).
Abstracted: the text of the rows; attempts of old rows to 0 and 1; indexes and column
types; uploads without checks.

## 3. Runs

All instances of `IngestionPipeline` have one job and two worker threads; locks, rows and messages of
different jobs do not interact except through the pool, where a second job
would add threads that keep connections busy, as the second worker already does.
`isolated`, `storage` and `content` identify states that differ in
the names of workers, connections, requests, documents or generations. `MaxRequests` bounds API
calls, `MaxFaults` faults and `MaxMigrations` migrations in a behaviour; they only cut
behaviours short. `PoolSize` is 1 in place of SQLAlchemy's 5.

| Run | Bounds | Shows |
|---|---|---|
| `isolated` | one thread per process, one API thread, 3 calls of 4 kinds, 2 faults of 5 kinds, 2 attempts, 1 retry | all safety properties, that a retry starts a job over, and that `JobLifecycle` is implemented. Three calls give upload, retry and deletion or reprocessing in one behaviour; two faults a crash during the recovery of a job that was delivered twice |
| `liveness` | attempts 4 and retries 3 as in the code, upload and delete, 1 crash or refused send | a job whose message is in flight becomes ready, failed or deleted, while it has one message (no retry, no second delivery) and PostgreSQL refuses no content; a queued job without a message has no dispatch recorded, after every crash and refused send |
| `storage` | 3 requests, 3 documents in one knowledge base, 6 calls, 3 kinds of faults | no bytes a row needs are destroyed, whatever overlaps and fails; files are stranded or left over for named causes only |
| `preparation` | about 12,300 files; chunks of at most 10 characters, target 9, overlap 2, headings of at most 2 | everything said of uploads, normalized text and chunks, and that documents whose headings fit end |
| `content` | 2 workers, 1 document, 1 inspector, 3 generations of 1 and 2 chunks, 4 migrations | content is whole or absent, ready means there, migrations apply |

One knowledge base suffices for `DocumentStorage`, since requests of different ones
meet only in `.trash`, where those of one meet too; three requests are one more than
any of the races found needs.

The files of `preparation` (`PreparationMC`) are made so that each case happens: all texts of up to seven characters
as the only, overlong paragraph of a section; headings of all lengths up to where no
room, or less than none, is left for a body; all documents of three elements, among them headings without
text and with white space only; all combinations of three paragraphs that are just packed together or just
not; all plain texts of up to five characters, and of up to four with marks, nulls and tabs; pages with nulls,
marks and blank lines; names, types and
signatures of uploads; and each way reading can fail. A chunk of 10 with an overlap of 2 has the cases of
one of 1,800 with 160: a piece shorter than the overlap, a break at the
start of its window, a word longer than a piece. Deadlock is not checked there, because a
file is prepared once.

Two workers and one document suffice for `CanonicalContent`: rows of different
documents have no key or lock in common. Three generations are a committed
set and two that replace it, of different lengths; four migrations go down to where the jobs
are dropped and up again. `torn_inspection` may stop when its
generations are used up and does not check deadlock.

Attempts and retries are reduced to 2 and 1 in the safety runs, keeping their
difference: the last delivery is the last attempt.

Fairness (`FairSpec`): every worker thread that can take a step eventually takes
one, and so does every request under way: threads of live processes are
scheduled, and Dramatiq polls its queue. Nobody has to call the API, and no fault
has to happen. Which outcome a stage has is free, so temporary failures may go
on for ever; it is the counting of attempts that ends the job. In `Preparation` there is
one thread, which takes its next step when there is one (`WF_vars(Next)`).

### Properties

- `MutualExclusion`, `UnlockReachesLock`: the lock excludes, and the unlock is
  executed on the connection that holds it, across all the commits between.
- `WriterSeesRow`: what a worker keeps in memory is what the table has, until the
  document is deleted; `dispatched_at` apart, which only the API writes.
- `RetriesStartOver`: a retry that commits leaves the row of a new job, `dispatched_at` included, from however
  old a copy it wrote.
- `PendingIsObservable`: a queued job that nothing will be sent for says so by its `dispatched_at`, as the README and ADR 0009
  promise. It would fail if a message were sent before the commit of its job (the worker finds no row and drops it), if a
  dispatch were recorded that did not happen, or if retries were used up before attempts.
- `StageMatchesStatus`: no call of `transition_job` can raise
  `InvalidJobTransition`, recovery and stale reads included.
- `ReadyHasContent`: a ready job has its content, and no content outlives its row.
- `AttemptsBounded`: attempts exceed the limit only by interruptions.
- `ReadyIsFinal`: no delivery and no retry under way takes a ready job back.
- `ImplementsLifecycle`: refinement of `JobLifecycle`; the abstract variables are the
  columns of the rows, `content` and `created`. It says that content is
  published only in the step that makes the job ready, that every attempt is
  counted, and that a job that met only temporary failures is not given up early.
- `DispatchedJobFinishes`: liveness, of a job with one message whose content PostgreSQL accepts. Without the
  first, deliveries can exhaust each other (see the end of this section), without the second, finding 6 is in the way.
- `BytesOutliveRows`, `ImplementsStore`: bytes before the row, the row gone before the
  bytes; what a crash leaves can always be repaired.
- `OrphansHaveCauses`: no upload or deletion leaves a file nothing refers to, except by a crash, a
  refused clean-up, or an upload into a knowledge base that is deleted meanwhile. ADR 0008 expects
  the first two; the third is finding 4. `FilesHaveDocuments` is the same without the exceptions.
- `CarefulDeletionsKeepFiles`: a failed deletion is undone, as long as requests do not overlap.
- `NothingLost`, `PiecesFit`, `OverlapBounded`, `SplitAdvances`: the split of a block keeps every
  visible character, keeps to its limit, repeats no more than the overlap, and advances in each
  iteration (with limit 0 it need not: only a heading that fills the whole chunk makes one).
- `ChunksBounded`, `NothingOmitted`, `PartsInOrder`: the same of the chunks: no longer
  than the maximum with their prefix; all blocks are in them, in order, and a block that fits is whole in one.
- `ProvenanceHolds`: the page and heading a chunk names are those of all its text. Documents with an
  empty heading are excepted: there the next paragraph is taken for a heading.
- `BlocksAreNormal`: whatever the replacements bring together, nothing is left that one of them should have removed,
  except that a letter and a mark may be left apart, which is all that a
  second normalization would change.
- `AcceptedIsStorable`: an accepted name is a base name that fits its column, and the accepted type is the one its
  extension stands for, so that an extractor reads it.
- `FittingDocumentsEnd`: liveness of preparation, for documents whose headings fit the column.
- `ContentWhole`: the committed content of a document is one whole set or nothing. It is the
  unique key with the row lock on the job that keep it when two workers replace at once.
- `ReadyHasContent`, `ContentHasDocument` (in `CanonicalContent`): across deletion, reset, downgrade and
  upgrade, also when a worker that read its job before finishes after them.
- `EveryDocumentHasJob`, `MigrationsApply`: the backfill of revision 0004, and the conversions of 0005.

### What the code does not keep

Seven runs expect a violation, each of something the repository's documents or constraints say.

1. `shared_process` (`MutualExclusion`): the README starts the worker with four
   threads in one process and says that advisory locks stop simultaneous
   executions of a job. Worker 1 takes the lock and commits a stage; its connection
   is idle in the pool; worker 2 checks it out for a second message of the same
   job and is granted the lock again, because PostgreSQL grants it to the
   connection.
2. `leaked_lock` (`LocksHaveHolders`): a retry reads `extracting`, the worker
   finishes, the retry gets the lock and commits a reset of columns that no longer
   are what it read. A CHECK refuses it, the session refuses the unlock, and the
   connection returns to the pool with the lock: no other process can work on
   the job until that connection is closed.
3. `concurrent_retries` (`ReadyIsFinal`): two retries read `failed`. The first resets,
   dispatches, and the job becomes ready; the second then commits its reset.
4. `kb_delete_races_upload` (`FilesHaveDocuments`): a knowledge base is deleted; its
   keys are listed, then an upload into it commits, then the cascade takes the new row.
   Its file stays, with no failure anywhere.
5. `restore_race` (`DocumentsKeepFiles`): the deletion of a knowledge base stages one
   file and finds the other one staged by a deletion of that document. It restores the
   first: makes the directory, which the other deletion removes as empty before the
   rename. The document stays with its file in `.trash`.
6. `stuck_preparation` (`PreparationEnds`): a heading that is too long for its column, or normalizes to
   nothing (such as the entity `&nbsp;`), passes extraction and chunking and is refused by a CHECK in the last commit.
   No handler turns that into a failure code, and doing it again does the same: the
   job stays in `chunking` when its message has no retries left. A heading of
   nearly the length of a whole chunk also leaves the body a limit of zero or less, where the
   split stands still or fails with `chunking_failed`.
7. `torn_inspection` (`InspectionIsWhole`): the inspection script reads extraction and chunks in two
   queries; a worker commits between them.

Four more things the code does are outside what the properties say. The models contain them.

- Two API threads: the first message of a job fails before the upload has
  recorded its dispatch, a retry reads the job, then `dispatched_at` is committed. The reset sets the column from NULL to NULL in the
  retry's copy, so that the UPDATE leaves it out; if the broker refuses the new message, the job
  is queued without one while `dispatched_at` says otherwise. `RetriesStartOver` and
  `PendingIsObservable` therefore are checked with one API thread.
- A message delivered twice: each delivery that meets the lock of the other
  uses up a retry without an attempt; three refusals of each, during two attempts that end for now, leave
  the job `queued` with two attempts to go and no message. (Back-off delays are not modelled: the attempts have to
  last as long as those of the other delivery, from one second on.) The owner's retry recovers such a job.
- NFC is applied before null characters are removed (`extraction.py:179`), so that a null between a
  letter and a combining mark leaves them as two characters, where the README calls the text NFC. `BlocksAreNormal` says exactly this much.
- A heading without text leaves `expecting_heading` set (`extraction.py:113`): the next
  paragraph becomes a heading, and the section of what follows.

## 4. Proofs

Assumptions: `SessionsAssumption` (finitely many threads, worker and API threads
distinct, each in a process), `NullAssumption`, `LimitsAssumption` (a pool keeps a connection and
a job is attempted at least once: SQLAlchemy's 5 and `MAX_PROCESSING_ATTEMPTS` 4 in the code). Jobs,
connections, processes, calls, faults and all bounds are arbitrary.

- `TypeCorrect`: `Spec => []TypeOK`. `TypeOK` is inductive as it stands; it includes that
  a thread has a job exactly while it is busy, which is what makes the
  functional updates of `job` and `locks` well typed.
- `ReadyJobsHaveContent`: `Spec => []ReadyHasContent`, with no
  assumption on which threads share a process: it does not need the lock, since the status that claims content
  commits with it. The invariant adds that rows satisfy their CHECK constraints (`RowsAreConsistent`). That is a rule of
  PostgreSQL and no merit of the program; the proof needs it, because a stale copy written back over a ready
  row is stopped by these constraints unless it queues the job.
- `Exclusion`: if each process runs exactly one thread, then
  `Spec => [](MutualExclusion /\ UnlockReachesLock)`. Neither is inductive. The
  invariant `ExclusionInv` follows the connection: a process with one thread
  has at most one open connection (`OneConnection`), no two processes share
  one (`OwnConnection`), closed connections hold nothing (`LocksAreOpen`), a lock is
  held by one connection (`OneHolder`), and the connection of a thread in its
  critical section holds the job's lock (`HolderIsLocked`). `StatementKeepsConnection` shows
  that any statement leaves a process with the connection it ran on; the
  rest is one lemma per kind of statement and a case per action. The hypothesis is
  needed: the run `shared_process` refutes the conclusion without it.

- `StagesMatch`: `Spec => []StageMatchesStatus`, with no assumption on deployments or faults. It is
  inductive with `TypeOK`, thread by thread: it relates a thread's step to the job in its memory, which
  no other thread changes. One lemma per way a thread can move (`ThreadMoves`, `ThreadSaves`,
  `ThreadLeaves`), then a case per action. That the row in the table may have changed meanwhile is
  the business of `WriterSeesRow`.
- `OnlyUploadsCreate`: `Spec => []BusyJobsAreCreated`, in any deployment: a row, a busy thread or a message
  is of a job that was inserted before, so that no upload inserts a job a second time.
- `LifecycleKept`: `Spec /\ []MutualExclusion /\ []ResetsAlone` implies the invariants
  `LifecycleInv` and `AttemptsInv`, and that each step leaves ready jobs alone and is a step of `JobLifecycle`.
  `ResetsAlone` says that no two requests are about to reset the same job. Both hypotheses are needed:
  without the first the run `shared_process`, without the second the run `concurrent_retries` refutes the conclusion.
  The invariant says that the copy of a thread that relies on it is the row, or the row is gone (`CopiesAgree`);
  that a retry, however old what it read, writes columns that a CHECK refuses unless they queue the job
  (`ResettersSound`); that whatever is not queued was attempted (`AttemptsCounted`); and, for the bound, that
  a job which may start another attempt, being queued or interrupted, has one left, or a fault to show for it (`AttemptsLeft`).
  A step of a thread is first summarized (`WorkerEffect`, `RequestEffect`): it is quiet, or
  it writes the row of its own job, and with which outcome. Invariants and refinement are
  then proved from the summaries, with one case per outcome and none per action.
- `WorkersSeeRows`, `AttemptsStayBounded`, `ReadyJobsAreFinal`, `PipelineImplementsLifecycle`: if each process
  runs one thread, `Spec /\ []ResetsAlone` implies `[]WriterSeesRow`, `[]AttemptsBounded`, `ReadyIsFinal` and
  `ImplementsLifecycle`. By `Exclusion` and `LifecycleKept`.
- `RetryIsANewStart`: if each process runs one thread and there is one API thread, `Spec => RetriesStartOver`.
  `DispatchSeen` says, of a retry from its read to its commit, that what the reset will not write is not in the row: a copy without a
  dispatch means a row without one, since only requests record dispatches, and no other request is under way. With
  a second API thread it is not so (end of section 3).
- `OneApiThread`: with one API thread there is nothing to assume of behaviours: `Spec` implies all four. That
  is the deployment of the run `isolated`, with any number of workers, jobs, calls and faults.

For `DocumentStorage` (assumptions `KbAssumption`: each document has a knowledge base, and
`DistinctAssumption`: the values are distinct; everything else is arbitrary):

- `StorageTypes`: `Spec => []TypeOK`.
- `BytesAreSafe`: `Spec => []BytesOutliveRows`, with crashes and all other faults. The
  invariant `StorageInv` adds who may touch which file: ids are never drawn twice
  (`IdsAreUsed`); a document being uploaded belongs to one request, has no row and
  is in no deletion (`UploadsAreNew`), so that cleaning up after an upload destroys
  nobody's bytes; a deletion handles only documents that go with its entity
  (`DeletionsKeepToEntity`), so that after its commit their rows are gone
  (`FinalizedAreGone`) and stay gone. It is proved action by action.
- `StorageImplementsStore`: `Spec => Store!Spec`, from the same invariant: a step on one
  file writes or destroys the bytes of one document (`FileStep`), a commit inserts
  or deletes rows, and all other steps are invisible.
- `OrphansAreExplained`: `Spec => []OrphansHaveCauses`. Two more invariants follow the files: `HandInv`
  (what a request has staged is in `.trash` and in no other request's hands; whose directory is pruned
  has no file; a deletion of one document has nothing else in hand) and, until a crash
  or a refused clean-up, `OrphanInv` (what is staged and not yet to be destroyed still has its row, unless the row went
  with its knowledge base; every file has a row or a request that sees to it, or its knowledge base is gone).
- `CarefulDeletionsAreSafe`: `Spec => []CarefulDeletionsKeepFiles`. As long as requests are one at a time and
  no clean-up is refused, everything in `.trash` is some request's (`StagedAreClaimed`), and a
  restored file finds the directory it was in (`RestoresHaveDirs`), which is what the run `restore_race` takes away.

For `BlockSplitting` (assumption: the overlap is a natural number), for texts of any length and any limit:

- `SplitIsSound`: `SplitSpec => [](NothingLost /\ PiecesFit /\ OverlapBounded)`. The invariant `SplitInv` adds
  that the rest of the text begins with something visible (`AtSolid`: the loop
  has skipped white space) and that the last piece began before the rest and reaches at most the overlap into it
  (`LastBefore`). Lemmas say what `Stripped`, `FindBreak` and `Resume` return (`ResumeIsSound`: only white space is skipped); `PieceAdded` that one more piece keeps all three properties.
- `SplitMakesProgress`: `SplitSpec => SplitAdvances`, from the same invariant: a break lies
  behind the start of its window, and the loop resumes behind the old start.

For `Preparation`, for files, texts, headings and overlaps of any size. `SizesAssumption`: sizes are natural numbers
and the target of a chunk is at most its maximum (1,200 and 1,800 in `chunking.py`). `FilesAssumption`: pages and texts are
texts, tokens are tokens, and after `heading_open` there is an inline token, as CommonMark's ATX and setext
headings have one, with or without text; names may hold anything.

- `PreparationTypes`, `AcceptedUploadsAreStorable`: `Spec => []TypeOK`, `Spec => []AcceptedIsStorable`. `BasenameIsSafe` and
  `SafeNameIsSafe` follow a name through separators, control characters and trimming.
- `BlocksStayNormal`: `Spec => []BlocksAreNormal`. What `_normalize_text` returns is nothing or in normal form
  (`InNormalForm`), which later steps do not break: dropping null characters does not bring back carriage returns, dropping blank lines and
  stripping leave lines trimmed. Composing keeps a text in normal form (`ComposedKeepsForm`), and the other steps
  leave such a text as it is (`NormalFormIsKept`), so that normalizing again only composes.
  Trimming after dropping is what makes this true; the mutant of the property swaps the two.
- `ChunksStayBounded`, `NothingIsOmitted`, `PartsStayInOrder`, `ChunksComeFromWhereTheySay`: `Spec => []ChunksBounded`,
  `[]NothingOmitted`, `[]PartsInOrder`, `[]ProvenanceHolds`.

All seven come from one inductive invariant, `IInv`. None of the last four is inductive: each is about chunks
that are complete, and the invariant has to follow what is on its way there. `ReaderInv` and `ExtractInv` say that the
extractor's state is that of the last item and that a block has its page and heading; `NormalInv` that blocks are
settled once they are normalized; `GroupInv` that between two runs all blocks before are
in chunks; `SplittingInv` that what precedes in the run is in `parts`, whole and in order, and how the loop stands
(`SplitInv` of `BlockSplitting`, or, with a negative limit, that the cursor lies in the text
and nothing has been cut); `PackingInv` that every visible character of the run is in the chunks, in the chunk being
packed or in `parts`, in this order, and that the chunk being packed has room for its prefix. TLC has checked `IInv` on all states
of the run `preparation`. Each action has its lemma (`AcceptKeepsInv` to `StoreKeepsInv`), and `InvHolds` puts them together.
What the proofs need to know of data is had without induction theorems, from the least
counterexample (`MinOfNats`): that the recursive functions behind `Positions` and `BodyLength` exist, and that `Select`
keeps exactly what is chosen, in order (`PositionsAreExact`, `SelectIsExact`).

For `CanonicalContent` (assumptions: every generation has at least one chunk; the values that stand for
none are none), for any workers, documents, inspectors and number of migrations:

- `ContentTypes`: `Spec => []TypeOK`.
- `ContentStaysWhole`: `Spec => []ContentWhole`. The invariant `IInv` adds what each transaction has
  done (`WorkersOK`: in each table it deleted all that is committed or nothing, and inserted its
  generation only where nothing else stays) and that two on one document keep apart (`RivalsOK`: no two
  deleted the same rows, inserted into the same table or updated the job); so a commit replaces all or nothing.
- `ContentBelongs`: `Spec => [](ReadyHasContent /\ ContentHasDocument)`: a transaction that has inserted keeps
  its document from being deleted and the tables from being dropped.
- `MigrationsNeverFail`: `Spec => [](EveryDocumentHasJob /\ MigrationsApply)`: rows satisfy the constraints
  of their revision whoever wrote them (`RowsOK`), and the conversions map these into each other.

Only model-checked: `LocksHaveHolders` and the other properties
that runs refute, and liveness (`DispatchedJobFinishes`, `FittingDocumentsEnd`).
Liveness under fairness and ENABLED are beyond the prover.

## 5. Not modelled, and what could follow

Not modelled: authentication and ownership (a check before each request, libraries' hashing and
tokens, one insert under a unique constraint); creation and update of knowledge bases (single statements on columns nothing
else depends on); revisions 0001 to 0003 (only DDL); routes that read; configuration and logging; the parsers.

Could follow: a commit whose answer is lost, in `DocumentStorage` and `IngestionPipeline`; the composition of
the two where a worker reads a file that a deletion stages and restores.

## 6. Running

    tlc -workers 2 -config pipeline_isolated.cfg IngestionPipelineMC
    tlapm IngestionExclusionProofs.tla

| Configurations | Module |
|---|---|
| `pipeline_isolated`, `pipeline_liveness`, `shared_process`, `leaked_lock`, `concurrent_retries` | `IngestionPipelineMC` |
| `storage`, `kb_delete_races_upload`, `restore_race` | `DocumentStorageMC` |
| `preparation`, `stuck_preparation` | `PreparationMC` |
| `content`, `torn_inspection` | `CanonicalContentMC` |

Distinct states: `isolated` 363,000, `liveness` 6,000, `storage` 977,000, `preparation` 168,000,
`content` 573,000.
