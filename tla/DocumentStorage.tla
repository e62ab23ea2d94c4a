--------------------------- MODULE DocumentStorage ---------------------------
(***************************************************************************)
(* Documents as rows in PostgreSQL and files on disk.  Requests upload     *)
(* documents, delete them, and delete knowledge bases with all their       *)
(* documents (app/api/documents.py, app/api/knowledge_bases.py,            *)
(* app/services/document_lifecycle.py) through LocalFileStorage            *)
(* (app/storage/local.py).                                                 *)
(*                                                                         *)
(* A document's file is <knowledge base>/<document> below the root, or a   *)
(* file of its own in .trash while a deletion is under way.  Directories   *)
(* are made before files are put into them and removed when a file leaves  *)
(* them empty, by every request on its own.  A step of the model is one    *)
(* system call on the file system, or one database statement or commit.    *)
(***************************************************************************)
EXTENDS Naturals, FiniteSets

CONSTANTS
  Kbs,          \* knowledge bases
  Docs,         \* documents
  KbOf,         \* the knowledge base of each document
  Requests,     \* API threads, all of one process
  NoDoc, NoEntity,
  Trash,        \* the directory .trash
  \* The environment in scope, and bounds on it.
  Calls,        \* subset of {"upload", "delete", "deletekb"}
  Faults,       \* subset of {"io", "cleanup", "refuse", "crash"}
  MaxRequests,  \* calls made in a behaviour
  MaxFaults     \* kinds of fault in a behaviour, each as often as it may happen

ASSUME KbAssumption == KbOf \in [Docs -> Kbs]
ASSUME DistinctAssumption ==
  Kbs \cap Docs = {} /\ NoDoc \notin Docs /\ NoEntity \notin Docs \cup Kbs /\ Trash \notin Kbs

VARIABLES
  kbs,      \* rows of knowledge_bases
  docs,     \* rows of documents
  used,     \* documents an id was drawn for
  file,     \* where the file of each document is, and whether it is complete
  dirs,     \* the directories below the root
  pc,       \* where each request is
  entity,   \* the document or knowledge base a request deletes
  doc,      \* the document whose file a request handles
  todo,     \* documents a deletion has still to stage
  staged,   \* documents a deletion has staged
  requests, \* API calls so far
  faults    \* kinds of fault so far, and "overlap" once two requests were under
            \* way at the same time

db == <<kbs, docs>>
disk == <<file, dirs>>
request == <<pc, entity, doc, todo, staged>>
budget == <<requests, faults>>
vars == <<db, used, disk, request, budget>>

FileStates == {"none", "partial", "stored", "staged"}
UploadSteps == {"mkdir", "create", "write", "insert", "unlink", "prune"}
DeleteSteps == {"list", "trashdir", "stage", "prunestaged", "commit",
                "finalize", "prunetrash", "restoredir", "restore"}
\* The steps at which a request handles one file.
HandlingSteps == UploadSteps \cup {"stage", "prunestaged", "prunetrash", "restore"}

TypeOK ==
  /\ kbs \in SUBSET Kbs
  /\ docs \in SUBSET Docs
  /\ used \in SUBSET Docs
  /\ file \in [Docs -> FileStates]
  /\ dirs \in SUBSET (Kbs \cup {Trash})
  /\ pc \in [Requests -> {"idle"} \cup UploadSteps \cup DeleteSteps]
  /\ entity \in [Requests -> Docs \cup Kbs \cup {NoEntity}]
  /\ doc \in [Requests -> Docs \cup {NoDoc}]
  /\ todo \in [Requests -> SUBSET Docs]
  /\ staged \in [Requests -> SUBSET Docs]
  /\ requests \in Nat
  /\ faults \in SUBSET (Faults \cup {"overlap"})
  \* A request holds something only while it is under way.
  /\ \A r \in Requests :
       /\ pc[r] = "idle" =>
            entity[r] = NoEntity /\ doc[r] = NoDoc /\ todo[r] = {} /\ staged[r] = {}
       /\ pc[r] \in HandlingSteps => doc[r] \in Docs

\* The knowledge bases were created before.
Init ==
  /\ kbs = Kbs
  /\ docs = {}
  /\ used = {}
  /\ file = [d \in Docs |-> "none"]
  /\ dirs = {}
  /\ pc = [r \in Requests |-> "idle"]
  /\ entity = [r \in Requests |-> NoEntity]
  /\ doc = [r \in Requests |-> NoDoc]
  /\ todo = [r \in Requests |-> {}]
  /\ staged = [r \in Requests |-> {}]
  /\ requests = 0
  /\ faults = {}

-----------------------------------------------------------------------------
(***************************************************************************)
(* The file system.                                                        *)
(***************************************************************************)
InDir(dir) ==
  IF dir = Trash THEN {d \in Docs : file[d] = "staged"}
  ELSE {d \in Docs : KbOf[d] = dir /\ file[d] \in {"partial", "stored"}}

MakeDir(dir) == dirs' = dirs \cup {dir} /\ UNCHANGED file

\* rmdir, which fails silently on a directory that is not empty or not there.
RemoveEmptyDir(dir) ==
  /\ dirs' = IF InDir(dir) = {} THEN dirs \ {dir} ELSE dirs
  /\ UNCHANGED file

\* A file is created in, or renamed into, a directory that is there.
PutFile(d, where) == file' = [file EXCEPT ![d] = where] /\ UNCHANGED dirs

Unlink(d) == file' = [file EXCEPT ![d] = "none"] /\ UNCHANGED dirs

-----------------------------------------------------------------------------
(***************************************************************************)
(* Requests.                                                               *)
(***************************************************************************)
Goto(r, step) == pc' = [pc EXCEPT ![r] = step]

At(r, step) == pc[r] = step

\* A slip: The next call finds what this one left.
DoneForgetful(r) == Goto(r, "idle") /\ UNCHANGED <<entity, doc, todo, staged>>

Done(r) ==
  /\ Goto(r, "idle")
  /\ entity' = [entity EXCEPT ![r] = NoEntity]
  /\ doc' = [doc EXCEPT ![r] = NoDoc]
  /\ todo' = [todo EXCEPT ![r] = {}]
  /\ staged' = [staged EXCEPT ![r] = {}]

Step(r, step) == Goto(r, step) /\ UNCHANGED <<entity, doc, todo, staged>>

\* A call starts.
Call(r, kind) ==
  /\ At(r, "idle")
  /\ kind \in Calls
  /\ requests < MaxRequests
  /\ requests' = requests + 1
  /\ faults' = IF \A q \in Requests : pc[q] = "idle" THEN faults
               ELSE faults \cup {"overlap"}

\* A failure of the environment, within the bound.
Fault(kind) ==
  /\ kind \in Faults
  /\ Cardinality((faults \cup {kind}) \ {"overlap"}) <= MaxFaults
  /\ faults' = faults \cup {kind}
  /\ UNCHANGED requests

-----------------------------------------------------------------------------
(***************************************************************************)
(* upload_document and LocalFileStorage.save.                              *)
(***************************************************************************)
Upload(r, d) ==
  /\ Call(r, "upload")
  /\ KbOf[d] \in kbs
  /\ d \notin used
  /\ used' = used \cup {d}
  /\ doc' = [doc EXCEPT ![r] = d]
  /\ Goto(r, "mkdir")
  /\ UNCHANGED <<db, disk, entity, todo, staged>>

MakeKbDir(r) ==
  /\ At(r, "mkdir")
  /\ \/ MakeDir(KbOf[doc[r]]) /\ Step(r, "create") /\ UNCHANGED budget
     \/ Fault("io") /\ Step(r, "unlink") /\ UNCHANGED disk
  /\ UNCHANGED <<db, used>>

\* Another request may have removed the directory again.
Create(r) ==
  /\ At(r, "create")
  /\ \/ /\ KbOf[doc[r]] \in dirs
        /\ PutFile(doc[r], "partial") /\ Step(r, "write")
     \/ KbOf[doc[r]] \notin dirs /\ Step(r, "unlink") /\ UNCHANGED disk
  /\ UNCHANGED <<db, used, budget>>

\* A slip: The upload is cut off at the limit and kept.
WriteTruncated(r) == Step(r, "insert") /\ UNCHANGED disk

WriteAborted(r) == Step(r, "unlink") /\ UNCHANGED disk

\* The upload may turn out to be empty or too large.
Write(r) ==
  /\ At(r, "write")
  /\ \/ PutFile(doc[r], "stored") /\ Step(r, "insert")
     \/ WriteAborted(r)
  /\ UNCHANGED <<db, used, budget>>

WriteFails(r) ==
  /\ At(r, "write")
  /\ Fault("io")
  /\ WriteAborted(r)
  /\ UNCHANGED <<db, used>>

\* A slip: A refused insert leaves the file.
InsertOrLeave(r) ==
  /\ At(r, "insert")
  /\ \/ KbOf[doc[r]] \in kbs /\ docs' = docs \cup {doc[r]} /\ UNCHANGED budget
     \/ KbOf[doc[r]] \notin kbs /\ UNCHANGED <<docs, budget>>
     \/ Fault("refuse") /\ UNCHANGED docs
  /\ Done(r)
  /\ UNCHANGED <<kbs, used, disk>>

\* commit_uploaded_document.  The foreign key refuses a document whose
\* knowledge base is gone.
Insert(r) ==
  /\ At(r, "insert")
  /\ \/ KbOf[doc[r]] \in kbs /\ docs' = docs \cup {doc[r]} /\ Done(r) /\ UNCHANGED budget
     \/ KbOf[doc[r]] \notin kbs /\ Step(r, "unlink") /\ UNCHANGED <<docs, budget>>
     \/ Fault("refuse") /\ Step(r, "unlink") /\ UNCHANGED docs
  /\ UNCHANGED <<kbs, used, disk>>

\* _remove_file after a failed save, delete after a failed commit.
RemoveUploaded(r) ==
  /\ At(r, "unlink")
  /\ \/ Unlink(doc[r]) /\ Step(r, "prune") /\ UNCHANGED budget
     \/ Fault("cleanup") /\ Done(r) /\ UNCHANGED disk
  /\ UNCHANGED <<db, used>>

PruneKbDir(r) ==
  /\ At(r, "prune")
  /\ RemoveEmptyDir(KbOf[doc[r]])
  /\ Done(r)
  /\ UNCHANGED <<db, used, budget>>

UploadStep(r) ==
  \/ MakeKbDir(r) \/ Create(r) \/ Write(r) \/ WriteFails(r) \/ Insert(r)
  \/ RemoveUploaded(r) \/ PruneKbDir(r)

-----------------------------------------------------------------------------
(***************************************************************************)
(* delete_document, delete_knowledge_base and delete_entity_with_files.    *)
(***************************************************************************)
\* From staging on to the next file, or to the commit.
Staging(r, left) == IF left = {} THEN "commit" ELSE "trashdir"

DeleteDocument(r, d) ==
  /\ Call(r, "delete")
  /\ d \in docs
  /\ entity' = [entity EXCEPT ![r] = d]
  /\ todo' = [todo EXCEPT ![r] = {d}]
  /\ Goto(r, "trashdir")
  /\ UNCHANGED <<db, used, disk, doc, staged>>

DeleteKnowledgeBase(r, kb) ==
  /\ Call(r, "deletekb")
  /\ kb \in kbs
  /\ entity' = [entity EXCEPT ![r] = kb]
  /\ Goto(r, "list")
  /\ UNCHANGED <<db, used, disk, doc, todo, staged>>

RowsOf(e) == IF e \in Kbs THEN {d \in docs : KbOf[d] = e} ELSE docs \cap {e}

ListKeys(r) ==
  /\ At(r, "list")
  /\ todo' = [todo EXCEPT ![r] = RowsOf(entity[r])]
  /\ Goto(r, Staging(r, RowsOf(entity[r])))
  /\ UNCHANGED <<db, used, disk, entity, doc, staged, budget>>

\* A slip: What was staged is destroyed whatever became of the row.
FinalizeAnyway(r) ==
  /\ UNCHANGED disk
  /\ IF staged[r] = {} THEN Done(r) ELSE Step(r, "finalize")

\* Staging stops at the first error, and what was staged is restored; so it is
\* when the commit fails.
StagingFails(r) ==
  /\ UNCHANGED disk
  /\ IF staged[r] = {} THEN Done(r) ELSE Step(r, "restoredir")

StageDir(r) ==
  /\ At(r, "trashdir")
  /\ \/ \E d \in todo[r] :
          /\ MakeDir(Trash)
          /\ doc' = [doc EXCEPT ![r] = d]
          /\ Goto(r, "stage")
          /\ UNCHANGED <<entity, todo, staged, budget>>
     \/ Fault("io") /\ StagingFails(r)
  /\ UNCHANGED <<db, used>>

\* The rename fails when another deletion has staged the file, or has just
\* removed the empty .trash.
Stageable(r) == file[doc[r]] = "stored" /\ Trash \in dirs

Stage(r) ==
  /\ At(r, "stage")
  /\ Stageable(r)
  /\ PutFile(doc[r], "staged")
  /\ todo' = [todo EXCEPT ![r] = @ \ {doc[r]}]
  /\ staged' = [staged EXCEPT ![r] = @ \cup {doc[r]}]
  /\ Goto(r, "prunestaged")
  /\ UNCHANGED <<db, used, entity, doc, budget>>

StageMisses(r) ==
  /\ At(r, "stage")
  /\ \/ ~Stageable(r) /\ UNCHANGED budget
     \/ Fault("io")
  /\ StagingFails(r)
  /\ UNCHANGED <<db, used>>

PruneStaged(r) ==
  /\ At(r, "prunestaged")
  /\ RemoveEmptyDir(KbOf[doc[r]])
  /\ Step(r, Staging(r, todo[r]))
  /\ UNCHANGED <<db, used, budget>>

CommitAfter(r) == IF staged[r] = {} THEN Done(r) ELSE Step(r, "finalize")

\* The documents of a knowledge base go with it, by ON DELETE CASCADE, listed
\* or not.
CommitDelete(r) ==
  /\ At(r, "commit")
  /\ docs' = docs \ RowsOf(entity[r])
  /\ kbs' = kbs \ {entity[r]}
  /\ CommitAfter(r)
  /\ UNCHANGED <<used, disk, budget>>

CommitRefused(r) ==
  /\ At(r, "commit")
  /\ Fault("refuse")
  /\ StagingFails(r)
  /\ UNCHANGED <<db, used>>

\* The loops of restore_many and finalize_many go on to the next file, also
\* after an error.
Handled(r, d, step) ==
  IF staged[r] = {d} THEN Done(r)
  ELSE /\ staged' = [staged EXCEPT ![r] = @ \ {d}]
       /\ Goto(r, step)
       /\ UNCHANGED <<entity, doc, todo>>

FinalizeStaged(r) ==
  /\ At(r, "finalize")
  /\ \E d \in staged[r] : Unlink(d) /\ doc' = [doc EXCEPT ![r] = d]
  /\ Goto(r, "prunetrash")
  /\ UNCHANGED <<db, used, entity, todo, staged, budget>>

FinalizeFails(r) ==
  /\ At(r, "finalize")
  /\ Fault("cleanup")
  /\ \E d \in staged[r] : Handled(r, d, "finalize")
  /\ UNCHANGED <<db, used, disk>>

PruneTrash(r) ==
  /\ At(r, "prunetrash")
  /\ RemoveEmptyDir(Trash)
  /\ Handled(r, doc[r], "finalize")
  /\ UNCHANGED <<db, used, budget>>

\* A slip: The directory is taken to be there still.
RestoreInPlace(r) ==
  /\ At(r, "restoredir")
  /\ \E d \in staged[r] : doc' = [doc EXCEPT ![r] = d]
  /\ Goto(r, "restore")
  /\ UNCHANGED <<db, used, disk, entity, todo, staged, budget>>

RestoreDir(r) ==
  /\ At(r, "restoredir")
  /\ \E d \in staged[r] :
       MakeDir(KbOf[d]) /\ doc' = [doc EXCEPT ![r] = d]
  /\ Goto(r, "restore")
  /\ UNCHANGED <<db, used, entity, todo, staged, budget>>

\* Another request may have removed the empty directory again, or the file
\* system refuses: the file stays in .trash.
Restore(r) ==
  /\ At(r, "restore")
  /\ \/ KbOf[doc[r]] \in dirs /\ PutFile(doc[r], "stored") /\ UNCHANGED budget
     \/ KbOf[doc[r]] \notin dirs /\ UNCHANGED <<disk, budget>>
     \/ Fault("cleanup") /\ UNCHANGED disk
  /\ Handled(r, doc[r], "restoredir")
  /\ UNCHANGED <<db, used>>

DeleteStep(r) ==
  \/ ListKeys(r)
  \/ StageDir(r) \/ Stage(r) \/ StageMisses(r) \/ PruneStaged(r)
  \/ CommitDelete(r) \/ CommitRefused(r)
  \/ FinalizeStaged(r) \/ FinalizeFails(r) \/ PruneTrash(r)
  \/ RestoreDir(r) \/ Restore(r)

-----------------------------------------------------------------------------
StartCall(r) ==
  \/ \E d \in Docs : Upload(r, d) \/ DeleteDocument(r, d)
  \/ \E kb \in Kbs : DeleteKnowledgeBase(r, kb)

\* The process dies with its requests; files and committed rows stay.
Crash ==
  /\ Fault("crash")
  /\ pc' = [r \in Requests |-> "idle"]
  /\ entity' = [r \in Requests |-> NoEntity]
  /\ doc' = [r \in Requests |-> NoDoc]
  /\ todo' = [r \in Requests |-> {}]
  /\ staged' = [r \in Requests |-> {}]
  /\ UNCHANGED <<db, used, disk>>

\* The system waits for a call.
Quiescent == \A r \in Requests : pc[r] = "idle"

Next ==
  \/ \E r \in Requests : StartCall(r) \/ UploadStep(r) \/ DeleteStep(r)
  \/ Crash
  \/ Quiescent /\ UNCHANGED vars

Spec == Init /\ [][Next]_vars

-----------------------------------------------------------------------------
(***************************************************************************)
(* Properties.                                                             *)
(***************************************************************************)
\* The complete bytes of a document exist, stored or staged, as long as its
\* row does: a document a user can see can always be recovered (save before
\* commit_uploaded_document; stage, commit, finalize in
\* delete_entity_with_files).
BytesOutliveRows == \A d \in docs : file[d] \in {"stored", "staged"}

\* The file of a document is where its storage key says, unless a deletion
\* under way has staged it.
DocumentsKeepFiles ==
  \A d \in docs : file[d] = "stored" \/ \E r \in Requests : d \in staged[r]

\* As long as requests come one at a time, the process lives and the file
\* system lets a failed deletion put its files back, every document has its file
\* where its storage key says (restore_many).
CarefulDeletionsKeepFiles ==
  faults \cap {"overlap", "crash", "cleanup"} = {} => DocumentsKeepFiles

Attended(d) ==
  \/ d \in docs
  \/ \E r \in Requests : \/ pc[r] \in UploadSteps /\ doc[r] = d
                         \/ d \in staged[r]

\* Every file on disk belongs to a document, or to a request that will see to
\* it (the clean-up in save and commit_uploaded_document, finalize_many).
FilesHaveDocuments == \A d \in Docs : file[d] # "none" => Attended(d)

\* However requests interleave, bytes nothing refers to are left behind only
\* by a crash, by a clean-up the file system refused, or in the directory of a
\* knowledge base that was deleted during the upload.
OrphansHaveCauses ==
  faults \cap {"crash", "cleanup"} = {} =>
    \A d \in Docs : file[d] # "none" => Attended(d) \/ KbOf[d] \notin kbs

Store == INSTANCE DocumentStore WITH
  rows <- docs,
  bytes <- {d \in Docs : file[d] \in {"stored", "staged"}}

\* Uploads and deletions keep the order DocumentStore promises: bytes first,
\* then the row; the row gone, then the bytes.
ImplementsStore == Store!Spec
=============================================================================
