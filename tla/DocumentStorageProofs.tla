------------------------ MODULE DocumentStorageProofs ------------------------
(***************************************************************************)
(* Theorems about DocumentStorage, for every number of requests,           *)
(* knowledge bases, documents, calls and faults.                           *)
(***************************************************************************)
EXTENDS DocumentStorage, TLAPS

-----------------------------------------------------------------------------
(***************************************************************************)
(* Types.                                                                  *)
(***************************************************************************)
\* Nothing is stored at first, and no request is under way.
LEMMA InitType == Init => TypeOK
BY DEF Init, TypeOK, FileStates, HandlingSteps, UploadSteps, DeleteSteps

\* A call starts with nothing in hand but what it is about.
LEMMA CallType ==
  ASSUME TypeOK, NEW r \in Requests, StartCall(r)
  PROVE  TypeOK'
<1>1. ASSUME NEW d \in Docs, Upload(r, d) PROVE TypeOK'
  BY <1>1, SMTT(60) DEF Upload, Call, At, TypeOK, HandlingSteps, UploadSteps, DeleteSteps,
     FileStates, db, disk, budget, request, Goto
<1>2. ASSUME NEW d \in Docs, DeleteDocument(r, d) PROVE TypeOK'
  BY <1>2, SMTT(60) DEF DeleteDocument, Call, At, TypeOK, HandlingSteps, UploadSteps,
     DeleteSteps, FileStates, db, disk, budget, request, Goto
<1>3. ASSUME NEW kb \in Kbs, DeleteKnowledgeBase(r, kb) PROVE TypeOK'
  BY <1>3, SMTT(60) DEF DeleteKnowledgeBase, Call, At, TypeOK, HandlingSteps, UploadSteps,
     DeleteSteps, FileStates, db, disk, budget, request, Goto
<1> QED
  BY <1>1, <1>2, <1>3 DEF StartCall

\* Every step of an upload keeps the types.
LEMMA UploadType ==
  ASSUME TypeOK, NEW r \in Requests, UploadStep(r)
  PROVE  TypeOK'
<1> USE KbAssumption
<1>1. CASE MakeKbDir(r)
  BY <1>1, SMTT(60) DEF MakeKbDir, MakeDir, Step, Goto, Fault, At, TypeOK,
     HandlingSteps, UploadSteps, DeleteSteps, FileStates, db, disk, budget,
     request
<1>2. CASE Create(r)
  BY <1>2, SMTT(60) DEF Create, PutFile, Step, Goto, At, TypeOK,
     HandlingSteps, UploadSteps, DeleteSteps, FileStates, db, disk, budget,
     request
<1>3. CASE Write(r)
  BY <1>3, SMTT(60) DEF Write, PutFile, Step, Goto, WriteAborted, At, TypeOK,
     HandlingSteps, UploadSteps, DeleteSteps, FileStates, db, disk, budget,
     request
<1>4. CASE WriteFails(r)
  BY <1>4, SMTT(60) DEF WriteFails, Step, Goto, WriteAborted, Fault, At,
     TypeOK, HandlingSteps, UploadSteps, DeleteSteps, FileStates, db, disk,
     budget, request
<1>5. CASE Insert(r)
  BY <1>5, SMTT(60) DEF Insert, Step, Goto, Done, Fault, At, TypeOK,
     HandlingSteps, UploadSteps, DeleteSteps, FileStates, db, disk, budget,
     request
<1>6. CASE RemoveUploaded(r)
  BY <1>6, SMTT(60) DEF RemoveUploaded, Unlink, Step, Goto, Done, Fault, At,
     TypeOK, HandlingSteps, UploadSteps, DeleteSteps, FileStates, db, disk,
     budget, request
<1>7. CASE PruneKbDir(r)
  BY <1>7, SMTT(60) DEF PruneKbDir, RemoveEmptyDir, Done, Goto, At, TypeOK,
     HandlingSteps, UploadSteps, DeleteSteps, FileStates, db, disk, budget,
     request
<1> QED
  BY <1>1, <1>2, <1>3, <1>4, <1>5, <1>6, <1>7 DEF UploadStep

\* Every step of a deletion keeps the types.
LEMMA DeleteType ==
  ASSUME TypeOK, NEW r \in Requests, DeleteStep(r)
  PROVE  TypeOK'
<1> USE KbAssumption, DistinctAssumption
<1>1. CASE ListKeys(r)
  BY <1>1, SMTT(60) DEF ListKeys, Goto, Staging, RowsOf, At, TypeOK,
     HandlingSteps, UploadSteps, DeleteSteps, FileStates, db, disk, budget,
     request
<1>2. CASE StageDir(r)
  BY <1>2, SMTT(60) DEF StageDir, MakeDir, Goto, Fault, StagingFails, Done,
     Step, At, TypeOK, HandlingSteps, UploadSteps, DeleteSteps, FileStates,
     db, disk, budget, request
<1>3. CASE Stage(r)
  BY <1>3, SMTT(60) DEF Stage, PutFile, Goto, Stageable, At, TypeOK,
     HandlingSteps, UploadSteps, DeleteSteps, FileStates, db, disk, budget,
     request
<1>4. CASE StageMisses(r)
  BY <1>4, SMTT(60) DEF StageMisses, Fault, StagingFails, Done, Step, Goto,
     At, TypeOK, HandlingSteps, UploadSteps, DeleteSteps, FileStates, db,
     disk, budget, request
<1>5. CASE PruneStaged(r)
  BY <1>5, SMTT(60) DEF PruneStaged, RemoveEmptyDir, Step, Goto, Staging, At,
     TypeOK, HandlingSteps, UploadSteps, DeleteSteps, FileStates, db, disk,
     budget, request
<1>6. CASE CommitDelete(r)
  BY <1>6, SMTT(60) DEF CommitDelete, CommitAfter, Done, Step, Goto, RowsOf,
     At, TypeOK, HandlingSteps, UploadSteps, DeleteSteps, FileStates, db,
     disk, budget, request
<1>7. CASE CommitRefused(r)
  BY <1>7, SMTT(60) DEF CommitRefused, Fault, StagingFails, Done, Step, Goto,
     At, TypeOK, HandlingSteps, UploadSteps, DeleteSteps, FileStates, db,
     disk, budget, request
<1>8. CASE FinalizeStaged(r)
  BY <1>8, SMTT(60) DEF FinalizeStaged, Unlink, Goto, At, TypeOK,
     HandlingSteps, UploadSteps, DeleteSteps, FileStates, db, disk, budget,
     request
<1>9. CASE FinalizeFails(r)
  BY <1>9, SMTT(60) DEF FinalizeFails, Fault, Handled, Done, Goto, At, TypeOK,
     HandlingSteps, UploadSteps, DeleteSteps, FileStates, db, disk, budget,
     request
<1>10. CASE PruneTrash(r)
  BY <1>10, SMTT(60) DEF PruneTrash, RemoveEmptyDir, Handled, Done, Goto, At,
     TypeOK, HandlingSteps, UploadSteps, DeleteSteps, FileStates, db, disk,
     budget, request
<1>11. CASE RestoreDir(r)
  BY <1>11, SMTT(60) DEF RestoreDir, MakeDir, Goto, At, TypeOK, HandlingSteps,
     UploadSteps, DeleteSteps, FileStates, db, disk, budget, request
<1>12. CASE Restore(r)
  BY <1>12, SMTT(60) DEF Restore, PutFile, Fault, Handled, Done, Goto, At,
     TypeOK, HandlingSteps, UploadSteps, DeleteSteps, FileStates, db, disk,
     budget, request
<1> QED
  BY <1>1, <1>2, <1>3, <1>4, <1>5, <1>6, <1>7, <1>8, <1>9, <1>10, <1>11, <1>12 DEF DeleteStep

\* So do a crash and a stuttering step.
LEMMA NextType == TypeOK /\ [Next]_vars => TypeOK'
<1> SUFFICES ASSUME TypeOK, [Next]_vars PROVE TypeOK'
  OBVIOUS
<1>1. ASSUME NEW r \in Requests, StartCall(r) \/ UploadStep(r) \/ DeleteStep(r)
      PROVE  TypeOK'
  BY <1>1, CallType, UploadType, DeleteType
<1>2. CASE Crash
  BY <1>2 DEF Crash, Fault, At, TypeOK, HandlingSteps, UploadSteps, DeleteSteps, FileStates,
     db, disk, budget, request
<1>3. CASE UNCHANGED vars
  BY <1>3 DEF vars, At, TypeOK, HandlingSteps, UploadSteps, DeleteSteps, FileStates, db,
     disk, budget, request
<1> QED
  BY <1>1, <1>2, <1>3 DEF Next

\* Requests, rows and files keep their types, and a request at rest holds
\* nothing.
THEOREM StorageTypes == Spec => []TypeOK
BY InitType, NextType, PTL DEF Spec

-----------------------------------------------------------------------------
(***************************************************************************)
(* The inductive invariant.                                                *)
(***************************************************************************)
InHand(r) == todo[r] \cup staged[r]

\* A document has an id before anything else, and no id is drawn twice.
IdsAreUsed ==
  /\ docs \subseteq used
  /\ \A r \in Requests : InHand(r) \subseteq used

\* A document being uploaded is one request's, has no row yet, and is not
\* being deleted; when its row is due its bytes are complete.
UploadsAreNew ==
  \A r \in Requests : pc[r] \in UploadSteps =>
    /\ doc[r] \in used \ docs
    /\ pc[r] = "insert" => file[doc[r]] = "stored"
    /\ \A s \in Requests :
         /\ pc[s] \in UploadSteps /\ doc[s] = doc[r] => s = r
         /\ doc[r] \notin InHand(s)

\* A deletion handles documents that go with its entity.
DeletionsKeepToEntity ==
  \A r \in Requests :
    /\ pc[r] = "stage" => doc[r] \in todo[r]
    /\ pc[r] = "restore" => doc[r] \in staged[r]
    /\ \A d \in InHand(r) : entity[r] = d \/ entity[r] = KbOf[d]

\* When staged files are destroyed, their rows are gone.
FinalizedAreGone ==
  \A r \in Requests :
    pc[r] \in {"finalize", "prunetrash"} => staged[r] \cap docs = {}

StorageInv ==
  /\ TypeOK
  /\ BytesOutliveRows
  /\ IdsAreUsed
  /\ UploadsAreNew
  /\ DeletionsKeepToEntity
  /\ FinalizedAreGone

\* Nothing is stored at first.
LEMMA InitStorageInv == Init => StorageInv
<1> SUFFICES ASSUME Init PROVE StorageInv
  OBVIOUS
<1>1. TypeOK
  BY InitType
<1> QED
  BY <1>1 DEF Init, StorageInv, BytesOutliveRows, IdsAreUsed, UploadsAreNew,
     DeletionsKeepToEntity, FinalizedAreGone, InHand, UploadSteps

\* Every step of an upload keeps the invariant.
LEMMA UploadInv ==
  ASSUME StorageInv, NEW r \in Requests, UploadStep(r)
  PROVE  StorageInv'
<1> USE KbAssumption, DistinctAssumption, UploadType
<1>1. CASE MakeKbDir(r)
  BY <1>1, SMTT(60) DEF MakeKbDir, MakeDir, Step, Goto, Fault, At, TypeOK,
     HandlingSteps, UploadSteps, DeleteSteps, FileStates, db, disk, budget,
     request, StorageInv, BytesOutliveRows, IdsAreUsed, UploadsAreNew,
     DeletionsKeepToEntity, FinalizedAreGone, InHand
<1>2. CASE Create(r)
  BY <1>2, SMTT(60) DEF Create, PutFile, Step, Goto, At, TypeOK,
     HandlingSteps, UploadSteps, DeleteSteps, FileStates, db, disk, budget,
     request, StorageInv, BytesOutliveRows, IdsAreUsed, UploadsAreNew,
     DeletionsKeepToEntity, FinalizedAreGone, InHand
<1>3. CASE Write(r)
  BY <1>3, SMTT(60) DEF Write, PutFile, Step, Goto, WriteAborted, At, TypeOK,
     HandlingSteps, UploadSteps, DeleteSteps, FileStates, db, disk, budget,
     request, StorageInv, BytesOutliveRows, IdsAreUsed, UploadsAreNew,
     DeletionsKeepToEntity, FinalizedAreGone, InHand
<1>4. CASE WriteFails(r)
  BY <1>4, SMTT(60) DEF WriteFails, Step, Goto, WriteAborted, Fault, At,
     TypeOK, HandlingSteps, UploadSteps, DeleteSteps, FileStates, db, disk,
     budget, request, StorageInv, BytesOutliveRows, IdsAreUsed, UploadsAreNew,
     DeletionsKeepToEntity, FinalizedAreGone, InHand
<1>5. CASE Insert(r)
  BY <1>5, SMTT(60) DEF Insert, Step, Goto, Done, Fault, At, TypeOK,
     HandlingSteps, UploadSteps, DeleteSteps, FileStates, db, disk, budget,
     request, StorageInv, BytesOutliveRows, IdsAreUsed, UploadsAreNew,
     DeletionsKeepToEntity, FinalizedAreGone, InHand
<1>6. CASE RemoveUploaded(r)
  BY <1>6, SMTT(60) DEF RemoveUploaded, Unlink, Step, Goto, Done, Fault, At,
     TypeOK, HandlingSteps, UploadSteps, DeleteSteps, FileStates, db, disk,
     budget, request, StorageInv, BytesOutliveRows, IdsAreUsed, UploadsAreNew,
     DeletionsKeepToEntity, FinalizedAreGone, InHand
<1>7. CASE PruneKbDir(r)
  BY <1>7, SMTT(60) DEF PruneKbDir, RemoveEmptyDir, Done, Goto, At, TypeOK,
     HandlingSteps, UploadSteps, DeleteSteps, FileStates, db, disk, budget,
     request, StorageInv, BytesOutliveRows, IdsAreUsed, UploadsAreNew,
     DeletionsKeepToEntity, FinalizedAreGone, InHand
<1> QED
  BY <1>1, <1>2, <1>3, <1>4, <1>5, <1>6, <1>7 DEF UploadStep

\* Every step of a deletion keeps the invariant.
LEMMA DeleteInv ==
  ASSUME StorageInv, NEW r \in Requests, DeleteStep(r)
  PROVE  StorageInv'
<1> USE KbAssumption, DistinctAssumption, DeleteType
<1>1. CASE ListKeys(r)
  BY <1>1, SMTT(60) DEF ListKeys, Goto, Staging, RowsOf, At, TypeOK,
     HandlingSteps, UploadSteps, DeleteSteps, FileStates, db, disk, budget,
     request, StorageInv, BytesOutliveRows, IdsAreUsed, UploadsAreNew,
     DeletionsKeepToEntity, FinalizedAreGone, InHand
<1>2. CASE StageDir(r)
  BY <1>2, SMTT(60) DEF StageDir, MakeDir, Goto, Fault, StagingFails, Done,
     Step, At, TypeOK, HandlingSteps, UploadSteps, DeleteSteps, FileStates,
     db, disk, budget, request, StorageInv, BytesOutliveRows, IdsAreUsed,
     UploadsAreNew, DeletionsKeepToEntity, FinalizedAreGone, InHand
<1>3. CASE Stage(r)
  BY <1>3, SMTT(60) DEF Stage, PutFile, Goto, Stageable, At, TypeOK,
     HandlingSteps, UploadSteps, DeleteSteps, FileStates, db, disk, budget,
     request, StorageInv, BytesOutliveRows, IdsAreUsed, UploadsAreNew,
     DeletionsKeepToEntity, FinalizedAreGone, InHand
<1>4. CASE StageMisses(r)
  BY <1>4, SMTT(60) DEF StageMisses, Fault, StagingFails, Done, Step, Goto,
     At, TypeOK, HandlingSteps, UploadSteps, DeleteSteps, FileStates, db,
     disk, budget, request, StorageInv, BytesOutliveRows, IdsAreUsed,
     UploadsAreNew, DeletionsKeepToEntity, FinalizedAreGone, InHand
<1>5. CASE PruneStaged(r)
  BY <1>5, SMTT(60) DEF PruneStaged, RemoveEmptyDir, Step, Goto, Staging, At,
     TypeOK, HandlingSteps, UploadSteps, DeleteSteps, FileStates, db, disk,
     budget, request, StorageInv, BytesOutliveRows, IdsAreUsed, UploadsAreNew,
     DeletionsKeepToEntity, FinalizedAreGone, InHand
<1>6. CASE CommitDelete(r)
  BY <1>6, SMTT(60) DEF CommitDelete, CommitAfter, Done, Step, Goto, RowsOf,
     At, TypeOK, HandlingSteps, UploadSteps, DeleteSteps, FileStates, db,
     disk, budget, request, StorageInv, BytesOutliveRows, IdsAreUsed,
     UploadsAreNew, DeletionsKeepToEntity, FinalizedAreGone, InHand
<1>7. CASE CommitRefused(r)
  BY <1>7, SMTT(60) DEF CommitRefused, Fault, StagingFails, Done, Step, Goto,
     At, TypeOK, HandlingSteps, UploadSteps, DeleteSteps, FileStates, db,
     disk, budget, request, StorageInv, BytesOutliveRows, IdsAreUsed,
     UploadsAreNew, DeletionsKeepToEntity, FinalizedAreGone, InHand
<1>8. CASE FinalizeStaged(r)
  BY <1>8, SMTT(60) DEF FinalizeStaged, Unlink, Goto, At, TypeOK,
     HandlingSteps, UploadSteps, DeleteSteps, FileStates, db, disk, budget,
     request, StorageInv, BytesOutliveRows, IdsAreUsed, UploadsAreNew,
     DeletionsKeepToEntity, FinalizedAreGone, InHand
<1>9. CASE FinalizeFails(r)
  BY <1>9, SMTT(60) DEF FinalizeFails, Fault, Handled, Done, Goto, At, TypeOK,
     HandlingSteps, UploadSteps, DeleteSteps, FileStates, db, disk, budget,
     request, StorageInv, BytesOutliveRows, IdsAreUsed, UploadsAreNew,
     DeletionsKeepToEntity, FinalizedAreGone, InHand
<1>10. CASE PruneTrash(r)
  BY <1>10, SMTT(60) DEF PruneTrash, RemoveEmptyDir, Handled, Done, Goto, At,
     TypeOK, HandlingSteps, UploadSteps, DeleteSteps, FileStates, db, disk,
     budget, request, StorageInv, BytesOutliveRows, IdsAreUsed, UploadsAreNew,
     DeletionsKeepToEntity, FinalizedAreGone, InHand
<1>11. CASE RestoreDir(r)
  BY <1>11, SMTT(60) DEF RestoreDir, MakeDir, Goto, At, TypeOK, HandlingSteps,
     UploadSteps, DeleteSteps, FileStates, db, disk, budget, request,
     StorageInv, BytesOutliveRows, IdsAreUsed, UploadsAreNew,
     DeletionsKeepToEntity, FinalizedAreGone, InHand
<1>12. CASE Restore(r)
  BY <1>12, SMTT(60) DEF Restore, PutFile, Fault, Handled, Done, Goto, At,
     TypeOK, HandlingSteps, UploadSteps, DeleteSteps, FileStates, db, disk,
     budget, request, StorageInv, BytesOutliveRows, IdsAreUsed, UploadsAreNew,
     DeletionsKeepToEntity, FinalizedAreGone, InHand
<1> QED
  BY <1>1, <1>2, <1>3, <1>4, <1>5, <1>6, <1>7, <1>8, <1>9, <1>10, <1>11, <1>12 DEF DeleteStep

\* A call starts with a new document, or with documents that have rows.
LEMMA CallInv ==
  ASSUME StorageInv, NEW r \in Requests, StartCall(r)
  PROVE  StorageInv'
<1> USE KbAssumption, DistinctAssumption, CallType
<1>1. ASSUME NEW d \in Docs, Upload(r, d) PROVE StorageInv'
  BY <1>1, SMTT(60) DEF StartCall, Upload, Call, Goto, At, TypeOK, HandlingSteps,
     UploadSteps, DeleteSteps, FileStates, db, disk, budget, request, StorageInv,
     BytesOutliveRows, IdsAreUsed, UploadsAreNew, DeletionsKeepToEntity, FinalizedAreGone,
     InHand
<1>2. ASSUME NEW d \in Docs, DeleteDocument(r, d) PROVE StorageInv'
  BY <1>2, SMTT(60) DEF StartCall, DeleteDocument, Call, Goto, At, TypeOK, HandlingSteps,
     UploadSteps, DeleteSteps, FileStates, db, disk, budget, request, StorageInv,
     BytesOutliveRows, IdsAreUsed, UploadsAreNew, DeletionsKeepToEntity, FinalizedAreGone,
     InHand
<1>3. ASSUME NEW kb \in Kbs, DeleteKnowledgeBase(r, kb) PROVE StorageInv'
  BY <1>3, SMTT(60) DEF StartCall, DeleteKnowledgeBase, Call, Goto, At, TypeOK,
     HandlingSteps, UploadSteps, DeleteSteps, FileStates, db, disk, budget, request,
     StorageInv, BytesOutliveRows, IdsAreUsed, UploadsAreNew, DeletionsKeepToEntity,
     FinalizedAreGone, InHand
<1> QED
  BY <1>1, <1>2, <1>3 DEF StartCall

\* After a crash no request is under way, and rows and files are what they
\* were.
LEMMA NextStorageInv == StorageInv /\ [Next]_vars => StorageInv'
<1> SUFFICES ASSUME StorageInv, [Next]_vars PROVE StorageInv'
  OBVIOUS
<1>1. ASSUME NEW r \in Requests, StartCall(r) \/ UploadStep(r) \/ DeleteStep(r)
      PROVE  StorageInv'
  BY <1>1, CallInv, UploadInv, DeleteInv
<1>2. TypeOK'
  BY NextType DEF StorageInv
<1>3. CASE Crash
  BY <1>2, <1>3 DEF Crash, Fault, At, TypeOK, HandlingSteps, UploadSteps, DeleteSteps,
     FileStates, db, disk, budget, request, StorageInv, BytesOutliveRows, IdsAreUsed,
     UploadsAreNew, DeletionsKeepToEntity, FinalizedAreGone, InHand
<1>4. CASE UNCHANGED vars
  BY <1>4 DEF vars, At, TypeOK, HandlingSteps, UploadSteps, DeleteSteps, FileStates, db,
     disk, budget, request, StorageInv, BytesOutliveRows, IdsAreUsed, UploadsAreNew,
     DeletionsKeepToEntity, FinalizedAreGone, InHand
<1> QED
  BY <1>1, <1>3, <1>4 DEF Next

\* The invariant holds in every behaviour.
LEMMA StorageInvariant == Spec => []StorageInv
BY InitStorageInv, NextStorageInv, PTL DEF Spec

\* Whatever requests overlap and wherever the process dies, the bytes of a
\* document exist as long as its row.
THEOREM BytesAreSafe == Spec => []BytesOutliveRows
<1>1. StorageInv => BytesOutliveRows
  BY DEF StorageInv
<1> QED
  BY <1>1, StorageInvariant, PTL

-----------------------------------------------------------------------------
(***************************************************************************)
(* DocumentStorage implements DocumentStore.                               *)
(***************************************************************************)
\* The documents whose bytes are complete: the bytes of DocumentStore.
Complete == {d \in Docs : file[d] \in {"stored", "staged"}}

\* A step on one file, seen from DocumentStore: the bytes are written, are
\* destroyed, or nothing happens.
LEMMA FileStep ==
  ASSUME TypeOK, NEW d \in Docs, NEW where \in FileStates,
         file' = [file EXCEPT ![d] = where], UNCHANGED docs,
         where \in {"none", "partial"} => d \notin docs
  PROVE  [Store!Next]_Store!vars
<1>1. CASE where \in {"stored", "staged"} /\ d \notin Complete
  <2>1. Store!Write(d)
    BY <1>1 DEF Store!Write, Complete, TypeOK
  <2> QED
    BY <2>1 DEF Store!Next
<1>2. CASE where \in {"none", "partial"}
  <2>1. Store!Destroy(d)
    BY <1>2 DEF Store!Destroy, Complete, TypeOK
  <2> QED
    BY <2>1 DEF Store!Next
<1>3. CASE where \in {"stored", "staged"} /\ d \in Complete
  BY <1>3 DEF Store!vars, Complete, TypeOK
<1> QED
  BY <1>1, <1>2, <1>3 DEF FileStates

\* A step that touches neither rows nor files is invisible.
LEMMA InvisibleStep ==
  ASSUME UNCHANGED <<docs, file>>
  PROVE  [Store!Next]_Store!vars
BY DEF Store!vars

\* A step that deletes rows is a deletion.
LEMMA RowsDeleted ==
  ASSUME NEW D \in SUBSET Docs, docs' = docs \ D, UNCHANGED file
  PROVE  [Store!Next]_Store!vars
<1>1. Store!Delete(D)
  BY DEF Store!Delete
<1> QED
  BY <1>1 DEF Store!Next

\* Each step of an upload is one of DocumentStore's, or none.
LEMMA UploadRefines ==
  ASSUME StorageInv, NEW r \in Requests, UploadStep(r)
  PROVE  [Store!Next]_Store!vars
<1> USE DEF db, disk
<1>1. CASE MakeKbDir(r)
  BY <1>1, InvisibleStep DEF MakeKbDir, MakeDir
<1>2. CASE Create(r)
  <2>1. doc[r] \in Docs /\ doc[r] \notin docs
    BY <1>2 DEF Create, At, StorageInv, TypeOK, HandlingSteps, UploadsAreNew, UploadSteps
  <2> QED
    BY <1>2, <2>1, FileStep, InvisibleStep DEF Create, PutFile, FileStates, StorageInv
<1>3. CASE Write(r)
  <2>1. doc[r] \in Docs
    BY <1>3 DEF Write, At, StorageInv, TypeOK, HandlingSteps, UploadSteps
  <2> QED
    BY <1>3, <2>1, FileStep, InvisibleStep DEF Write, WriteAborted, PutFile, FileStates,
       StorageInv
<1>4. CASE WriteFails(r)
  BY <1>4, InvisibleStep DEF WriteFails, WriteAborted
<1>5. CASE Insert(r)
  <2>1. doc[r] \in Complete
    BY <1>5 DEF Insert, At, Complete, StorageInv, TypeOK, HandlingSteps,
       UploadsAreNew, UploadSteps
  <2>2. CASE docs' = docs \cup {doc[r]}
    <3>1. Store!Insert(doc[r])
      BY <1>5, <2>1, <2>2 DEF Insert, Store!Insert, Complete
    <3> QED
      BY <2>1, <3>1 DEF Store!Next, Complete
  <2> QED
    BY <1>5, <2>2, InvisibleStep DEF Insert
<1>6. CASE RemoveUploaded(r)
  <2>1. doc[r] \in Docs /\ doc[r] \notin docs
    BY <1>6 DEF RemoveUploaded, At, StorageInv, TypeOK, HandlingSteps, UploadsAreNew,
       UploadSteps
  <2> QED
    BY <1>6, <2>1, FileStep, InvisibleStep DEF RemoveUploaded, Unlink, FileStates, StorageInv
<1>7. CASE PruneKbDir(r)
  BY <1>7, InvisibleStep DEF PruneKbDir, RemoveEmptyDir
<1> QED
  BY <1>1, <1>2, <1>3, <1>4, <1>5, <1>6, <1>7 DEF UploadStep

\* So is each step of a deletion: the rows go first, because what is
\* destroyed has none left.
LEMMA DeleteRefines ==
  ASSUME StorageInv, NEW r \in Requests, DeleteStep(r)
  PROVE  [Store!Next]_Store!vars
<1> USE DEF db, disk
<1>1. CASE ListKeys(r) \/ StageDir(r) \/ StageMisses(r) \/ PruneStaged(r)
  BY <1>1, InvisibleStep DEF ListKeys, StageDir, MakeDir, StageMisses,
     StagingFails, PruneStaged, RemoveEmptyDir
<1>2. CASE CommitRefused(r) \/ FinalizeFails(r) \/ PruneTrash(r) \/ RestoreDir(r)
  BY <1>2, InvisibleStep DEF CommitRefused, StagingFails, FinalizeFails,
     PruneTrash, RemoveEmptyDir, RestoreDir, MakeDir
<1>3. CASE Stage(r)
  <2>1. doc[r] \in Docs
    BY <1>3 DEF Stage, At, StorageInv, TypeOK, HandlingSteps
  <2> QED
    BY <1>3, <2>1, FileStep DEF Stage, PutFile, FileStates, StorageInv
<1>4. CASE CommitDelete(r)
  <2>1. RowsOf(entity[r]) \in SUBSET Docs
    BY DEF RowsOf, StorageInv, TypeOK
  <2> QED
    BY <1>4, <2>1, RowsDeleted DEF CommitDelete
<1>5. CASE FinalizeStaged(r)
  <2>1. PICK d \in staged[r] : Unlink(d)
    BY <1>5 DEF FinalizeStaged
  <2>2. d \in Docs /\ d \notin docs
    BY <1>5 DEF FinalizeStaged, At, StorageInv, TypeOK, FinalizedAreGone
  <2> QED
    BY <1>5, <2>1, <2>2, FileStep DEF FinalizeStaged, Unlink, FileStates, StorageInv
<1>6. CASE Restore(r)
  <2>1. doc[r] \in Docs
    BY <1>6 DEF Restore, At, StorageInv, TypeOK, HandlingSteps
  <2> QED
    BY <1>6, <2>1, FileStep, InvisibleStep DEF Restore, PutFile, FileStates, StorageInv
<1> QED
  BY <1>1, <1>2, <1>3, <1>4, <1>5, <1>6 DEF DeleteStep

\* A call, a crash and a stuttering step change neither rows nor files.
LEMMA NextRefines == StorageInv /\ [Next]_vars => [Store!Next]_Store!vars
<1> SUFFICES ASSUME StorageInv, [Next]_vars PROVE [Store!Next]_Store!vars
  OBVIOUS
<1>1. ASSUME NEW r \in Requests, StartCall(r) PROVE [Store!Next]_Store!vars
  BY <1>1, InvisibleStep DEF StartCall, Upload, DeleteDocument, DeleteKnowledgeBase, db, disk
<1>2. ASSUME NEW r \in Requests, UploadStep(r) \/ DeleteStep(r)
      PROVE  [Store!Next]_Store!vars
  BY <1>2, UploadRefines, DeleteRefines
<1>3. CASE Crash \/ UNCHANGED vars
  BY <1>3, InvisibleStep DEF Crash, vars, db, disk
<1> QED
  BY <1>1, <1>2, <1>3 DEF Next

\* Uploads and deletions, however they overlap, fail or are cut off, keep the
\* order of DocumentStore: complete bytes before the row, the row gone before
\* the bytes.
THEOREM StorageImplementsStore == Spec => ImplementsStore
<1>1. Init => Store!Init
  BY DEF Init, Store!Init
<1> QED
  BY <1>1, NextRefines, StorageInvariant, PTL DEF Spec, ImplementsStore, Store!Spec
-----------------------------------------------------------------------------
(***************************************************************************)
(* What becomes of files.  A second invariant, for what the files on disk  *)
(* belong to.                                                              *)
(***************************************************************************)
\* What a request has staged is in .trash, and in nobody else's hands, until
\* the request destroys or restores it.
StagedFiles ==
  /\ \A r \in Requests : \A d \in staged[r] :
       file[d] = "staged" \/ (pc[r] = "prunetrash" /\ d = doc[r])
  /\ \A r \in Requests :
       pc[r] = "prunetrash" => doc[r] \in staged[r] /\ file[doc[r]] = "none"
  /\ \A r, s \in Requests : staged[r] \cap staged[s] # {} => r = s

\* The directory of an upload is pruned when its file is gone.
PrunedFiles == \A r \in Requests : pc[r] = "prune" => file[doc[r]] = "none"

\* A deletion of one document has that document in hand, and its row is deleted
\* when it is staged; the other deletions are of knowledge bases.
Targets ==
  \A r \in Requests :
    /\ pc[r] \in {"trashdir", "stage", "prunestaged", "commit"} /\ entity[r] \in Docs =>
         InHand(r) = {entity[r]}
    /\ pc[r] = "commit" => todo[r] = {}
    /\ pc[r] = "list" => entity[r] \in Kbs
    /\ pc[r] \in UploadSteps => InHand(r) = {}

HandInv == StagedFiles /\ PrunedFiles /\ Targets

\* No request is under way at first.
LEMMA InitHandInv == Init => HandInv
BY DEF Init, HandInv, StagedFiles, PrunedFiles, Targets, UploadSteps

\* An upload handles a file nobody has staged.
LEMMA UploadHandInv ==
  ASSUME StorageInv, HandInv, NEW r \in Requests, UploadStep(r)
  PROVE  HandInv'
<1> USE KbAssumption, DistinctAssumption DEF TypeOK, HandlingSteps, UploadSteps,
     DeleteSteps, FileStates, db, disk, budget, request, StorageInv, UploadsAreNew,
     DeletionsKeepToEntity, InHand, HandInv, StagedFiles, PrunedFiles, Targets, At
<1>1. CASE MakeKbDir(r)
  BY <1>1, SMTT(60) DEF MakeKbDir, MakeDir, Step, Goto, Fault
<1>2. CASE Create(r)
  BY <1>2, SMTT(60) DEF Create, PutFile, Step, Goto
<1>3. CASE Write(r)
  BY <1>3, SMTT(60) DEF Write, PutFile, Step, Goto, WriteAborted
<1>4. CASE WriteFails(r)
  BY <1>4, SMTT(60) DEF WriteFails, Step, Goto, WriteAborted, Fault
<1>5. CASE Insert(r)
  BY <1>5, SMTT(60) DEF Insert, Step, Goto, Done, Fault
<1>6. CASE RemoveUploaded(r)
  BY <1>6, SMTT(60) DEF RemoveUploaded, Unlink, Step, Goto, Done, Fault
<1>7. CASE PruneKbDir(r)
  BY <1>7, SMTT(60) DEF PruneKbDir, RemoveEmptyDir, Done, Goto
<1> QED
  BY <1>1, <1>2, <1>3, <1>4, <1>5, <1>6, <1>7 DEF UploadStep

\* A deletion stages what is stored, which nobody else has staged, and drops what
\* it destroyed or put back.
LEMMA DeleteHandInv ==
  ASSUME StorageInv, HandInv, NEW r \in Requests, DeleteStep(r)
  PROVE  HandInv'
<1> USE KbAssumption, DistinctAssumption DEF TypeOK, HandlingSteps, UploadSteps,
     DeleteSteps, FileStates, db, disk, budget, request, StorageInv, UploadsAreNew,
     DeletionsKeepToEntity, InHand, HandInv, StagedFiles, PrunedFiles, Targets, At
<1>1. CASE ListKeys(r)
  BY <1>1, SMTT(60) DEF ListKeys, Goto, Staging, RowsOf
<1>2. CASE StageDir(r)
  BY <1>2, SMTT(60) DEF StageDir, MakeDir, Goto, Fault, StagingFails, Done, Step
<1>3. CASE Stage(r)
  BY <1>3, SMTT(60) DEF Stage, PutFile, Goto, Stageable
<1>4. CASE StageMisses(r)
  BY <1>4, SMTT(60) DEF StageMisses, Fault, StagingFails, Done, Step, Goto
<1>5. CASE PruneStaged(r)
  BY <1>5, SMTT(60) DEF PruneStaged, RemoveEmptyDir, Step, Goto, Staging
<1>6. CASE CommitDelete(r)
  BY <1>6, SMTT(60) DEF CommitDelete, CommitAfter, Done, Step, Goto, RowsOf
<1>7. CASE CommitRefused(r)
  BY <1>7, SMTT(60) DEF CommitRefused, Fault, StagingFails, Done, Step, Goto
<1>8. CASE FinalizeStaged(r)
  BY <1>8, SMTT(60) DEF FinalizeStaged, Unlink, Goto
<1>9. CASE FinalizeFails(r)
  BY <1>9, SMTT(60) DEF FinalizeFails, Fault, Handled, Done, Goto
<1>10. CASE PruneTrash(r)
  BY <1>10, SMTT(60) DEF PruneTrash, RemoveEmptyDir, Handled, Done, Goto
<1>11. CASE RestoreDir(r)
  BY <1>11, SMTT(60) DEF RestoreDir, MakeDir, Goto
<1>12. CASE Restore(r)
  BY <1>12, SMTT(60) DEF Restore, PutFile, Fault, Handled, Done, Goto
<1> QED
  BY <1>1, <1>2, <1>3, <1>4, <1>5, <1>6, <1>7, <1>8, <1>9, <1>10, <1>11, <1>12 DEF DeleteStep

\* A call that starts has nothing in hand but what it is about.
LEMMA CallHandInv ==
  ASSUME StorageInv, HandInv, NEW r \in Requests, StartCall(r)
  PROVE  HandInv'
<1> USE KbAssumption, DistinctAssumption DEF TypeOK, HandlingSteps, UploadSteps,
     DeleteSteps, FileStates, db, disk, budget, request, StorageInv, UploadsAreNew,
     DeletionsKeepToEntity, InHand, HandInv, StagedFiles, PrunedFiles, Targets, At
<1>1. ASSUME NEW d \in Docs, Upload(r, d) PROVE HandInv'
  BY <1>1, SMTT(60) DEF Upload, Call, Goto
<1>2. ASSUME NEW d \in Docs, DeleteDocument(r, d) PROVE HandInv'
  BY <1>2, SMTT(60) DEF DeleteDocument, Call, Goto
<1>3. ASSUME NEW kb \in Kbs, DeleteKnowledgeBase(r, kb) PROVE HandInv'
  BY <1>3, SMTT(60) DEF DeleteKnowledgeBase, Call, Goto
<1> QED
  BY <1>1, <1>2, <1>3 DEF StartCall

\* After a crash nothing is in hand.
LEMMA NextHandInv == StorageInv /\ HandInv /\ [Next]_vars => HandInv'
<1> SUFFICES ASSUME StorageInv, HandInv, [Next]_vars PROVE HandInv'
  OBVIOUS
<1>1. ASSUME NEW r \in Requests, StartCall(r) \/ UploadStep(r) \/ DeleteStep(r)
      PROVE  HandInv'
  BY <1>1, CallHandInv, UploadHandInv, DeleteHandInv
<1>2. CASE Crash
  BY <1>2 DEF Crash, Fault, HandInv, StagedFiles, PrunedFiles, Targets, UploadSteps, InHand,
     db, disk
<1>3. CASE UNCHANGED vars
  BY <1>3 DEF vars, db, disk, request, budget, HandInv, StagedFiles, PrunedFiles, Targets,
     InHand, db, disk
<1> QED
  BY <1>1, <1>2, <1>3 DEF Next

\* The second invariant holds in every behaviour.
LEMMA HandInvariant == Spec => []HandInv
BY InitHandInv, NextHandInv, StorageInvariant, PTL DEF Spec

-----------------------------------------------------------------------------
(***************************************************************************)
(* Orphans.  The cases without a crash and without a clean-up the file     *)
(* system refused.                                                         *)
(***************************************************************************)
Tidy == faults \cap {"crash", "cleanup"} = {}

\* What a deletion has staged, and has not committed to destroy, still has its
\* row, unless the row went with the knowledge base.
StagedHaveRows ==
  \A r \in Requests : pc[r] \notin {"finalize", "prunetrash"} =>
    \A d \in staged[r] : d \in docs \/ KbOf[d] \notin kbs

FilesAttended ==
  \A d \in Docs : file[d] # "none" => Attended(d) \/ KbOf[d] \notin kbs

OrphanInv == Tidy => StagedHaveRows /\ FilesAttended

\* Where the file system refuses a clean-up, nothing is claimed any more.
LEMMA CleanupFailed == Fault("cleanup") => ~Tidy'
BY DEF Fault, Tidy

\* No file is there at first.
LEMMA InitOrphanInv == Init => OrphanInv
BY DEF Init, OrphanInv, StagedHaveRows, FilesAttended

\* An upload attends to its file until it has a row or is removed.
LEMMA UploadOrphanInv ==
  ASSUME StorageInv, HandInv, OrphanInv, NEW r \in Requests, UploadStep(r)
  PROVE  OrphanInv'
<1> USE KbAssumption, DistinctAssumption DEF TypeOK, HandlingSteps, UploadSteps,
     DeleteSteps, FileStates, db, disk, budget, request, StorageInv, UploadsAreNew,
     DeletionsKeepToEntity, InHand, HandInv, StagedFiles, PrunedFiles, Targets, At,
     Attended, OrphanInv, Tidy, StagedHaveRows, FilesAttended
<1>1. CASE MakeKbDir(r)
  BY <1>1, SMTT(60) DEF MakeKbDir, MakeDir, Step, Goto, Fault
<1>2. CASE Create(r)
  BY <1>2, SMTT(60) DEF Create, PutFile, Step, Goto
<1>3. CASE Write(r)
  BY <1>3, SMTT(60) DEF Write, PutFile, Step, Goto, WriteAborted
<1>4. CASE WriteFails(r)
  BY <1>4, SMTT(60) DEF WriteFails, Step, Goto, WriteAborted, Fault
<1>5. CASE Insert(r)
  BY <1>5, SMTT(60) DEF Insert, Step, Goto, Done, Fault
<1>6. CASE RemoveUploaded(r)
  <2>1. CASE Fault("cleanup")
    BY <2>1, CleanupFailed DEF OrphanInv
  <2>2. CASE Unlink(doc[r]) /\ Step(r, "prune") /\ UNCHANGED budget
    BY <1>6, <2>2, SMTT(60) DEF RemoveUploaded, Unlink, Step, Goto
  <2> QED
    BY <1>6, <2>1, <2>2 DEF RemoveUploaded
<1>7. CASE PruneKbDir(r)
  BY <1>7, SMTT(60) DEF PruneKbDir, RemoveEmptyDir, Done, Goto
<1> QED
  BY <1>1, <1>2, <1>3, <1>4, <1>5, <1>6, <1>7 DEF UploadStep

\* A deletion attends to what it has staged until it is destroyed, or back under
\* its row.
LEMMA DeleteOrphanInv ==
  ASSUME StorageInv, HandInv, OrphanInv, NEW r \in Requests, DeleteStep(r)
  PROVE  OrphanInv'
<1> USE KbAssumption, DistinctAssumption DEF TypeOK, HandlingSteps, UploadSteps,
     DeleteSteps, FileStates, db, disk, budget, request, StorageInv, UploadsAreNew,
     DeletionsKeepToEntity, InHand, HandInv, StagedFiles, PrunedFiles, Targets, At,
     Attended, OrphanInv, Tidy, StagedHaveRows, FilesAttended
<1>1. CASE ListKeys(r)
  BY <1>1, SMTT(60) DEF ListKeys, Goto, Staging, RowsOf
<1>2. CASE StageDir(r)
  BY <1>2, SMTT(60) DEF StageDir, MakeDir, Goto, Fault, StagingFails, Done, Step
<1>3. CASE Stage(r)
  BY <1>3, SMTT(60) DEF Stage, PutFile, Goto, Stageable
<1>4. CASE StageMisses(r)
  BY <1>4, SMTT(60) DEF StageMisses, Fault, StagingFails, Done, Step, Goto
<1>5. CASE PruneStaged(r)
  BY <1>5, SMTT(60) DEF PruneStaged, RemoveEmptyDir, Step, Goto, Staging
<1>6. CASE CommitDelete(r)
  BY <1>6, SMTT(60) DEF CommitDelete, CommitAfter, Done, Step, Goto, RowsOf
<1>7. CASE CommitRefused(r)
  BY <1>7, SMTT(60) DEF CommitRefused, Fault, StagingFails, Done, Step, Goto
<1>8. CASE FinalizeStaged(r)
  BY <1>8, SMTT(60) DEF FinalizeStaged, Unlink, Goto
<1>9. CASE FinalizeFails(r)
  <2>1. Fault("cleanup")
    BY <1>9 DEF FinalizeFails
  <2> QED
    BY <2>1, CleanupFailed DEF OrphanInv
<1>10. CASE PruneTrash(r)
  BY <1>10, SMTT(60) DEF PruneTrash, RemoveEmptyDir, Handled, Done, Goto
<1>11. CASE RestoreDir(r)
  BY <1>11, SMTT(60) DEF RestoreDir, MakeDir, Goto
<1>12. CASE Restore(r)
  BY <1>12, SMTT(60) DEF Restore, PutFile, Fault, Handled, Done, Goto
<1> QED
  BY <1>1, <1>2, <1>3, <1>4, <1>5, <1>6, <1>7, <1>8, <1>9, <1>10, <1>11, <1>12 DEF DeleteStep

\* A call that starts leaves the files to whom they belong.
LEMMA CallOrphanInv ==
  ASSUME StorageInv, HandInv, OrphanInv, NEW r \in Requests, StartCall(r)
  PROVE  OrphanInv'
<1> USE KbAssumption, DistinctAssumption DEF TypeOK, HandlingSteps, UploadSteps,
     DeleteSteps, FileStates, db, disk, budget, request, StorageInv, UploadsAreNew,
     DeletionsKeepToEntity, InHand, HandInv, StagedFiles, PrunedFiles, Targets, At,
     Attended, OrphanInv, Tidy, StagedHaveRows, FilesAttended
<1>1. ASSUME NEW d \in Docs, Upload(r, d) PROVE OrphanInv'
  BY <1>1, SMTT(60) DEF Upload, Call, Goto
<1>2. ASSUME NEW d \in Docs, DeleteDocument(r, d) PROVE OrphanInv'
  BY <1>2, SMTT(60) DEF DeleteDocument, Call, Goto
<1>3. ASSUME NEW kb \in Kbs, DeleteKnowledgeBase(r, kb) PROVE OrphanInv'
  BY <1>3, SMTT(60) DEF DeleteKnowledgeBase, Call, Goto
<1> QED
  BY <1>1, <1>2, <1>3 DEF StartCall

\* After a crash nothing is claimed.
LEMMA NextOrphanInv == StorageInv /\ HandInv /\ OrphanInv /\ [Next]_vars => OrphanInv'
<1> SUFFICES ASSUME StorageInv, HandInv, OrphanInv, [Next]_vars PROVE OrphanInv'
  OBVIOUS
<1>1. ASSUME NEW r \in Requests, StartCall(r) \/ UploadStep(r) \/ DeleteStep(r)
      PROVE  OrphanInv'
  BY <1>1, CallOrphanInv, UploadOrphanInv, DeleteOrphanInv
<1>2. CASE Crash
  BY <1>2 DEF Crash, Fault, OrphanInv, Tidy, StagedHaveRows, FilesAttended, Attended
<1>3. CASE UNCHANGED vars
  BY <1>3 DEF vars, db, disk, request, budget, OrphanInv, Tidy, StagedHaveRows,
     FilesAttended, Attended
<1> QED
  BY <1>1, <1>2, <1>3 DEF Next

\* However uploads and deletions overlap, a file that belongs to no document
\* and no request is due to a crash, to a clean-up the file system refused, or
\* to the deletion of its knowledge base (the clean-up in save,
\* commit_uploaded_document, restore_many and finalize_many).
THEOREM OrphansAreExplained == Spec => []OrphansHaveCauses
<1>1. OrphanInv => OrphansHaveCauses
  BY DEF OrphanInv, Tidy, FilesAttended, OrphansHaveCauses
<1> QED
  BY <1>1, InitOrphanInv, NextOrphanInv, StorageInvariant, HandInvariant, PTL DEF Spec

-----------------------------------------------------------------------------
(***************************************************************************)
(* Requests one at a time, in a process that lives, over a file system     *)
(* that lets clean-ups through: each deletion ends with the files of       *)
(* documents where they were.                                              *)
(***************************************************************************)
Careful == faults \cap {"overlap", "crash", "cleanup"} = {}

OneAtATime == \A r, s \in Requests : pc[r] # "idle" /\ pc[s] # "idle" => r = s

\* Nothing is left in .trash behind a request's back.
StagedAreClaimed ==
  \A d \in Docs : file[d] = "staged" => \E r \in Requests : d \in staged[r]

\* A file that is put back finds its directory.
RestoresHaveDirs ==
  \A r \in Requests : pc[r] = "restore" => KbOf[doc[r]] \in dirs

CarefulInv == Careful => OneAtATime /\ StagedAreClaimed /\ RestoresHaveDirs

\* What ends the careful behaviours.
LEMMA CareEnds ==
  /\ Fault("cleanup") => ~Careful'
  /\ Fault("crash") => ~Careful'
BY DEF Fault, Careful

\* No file is there at first, and no request is under way.
LEMMA InitCarefulInv == Init => CarefulInv
BY DEF Init, CarefulInv, OneAtATime, StagedAreClaimed, RestoresHaveDirs

\* An upload stages nothing.
LEMMA UploadCarefulInv ==
  ASSUME StorageInv, HandInv, CarefulInv, NEW r \in Requests, UploadStep(r)
  PROVE  CarefulInv'
<1> USE KbAssumption, DistinctAssumption DEF TypeOK, HandlingSteps, UploadSteps,
     DeleteSteps, FileStates, db, disk, budget, request, StorageInv, UploadsAreNew,
     DeletionsKeepToEntity, InHand, HandInv, StagedFiles,
     Targets, At, CarefulInv, Careful,
     OneAtATime, StagedAreClaimed, RestoresHaveDirs
<1>1. CASE MakeKbDir(r)
  BY <1>1, SMTT(60) DEF MakeKbDir, MakeDir, Step, Goto, Fault
<1>2. CASE Create(r)
  BY <1>2, SMTT(60) DEF Create, PutFile, Step, Goto
<1>3. CASE Write(r)
  BY <1>3, SMTT(60) DEF Write, PutFile, Step, Goto, WriteAborted
<1>4. CASE WriteFails(r)
  BY <1>4, SMTT(60) DEF WriteFails, Step, Goto, WriteAborted, Fault
<1>5. CASE Insert(r)
  BY <1>5, SMTT(60) DEF Insert, Step, Goto, Done, Fault
<1>6. CASE RemoveUploaded(r)
  BY <1>6, SMTT(60) DEF RemoveUploaded, Unlink, Step, Goto, Done, Fault
<1>7. CASE PruneKbDir(r)
  <2>1. staged[r] = {} /\ r \in Requests /\ pc[r] = "prune"
    BY <1>7 DEF PruneKbDir
  <2>2. CASE Careful
    <3>1. \A s \in Requests \ {r} : pc[s] = "idle"
      BY <2>1, <2>2
    <3>2. \A s \in Requests : pc'[s] = "idle"
      BY <1>7, <3>1 DEF PruneKbDir, Done, Goto
    <3> QED
      BY <1>7, <2>1, <2>2, <3>2 DEF PruneKbDir, RemoveEmptyDir, Done
  <2>3. CASE ~Careful
    BY <1>7, <2>3 DEF PruneKbDir
  <2> QED
    BY <2>2, <2>3
<1> QED
  BY <1>1, <1>2, <1>3, <1>4, <1>5, <1>6, <1>7 DEF UploadStep

\* A deletion destroys or puts back what it has staged before it forgets it.
LEMMA DeleteCarefulInv ==
  ASSUME StorageInv, HandInv, CarefulInv, NEW r \in Requests, DeleteStep(r)
  PROVE  CarefulInv'
<1> USE KbAssumption, DistinctAssumption DEF TypeOK, HandlingSteps, UploadSteps,
     DeleteSteps, FileStates, db, disk, budget, request, StorageInv, UploadsAreNew,
     DeletionsKeepToEntity, InHand, HandInv, StagedFiles,
     Targets, At, CarefulInv, Careful,
     OneAtATime, StagedAreClaimed, RestoresHaveDirs
<1>1. CASE ListKeys(r)
  BY <1>1, SMTT(60) DEF ListKeys, Goto, Staging, RowsOf
<1>2. CASE StageDir(r)
  BY <1>2, SMTT(60) DEF StageDir, MakeDir, Goto, Fault, StagingFails, Done, Step
<1>3. CASE Stage(r)
  BY <1>3, SMTT(60) DEF Stage, PutFile, Goto, Stageable
<1>4. CASE StageMisses(r)
  BY <1>4, SMTT(60) DEF StageMisses, Fault, StagingFails, Done, Step, Goto
<1>5. CASE PruneStaged(r)
  BY <1>5, SMTT(60) DEF PruneStaged, RemoveEmptyDir, Step, Goto, Staging
<1>6. CASE CommitDelete(r)
  BY <1>6, SMTT(60) DEF CommitDelete, CommitAfter, Done, Step, Goto, RowsOf
<1>7. CASE CommitRefused(r)
  BY <1>7, SMTT(60) DEF CommitRefused, Fault, StagingFails, Done, Step, Goto
<1>8. CASE FinalizeStaged(r)
  BY <1>8, SMTT(60) DEF FinalizeStaged, Unlink, Goto
<1>9. CASE FinalizeFails(r)
  BY <1>9, SMTT(60) DEF FinalizeFails, Fault, Handled, Done, Goto
<1>10. CASE PruneTrash(r)
  BY <1>10, SMTT(60) DEF PruneTrash, RemoveEmptyDir, Handled, Done, Goto
<1>11. CASE RestoreDir(r)
  BY <1>11, SMTT(60) DEF RestoreDir, MakeDir, Goto
<1>12. CASE Restore(r)
  BY <1>12, SMTT(60) DEF Restore, PutFile, Fault, Handled, Done, Goto
<1> QED
  BY <1>1, <1>2, <1>3, <1>4, <1>5, <1>6, <1>7, <1>8, <1>9, <1>10, <1>11, <1>12 DEF DeleteStep

\* A call that starts while another is under way ends the claim.
LEMMA CallCarefulInv ==
  ASSUME StorageInv, HandInv, CarefulInv, NEW r \in Requests, StartCall(r)
  PROVE  CarefulInv'
<1> USE KbAssumption, DistinctAssumption DEF TypeOK, HandlingSteps, UploadSteps,
     DeleteSteps, FileStates, db, disk, budget, request, StorageInv, UploadsAreNew,
     DeletionsKeepToEntity, InHand, HandInv, StagedFiles,
     Targets, At, CarefulInv, Careful,
     OneAtATime, StagedAreClaimed, RestoresHaveDirs
<1>1. ASSUME NEW d \in Docs, Upload(r, d) PROVE CarefulInv'
  BY <1>1, SMTT(60) DEF Upload, Call, Goto
<1>2. ASSUME NEW d \in Docs, DeleteDocument(r, d) PROVE CarefulInv'
  BY <1>2, SMTT(60) DEF DeleteDocument, Call, Goto
<1>3. ASSUME NEW kb \in Kbs, DeleteKnowledgeBase(r, kb) PROVE CarefulInv'
  BY <1>3, SMTT(60) DEF DeleteKnowledgeBase, Call, Goto
<1> QED
  BY <1>1, <1>2, <1>3 DEF StartCall

\* So does a crash.
LEMMA NextCarefulInv == StorageInv /\ HandInv /\ CarefulInv /\ [Next]_vars => CarefulInv'
<1> SUFFICES ASSUME StorageInv, HandInv, CarefulInv, [Next]_vars PROVE CarefulInv'
  OBVIOUS
<1>1. ASSUME NEW r \in Requests, StartCall(r) \/ UploadStep(r) \/ DeleteStep(r)
      PROVE  CarefulInv'
  BY <1>1, CallCarefulInv, UploadCarefulInv, DeleteCarefulInv
<1>2. CASE Crash
  BY <1>2 DEF Crash, Fault, CarefulInv, Careful, OneAtATime, StagedAreClaimed, RestoresHaveDirs
<1>3. CASE UNCHANGED vars
  BY <1>3 DEF vars, db, disk, request, budget, CarefulInv, Careful, OneAtATime,
     StagedAreClaimed, RestoresHaveDirs
<1> QED
  BY <1>1, <1>2, <1>3 DEF Next

\* One request at a time, a document has its file where its storage key says
\* whenever no deletion has it staged, however staging, commits and writes fail
\* (delete_entity_with_files, restore_many).
THEOREM CarefulDeletionsAreSafe == Spec => []CarefulDeletionsKeepFiles
<1>1. StorageInv /\ CarefulInv => CarefulDeletionsKeepFiles
  BY DEF StorageInv, TypeOK, BytesOutliveRows, CarefulInv, Careful, StagedAreClaimed,
     CarefulDeletionsKeepFiles, DocumentsKeepFiles
<1> QED
  BY <1>1, InitCarefulInv, NextCarefulInv, StorageInvariant, HandInvariant, PTL DEF Spec
=============================================================================
