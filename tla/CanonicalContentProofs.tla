----------------------- MODULE CanonicalContentProofs -----------------------
(***************************************************************************)
(* Theorems about CanonicalContent, for any documents, workers,            *)
(* inspectors, generations of any length, and number of migrations.        *)
(***************************************************************************)
EXTENDS CanonicalContent, JobRowsProofs, TLAPS

-----------------------------------------------------------------------------
(***************************************************************************)
(* Rows of both vocabularies.                                              *)
(***************************************************************************)
AnyRow ==
  [status : JobStatuses \cup OldStatuses \cup {"absent"}, attempts : Nat,
   failure : FailureCodes \cup {"none"}, dispatched : BOOLEAN, completed : BOOLEAN]

\* Rows of both revisions have the same columns.
LEMMA RowsAreAny == Row \cup OldRow \subseteq AnyRow
<1>1. NoRow \in AnyRow
  BY DEF NoRow, AnyRow
<1>2. JobRow \subseteq AnyRow
  BY DEF JobRow, AnyRow
<1>3. OldRow \subseteq AnyRow
  BY DEF OldRow, AnyRow
<1> QED
  BY <1>1, <1>2, <1>3 DEF Row

\* A row the constraints of a revision accept is a row of that revision.
LEMMA FittingRow ==
  ASSUME NEW r \in AnyRow, NEW rev \in {4, 5}, Fits(rev, r)
  PROVE  /\ r \in Row \cup OldRow
         /\ rev = 5 => r \in JobRow
         /\ r # NoRow
<1>1. CASE rev = 5
  <2>1. r \in JobRow /\ r.status # "absent"
    BY <1>1, 5 # 4 DEF Fits, AnyRow, JobRow, JobStatuses, ActiveStatuses, FinalStatuses
  <2> QED
    BY <2>1 DEF Row, NoRow
<1>2. CASE rev = 4
  <2>1. r \in OldRow /\ r.status # "absent"
    BY <1>2 DEF Fits, OldChecksHold, AnyRow, OldRow, OldStatuses
  <2> QED
    BY <1>2, <2>1 DEF NoRow
<1> QED
  BY <1>1, <1>2

\* The row a new or restarted job has fits both revisions.
LEMMA QueuedRowFits == \A rev \in 4..5 : Fits(rev, QueuedRow)
BY DEF Fits, ChecksHold, OldChecksHold, QueuedRow, NoRow, JobStatuses,
   OldStatuses, FinalStatuses

\* A retry leaves a row revision 5 accepts.
LEMMA ResetRow ==
  ASSUME NEW r \in AnyRow
  PROVE  ResetJob(r) \in JobRow /\ Fits(5, ResetJob(r))
BY DEF AnyRow, JobRow, ResetJob, Transition, Fits, ChecksHold, JobStatuses, FinalStatuses

\* So does the preparation of a job that is not final.
LEMMA PreparedRow ==
  ASSUME NEW r \in AnyRow, Fits(5, r), r.status \notin FinalStatuses
  PROVE  /\ Prepared(r) \in JobRow
         /\ Prepared(r).status = "chunking"
         /\ Fits(5, Prepared(r))
<1> DEFINE start == IF r.status \in ActiveStatuses THEN RecoverInterruptedJob(r) ELSE r
<1>1. r \in JobRow /\ ChecksHold(r)
  BY DEF Fits, AnyRow, JobRow
<1>2. start \in JobRow /\ start.failure = "none" /\ start.completed = FALSE
  BY <1>1 DEF RecoverInterruptedJob, Transition, ChecksHold, JobRow, JobStatuses, FinalStatuses
<1>3. ASSUME NEW s \in JobRow, s.failure = "none", s.completed = FALSE
      PROVE  /\ StartAttempt(s) \in JobRow
             /\ StartAttempt(s).failure = "none"
             /\ StartAttempt(s).completed = FALSE
  <2> DEFINE v == Transition(s, "verifying")
  <2>1. v \in JobRow /\ v.failure = "none" /\ v.completed = FALSE
    BY <1>3 DEF Transition, JobRow, JobStatuses, ActiveStatuses, FinalStatuses
  <2>2. v.attempts + 1 \in Nat
    BY <2>1 DEF JobRow
  <2>3. StartAttempt(s) = [v EXCEPT !.attempts = v.attempts + 1]
    BY DEF StartAttempt
  <2> HIDE DEF v
  <2> QED
    BY <2>1, <2>2, <2>3 DEF JobRow
<1>4. ASSUME NEW s \in JobRow, s.failure = "none", s.completed = FALSE
      PROVE  LET p == Transition(Transition(s, "extracting"), "chunking")
             IN /\ p \in JobRow
                /\ p.status = "chunking" /\ p.failure = "none" /\ p.completed = FALSE
  BY <1>4 DEF Transition, JobRow, JobStatuses, ActiveStatuses, FinalStatuses
<1>5. /\ Prepared(r) \in JobRow
      /\ Prepared(r).status = "chunking"
      /\ Prepared(r).failure = "none"
      /\ Prepared(r).completed = FALSE
  <2> HIDE DEF start
  <2>1. LET p == Transition(Transition(StartAttempt(start), "extracting"), "chunking")
        IN /\ p \in JobRow
           /\ p.status = "chunking" /\ p.failure = "none" /\ p.completed = FALSE
    BY <1>2, <1>3, <1>4
  <2> QED
    BY <2>1 DEF Prepared, start
<1> QED
  BY <1>5 DEF Fits, ChecksHold, JobStatuses, ActiveStatuses, FinalStatuses

\* An UPDATE of a row of either revision leaves a row of some revision.
LEMMA AnyFlushedRow ==
  ASSUME NEW r \in AnyRow, NEW loaded \in JobRow, NEW new \in JobRow
  PROVE  Flush(r, loaded, new) \in AnyRow
BY DEF Flush, JobRow, AnyRow

\* Every row revision 4 accepts is one the upgrade can convert, and every row
\* revision 5 accepts one the downgrade can.
LEMMA RowsConvert ==
  ASSUME NEW r \in AnyRow
  PROVE  /\ Fits(4, r) => Fits(5, Upgraded(r)) /\ Upgraded(r) \in AnyRow
         /\ Fits(4, r) => Upgraded(r).status # "ready_for_indexing"
         /\ Fits(5, r) => Fits(4, Downgraded(r)) /\ Downgraded(r) \in AnyRow
<1>1. Fits(4, r) => /\ Fits(5, Upgraded(r))
                    /\ Upgraded(r) \in AnyRow
                    /\ Upgraded(r).status # "ready_for_indexing"
  <2>1. CASE r.status \in {"processing", "ready"}
    <3>1. Upgraded(r) = QueuedRow
      BY <2>1 DEF Upgraded
    <3>2. QueuedRow \in AnyRow
      BY RowsAreAny, QueuedRowType DEF Row
    <3> QED
      BY <3>1, <3>2, QueuedRowFits DEF QueuedRow, NoRow
  <2>2. CASE r.status \notin {"processing", "ready"}
    BY <2>2 DEF Upgraded, Fits, OldChecksHold, OldStatuses, ChecksHold,
       JobStatuses, ActiveStatuses, FinalStatuses
  <2> QED
    BY <2>1, <2>2
<1>2. Fits(5, r) => Fits(4, Downgraded(r)) /\ Downgraded(r) \in AnyRow
  <2>1. CASE r.status = "ready_for_indexing"
    BY <2>1 DEF Downgraded, Fits, OldChecksHold, OldStatuses, ChecksHold, AnyRow, FinalStatuses
  <2>2. CASE r.status \in ActiveStatuses
    BY <2>2 DEF Downgraded, Fits, OldChecksHold, OldStatuses, ChecksHold,
       AnyRow, ActiveStatuses, FinalStatuses
  <2>3. CASE r.status \in {"queued", "failed"}
    BY <2>3 DEF Downgraded, Fits, OldChecksHold, OldStatuses, ChecksHold,
       ActiveStatuses, FinalStatuses
  <2> QED
    BY <2>1, <2>2, <2>3 DEF Fits, JobStatuses, FinalStatuses
<1> QED
  BY <1>1, <1>2

-----------------------------------------------------------------------------
(***************************************************************************)
(* Sets of content rows.                                                   *)
(***************************************************************************)
\* Every set a worker inserts into a table has a row with key 0: two of them
\* always conflict, and sets of two generations share no row.
LEMMA RowsOfGeneration ==
  ASSUME NEW t \in Tables, NEW g \in Generations
  PROVE  /\ Rows(t, g) \subseteq ContentRow
         /\ <<0, g>> \in Rows(t, g)
         /\ \A x \in Rows(t, g) : x[2] = g
<1>1. Length[g] - 1 \in Nat /\ 0..Length[g] - 1 \subseteq Nat
  BY LengthAssumption
<1>2. 0 \in 0..Length[g] - 1
  BY <1>1
<1>3. CASE t = "chunks"
  BY <1>1, <1>2, <1>3 DEF Rows, ContentRow
<1>4. CASE t # "chunks"
  BY <1>4 DEF Rows, ContentRow
<1> QED
  BY <1>3, <1>4

\* What two generations leave of one table conflicts.
LEMMA GenerationsConflict ==
  ASSUME NEW t \in Tables, NEW g \in Generations, NEW h \in Generations
  PROVE  /\ Conflict(Rows(t, g), Rows(t, h))
         /\ Rows(t, g) \cap Rows(t, h) # {} => g = h
<1>1. <<0, g>> \in Rows(t, g) /\ <<0, h>> \in Rows(t, h)
  BY RowsOfGeneration
<1>2. <<0, g>>[1] = <<0, h>>[1]
  OBVIOUS
<1>3. Conflict(Rows(t, g), Rows(t, h))
  BY <1>1, <1>2 DEF Conflict
<1>4. Rows(t, g) \cap Rows(t, h) # {} => g = h
  BY RowsOfGeneration
<1> QED
  BY <1>3, <1>4

ContentIsWhole(St) == St = Nothing \/ \E g \in Generations : St = Whole(g)

\* A table holds nothing, or the rows of one generation.
LEMMA WholeTable ==
  ASSUME NEW St, ContentIsWhole(St), NEW t \in Tables
  PROVE  St[t] = {} \/ \E g \in Generations : St[t] = Rows(t, g)
BY DEF ContentIsWhole, Nothing, Whole

-----------------------------------------------------------------------------
(***************************************************************************)
(* The inductive invariant.  It says what a transaction may hold: all of   *)
(* the committed rows of a table or none, all rows of its generation only  *)
(* when it has deleted those, and nothing another transaction on the same  *)
(* document holds.                                                         *)
(***************************************************************************)
Ready(s, r) == Flush(r, s.obj, Transition(s.obj, "ready_for_indexing"))

\* A transaction under way, on a document with content St and job row r.
WorkerOK(s, St, r, rev) ==
  s.pc # "idle" =>
    /\ s.obj \in JobRow /\ s.obj.status = "chunking"
    /\ s.pc # "chunking" => rev = 5
    /\ s.pc # "flush" =>
         s.added = Nothing /\ s.updated = FALSE /\ s.removed["extraction"] = {}
    /\ s.pc \in {"chunking", "chunks"} => s.removed["chunks"] = {}
    /\ \A t \in Tables :
         /\ s.pc = t => s.seen = {} \/ \E g \in Generations : s.seen = Rows(t, g)
         /\ s.removed[t] = {} \/ s.removed[t] = St[t]
         /\ s.added[t] = {} \/ s.added[t] = Rows(t, s.gen)
         /\ s.added[t] # {} => St[t] \subseteq s.removed[t]
    /\ s.updated = TRUE => r # NoRow /\ Fits(5, Ready(s, r))

\* Two transactions on one document.
Apart(s, u) ==
  /\ \A t \in Tables : /\ s.removed[t] \cap u.removed[t] = {}
                       /\ s.added[t] = {} \/ u.added[t] = {}
  /\ s.updated = FALSE \/ u.updated = FALSE

Together(s, u) == s.pc # "idle" /\ u.pc # "idle" /\ s.doc = u.doc

WorkersOK ==
  \A w \in Workers : WorkerOK(tx[w], stored[tx[w].doc], row[tx[w].doc], revision)

RivalsOK ==
  \A v, w \in Workers : v # w /\ Together(tx[v], tx[w]) => Apart(tx[v], tx[w])

RowsOK ==
  \A d \in Docs :
    /\ row[d] # NoRow =>
         revision >= 4 /\ document[d] = "there" /\ Fits(revision, row[d])
    /\ document[d] = "there" /\ revision >= 4 => row[d] # NoRow

ContentOK ==
  \A d \in Docs :
    /\ ContentIsWhole(stored[d])
    /\ stored[d] # Nothing => document[d] = "there" /\ revision = 5
    /\ revision = 5 /\ row[d].status = "ready_for_indexing" => stored[d] # Nothing

IInv == TypeOK /\ RowsOK /\ WorkersOK /\ RivalsOK /\ ContentOK

\* Nothing is there at first.
LEMMA InitInv == Init => IInv
<1> SUFFICES ASSUME Init PROVE IInv
  OBVIOUS
<1> USE DEF Init
<1>1. Idle \in WorkerState
  <2>1. Nothing \in [Tables -> SUBSET ContentRow]
    BY DEF Nothing
  <2> QED
    BY <2>1 DEF Idle, WorkerState, Row
<1>2. TypeOK
  <2>1. Nothing \in [Tables -> SUBSET ContentRow]
    BY DEF Nothing
  <2>2. Unread \in [pc : {"idle", "extraction", "chunks", "shown"}, doc : Docs \cup {NoDoc},
                    extraction : SUBSET ContentRow, chunks : SUBSET ContentRow]
    BY DEF Unread
  <2>3. NoRow \in Row \cup OldRow
    BY DEF Row
  <2>4. \A w \in Workers : At(w, "idle") /\ tx[w] = Idle
    BY DEF At, Idle
  <2>5. \A i \in Inspectors : view[i].pc = "idle"
    BY DEF Unread
  <2>6. \A w \in Workers : /\ At(w, "idle") => tx[w] = Idle
                           /\ ~At(w, "idle") => tx[w].doc \in Docs /\ tx[w].gen \in used
    BY <2>4
  <2>7. /\ revision \in 3..5 /\ used \in SUBSET Generations /\ migrations \in Nat
        /\ document \in [Docs -> {"none", "there", "gone"}]
        /\ row \in [Docs -> Row \cup OldRow]
        /\ stored \in [Docs -> [Tables -> SUBSET ContentRow]]
        /\ tx \in [Workers -> WorkerState]
    BY <1>1, <2>1, <2>3
  <2> QED
    BY <2>2, <2>5, <2>6, <2>7 DEF TypeOK
<1>3. RowsOK /\ ContentOK
  BY DEF RowsOK, ContentOK, ContentIsWhole, NoRow
<1>4. WorkersOK /\ RivalsOK
  BY DEF WorkersOK, WorkerOK, RivalsOK, Together, Idle
<1> QED
  BY <1>2, <1>3, <1>4 DEF IInv

\* A worker at rest holds nothing; neither does one that has not begun to
\* write.
LEMMA Unwritten ==
  ASSUME IInv, NEW w \in Workers, tx[w].pc \in {"idle", "chunking"}
  PROVE  /\ \A t \in Tables : tx[w].removed[t] = {} /\ tx[w].added[t] = {}
         /\ tx[w].updated = FALSE
<1>1. CASE tx[w].pc = "idle"
  BY <1>1 DEF IInv, TypeOK, At, Idle, Nothing
<1>2. CASE tx[w].pc = "chunking"
  <2>1. WorkerOK(tx[w], stored[tx[w].doc], row[tx[w].doc], revision)
    BY DEF IInv, WorkersOK
  <2> QED
    BY <1>2, <2>1 DEF WorkerOK, Tables, Nothing
<1> QED
  BY <1>1, <1>2

\* A step of one worker that changes nothing but its own transaction keeps the
\* invariant when its new state is sound and apart from the others'.
LEMMA LocalStep ==
  ASSUME IInv, NEW w \in Workers, NEW s \in WorkerState, Become(w, s),
         UNCHANGED <<revision, document, row, stored, view, used, migrations>>,
         s.pc = "idle" => s = Idle,
         s.pc # "idle" => s.doc \in Docs /\ s.gen \in used,
         WorkerOK(s, stored[s.doc], row[s.doc], revision),
         \A v \in Workers \ {w} : Together(tx[v], s) => Apart(tx[v], s)
  PROVE  IInv'
<1>1. tx' \in [Workers -> WorkerState]
  BY DEF Become, IInv, TypeOK
<1>2. tx'[w] = s /\ \A v \in Workers \ {w} : tx'[v] = tx[v]
  BY DEF Become, IInv, TypeOK
<1>3. TypeOK'
  BY <1>1, <1>2 DEF IInv, TypeOK, At
<1>4. RowsOK' /\ ContentOK'
  BY DEF IInv, RowsOK, ContentOK
<1>5. WorkersOK'
  BY <1>2 DEF IInv, WorkersOK
<1>6. RivalsOK'
  BY <1>2 DEF IInv, RivalsOK, Together, Apart
<1> QED
  BY <1>3, <1>4, <1>5, <1>6 DEF IInv

-----------------------------------------------------------------------------
(***************************************************************************)
(* The statements of a worker.                                             *)
(***************************************************************************)
\* A worker under way has a sound transaction, apart from the others.
LEMMA UnderWay ==
  ASSUME IInv, NEW w \in Workers, tx[w].pc # "idle"
  PROVE  /\ tx[w] \in WorkerState
         /\ tx[w].doc \in Docs /\ tx[w].gen \in Generations /\ tx[w].gen \in used
         /\ WorkerOK(tx[w], stored[tx[w].doc], row[tx[w].doc], revision)
         /\ \A v \in Workers \ {w} : Together(tx[v], tx[w]) => Apart(tx[v], tx[w])
BY DEF IInv, TypeOK, At, WorkersOK, RivalsOK

\* The snapshot of a DELETE is one whole table.
LEMMA LookKeeps ==
  ASSUME IInv, NEW w \in Workers,
         Look(w, "chunking", "chunks") \/ Look(w, "between", "extraction")
  PROVE  IInv'
<1> DEFINE d == tx[w].doc
<1>1. PICK t \in Tables :
        /\ tx[w].pc = IF t = "chunks" THEN "chunking" ELSE "between"
        /\ Become(w, [tx[w] EXCEPT !.pc = t, !.seen = stored[d][t]])
        /\ revision = 5
        /\ UNCHANGED <<revision, document, row, stored, view, used, migrations>>
  BY DEF Look, At, Tables
<1> DEFINE s == [tx[w] EXCEPT !.pc = t, !.seen = stored[d][t]]
<1>2. /\ tx[w] \in WorkerState
      /\ d \in Docs /\ tx[w].gen \in used
      /\ WorkerOK(tx[w], stored[d], row[d], revision)
      /\ \A v \in Workers \ {w} : Together(tx[v], tx[w]) => Apart(tx[v], tx[w])
  BY <1>1, UnderWay
<1>3. stored[d][t] \in SUBSET ContentRow
  BY <1>2 DEF IInv, TypeOK
<1>4. s \in WorkerState
  BY <1>2, <1>3 DEF WorkerState, Tables
<1>5. s.seen = {} \/ \E g \in Generations : s.seen = Rows(t, g)
  <2>1. ContentIsWhole(stored[d])
    BY <1>2 DEF IInv, ContentOK
  <2> QED
    BY <1>2, <2>1, WholeTable DEF WorkerState
<1>6. /\ s.pc = t /\ s.doc = d /\ s.gen = tx[w].gen /\ s.obj = tx[w].obj
      /\ s.removed = tx[w].removed /\ s.added = tx[w].added /\ s.updated = tx[w].updated
  BY <1>2 DEF WorkerState
<1> HIDE DEF s
<1>7. WorkerOK(s, stored[d], row[d], revision)
  BY <1>1, <1>2, <1>5, <1>6 DEF WorkerOK, Tables, Ready
<1>8. \A v \in Workers \ {w} : Together(tx[v], s) => Apart(tx[v], s)
  BY <1>1, <1>2, <1>6 DEF Together, Apart
<1>9. Become(w, s)
  BY <1>1 DEF s
<1> QED
  BY <1>1, <1>2, <1>4, <1>6, <1>7, <1>8, <1>9, LocalStep DEF Tables

\* A DELETE removes a whole table or nothing, and no row another transaction
\* has removed.
LEMMA DeleteKeeps ==
  ASSUME IInv, NEW w \in Workers,
         Delete(w, "chunks", "between") \/ Delete(w, "extraction", "flush")
  PROVE  IInv'
<1> DEFINE d == tx[w].doc
<1>1. PICK t \in Tables :
        /\ tx[w].pc = t
        /\ Become(w, [tx[w] EXCEPT !.pc = IF t = "chunks" THEN "between" ELSE "flush",
                                   !.seen = {},
                                   !.removed[t] = tx[w].seen \cap stored[d][t]])
        /\ \A v \in Rivals(w) : tx[v].removed[t] \cap tx[w].seen = {}
        /\ UNCHANGED <<revision, document, row, stored, view, used, migrations>>
  BY DEF Delete, At, Tables
<1> DEFINE next == IF t = "chunks" THEN "between" ELSE "flush"
           gone == tx[w].seen \cap stored[d][t]
           s == [tx[w] EXCEPT !.pc = next, !.seen = {}, !.removed[t] = gone]
<1>2. /\ tx[w] \in WorkerState
      /\ d \in Docs /\ tx[w].gen \in used
      /\ WorkerOK(tx[w], stored[d], row[d], revision)
      /\ \A v \in Workers \ {w} : Together(tx[v], tx[w]) => Apart(tx[v], tx[w])
  BY <1>1, UnderWay DEF Tables
<1>3. gone \in SUBSET ContentRow
  BY <1>2 DEF IInv, TypeOK
<1>4. s \in WorkerState
  <2>1. [tx[w].removed EXCEPT ![t] = gone] \in [Tables -> SUBSET ContentRow]
    BY <1>2, <1>3 DEF WorkerState
  <2> QED
    BY <1>2, <2>1 DEF WorkerState
<1>5. /\ s.pc = next /\ s.doc = d /\ s.gen = tx[w].gen /\ s.obj = tx[w].obj
      /\ s.seen = {} /\ s.added = tx[w].added /\ s.updated = tx[w].updated
      /\ s.removed[t] = gone
      /\ \A u \in Tables : u # t => s.removed[u] = tx[w].removed[u]
  BY <1>2 DEF WorkerState
<1>6. gone = {} \/ gone = stored[d][t]
  <2>1. ContentIsWhole(stored[d])
    BY <1>2 DEF IInv, ContentOK
  <2>2. stored[d][t] = {} \/ \E g \in Generations : stored[d][t] = Rows(t, g)
    BY <2>1, WholeTable
  <2>3. tx[w].seen = {} \/ \E g \in Generations : tx[w].seen = Rows(t, g)
    BY <1>1, <1>2 DEF WorkerOK, Tables
  <2> QED
    BY <2>2, <2>3, GenerationsConflict
<1>7. Become(w, s)
  BY <1>1
<1> HIDE DEF s
<1>8. WorkerOK(s, stored[d], row[d], revision)
  BY <1>1, <1>2, <1>5, <1>6 DEF WorkerOK, Tables, Ready, Nothing
<1>9. ASSUME NEW v \in Workers \ {w}, Together(tx[v], s)
      PROVE  Apart(tx[v], s)
  <2>1. v \in Rivals(w) /\ Apart(tx[v], tx[w])
    BY <1>1, <1>2, <1>5, <1>9 DEF Together, Rivals, Tables
  <2>2. tx[v].removed[t] \cap gone = {}
    BY <1>1, <2>1
  <2> QED
    BY <1>5, <2>1, <2>2 DEF Apart
<1> QED
  BY <1>1, <1>2, <1>4, <1>5, <1>7, <1>8, <1>9, LocalStep

\* An INSERT succeeds only when its transaction has removed the committed rows
\* of the table and no other has inserted any.
LEMMA InsertKeeps ==
  ASSUME IInv, NEW w \in Workers, NEW t \in Tables, Insert(w, t)
  PROVE  IInv'
<1> DEFINE d == tx[w].doc
           rows == Rows(t, tx[w].gen)
           s == [tx[w] EXCEPT !.added[t] = rows]
<1>1. /\ tx[w].pc = "flush" /\ tx[w].added[t] = {}
      /\ \A v \in Rivals(w) : ~Conflict(rows, tx[v].added[t] \cup tx[v].removed[t])
      /\ ~Conflict(rows, stored[d][t] \ tx[w].removed[t])
      /\ Become(w, s)
      /\ UNCHANGED <<revision, document, row, stored, view, used, migrations>>
  BY DEF Insert, At
<1>2. /\ tx[w] \in WorkerState
      /\ d \in Docs /\ tx[w].gen \in used /\ tx[w].gen \in Generations
      /\ WorkerOK(tx[w], stored[d], row[d], revision)
      /\ \A v \in Workers \ {w} : Together(tx[v], tx[w]) => Apart(tx[v], tx[w])
  BY <1>1, UnderWay
<1>3. s \in WorkerState
  <2>1. rows \in SUBSET ContentRow
    BY <1>2, RowsOfGeneration
  <2>2. [tx[w].added EXCEPT ![t] = rows] \in [Tables -> SUBSET ContentRow]
    BY <1>2, <2>1 DEF WorkerState
  <2> QED
    BY <1>2, <2>2 DEF WorkerState
<1>4. /\ s.pc = "flush" /\ s.doc = d /\ s.gen = tx[w].gen /\ s.obj = tx[w].obj
      /\ s.seen = tx[w].seen /\ s.removed = tx[w].removed /\ s.updated = tx[w].updated
      /\ s.added[t] = rows
      /\ \A u \in Tables : u # t => s.added[u] = tx[w].added[u]
  BY <1>1, <1>2 DEF WorkerState
<1>5. stored[d][t] \subseteq tx[w].removed[t]
  <2>1. ContentIsWhole(stored[d])
    BY <1>2 DEF IInv, ContentOK
  <2>2. stored[d][t] = {} \/ \E g \in Generations : stored[d][t] = Rows(t, g)
    BY <2>1, WholeTable
  <2>3. tx[w].removed[t] = {} \/ tx[w].removed[t] = stored[d][t]
    BY <1>1, <1>2 DEF WorkerOK
  <2>4. ASSUME tx[w].removed[t] = {}, stored[d][t] # {} PROVE FALSE
    <3>1. stored[d][t] \ tx[w].removed[t] = stored[d][t]
      BY <2>4
    <3> QED
      BY <1>1, <1>2, <2>2, <2>4, <3>1, GenerationsConflict
  <2> QED
    BY <2>3, <2>4
<1> HIDE DEF s
<1>6. WorkerOK(s, stored[d], row[d], revision)
  BY <1>1, <1>2, <1>4, <1>5 DEF WorkerOK, Tables, Ready
<1>7. ASSUME NEW v \in Workers \ {w}, Together(tx[v], s)
      PROVE  Apart(tx[v], s)
  <2>1. v \in Rivals(w) /\ Apart(tx[v], tx[w]) /\ tx[v].pc # "idle" /\ tx[v].doc = d
    BY <1>1, <1>2, <1>4, <1>7 DEF Together, Rivals
  <2>2. tx[v].added[t] = {} \/ tx[v].added[t] = Rows(t, tx[v].gen)
    BY <2>1, UnderWay DEF WorkerOK
  <2>3. tx[v].gen \in Generations
    BY <2>1, UnderWay
  <2>4. tx[v].added[t] = {}
    BY <1>1, <1>2, <2>1, <2>2, <2>3, GenerationsConflict DEF Conflict
  <2> QED
    BY <1>4, <2>1, <2>4 DEF Apart
<1> QED
  BY <1>1, <1>2, <1>3, <1>4, <1>6, <1>7, LocalStep

\* Only one transaction updates the job row, to one revision 5 accepts.
LEMMA UpdateKeeps ==
  ASSUME IInv, NEW w \in Workers, UpdateJob(w)
  PROVE  IInv'
<1> DEFINE d == tx[w].doc
           s == [tx[w] EXCEPT !.updated = TRUE]
<1>1. /\ tx[w].pc = "flush" /\ row[d] # NoRow /\ RowFree(d)
      /\ Fits(revision, Ready(tx[w], row[d]))
      /\ Become(w, s)
      /\ UNCHANGED <<revision, document, row, stored, view, used, migrations>>
  BY DEF UpdateJob, At, Readied, Ready
<1>2. /\ tx[w] \in WorkerState
      /\ d \in Docs /\ tx[w].gen \in used
      /\ WorkerOK(tx[w], stored[d], row[d], revision)
      /\ \A v \in Workers \ {w} : Together(tx[v], tx[w]) => Apart(tx[v], tx[w])
  BY <1>1, UnderWay
<1>3. s \in WorkerState
  BY <1>2 DEF WorkerState
<1>4. /\ s.pc = "flush" /\ s.doc = d /\ s.gen = tx[w].gen /\ s.obj = tx[w].obj
      /\ s.seen = tx[w].seen /\ s.removed = tx[w].removed /\ s.added = tx[w].added
      /\ s.updated = TRUE
  BY <1>1, <1>2 DEF WorkerState
<1> HIDE DEF s
<1>5. WorkerOK(s, stored[d], row[d], revision)
  BY <1>1, <1>2, <1>4 DEF WorkerOK, Tables, Ready
<1>6. ASSUME NEW v \in Workers \ {w}, Together(tx[v], s)
      PROVE  Apart(tx[v], s)
  <2>1. Apart(tx[v], tx[w]) /\ tx[v].doc = d
    BY <1>1, <1>2, <1>4, <1>6 DEF Together
  <2>2. tx[v] \in WorkerState
    BY DEF IInv, TypeOK
  <2>3. tx[v].updated = FALSE
    BY <1>1, <2>1, <2>2 DEF RowFree, WorkerState
  <2> QED
    BY <1>4, <2>1, <2>3 DEF Apart
<1> QED
  BY <1>1, <1>2, <1>3, <1>4, <1>5, <1>6, LocalStep

\* A transaction that ends without a commit leaves nothing.
LEMMA RollbackKeeps ==
  ASSUME IInv, NEW w \in Workers, Rollback(w)
  PROVE  IInv'
<1>1. Idle \in WorkerState /\ Idle.pc = "idle"
  <2>1. Nothing \in [Tables -> SUBSET ContentRow]
    BY DEF Nothing
  <2> QED
    BY <2>1 DEF Idle, WorkerState, Row
<1> QED
  BY <1>1, LocalStep DEF Rollback, WorkerOK, Together

-----------------------------------------------------------------------------
(***************************************************************************)
(* Writes to the job row.                                                  *)
(***************************************************************************)
\* A write to a row no transaction has locked disturbs no transaction.
LEMMA RowStep ==
  ASSUME IInv, NEW d \in Docs, NEW new \in AnyRow,
         RowFree(d), row[d] # NoRow, Fits(revision, new),
         revision = 5 => new.status # "ready_for_indexing",
         row' = [row EXCEPT ![d] = new],
         UNCHANGED <<revision, document, stored>>
  PROVE  /\ row' \in [Docs -> Row \cup OldRow]
         /\ RowsOK' /\ ContentOK'
         /\ \A v \in Workers :
              WorkerOK(tx[v], stored[tx[v].doc], row'[tx[v].doc], revision)
<1>1. revision \in {4, 5} /\ document[d] = "there"
  BY DEF IInv, RowsOK, TypeOK
<1>2. new \in Row \cup OldRow /\ new # NoRow
  BY <1>1, FittingRow
<1>3. row' \in [Docs -> Row \cup OldRow]
  BY <1>2 DEF IInv, TypeOK
<1>4. row'[d] = new /\ \A e \in Docs \ {d} : row'[e] = row[e]
  BY DEF IInv, TypeOK
<1>5. RowsOK'
  BY <1>1, <1>2, <1>4 DEF IInv, RowsOK
<1>6. ContentOK'
  BY <1>4 DEF IInv, ContentOK
<1>7. ASSUME NEW v \in Workers
      PROVE  WorkerOK(tx[v], stored[tx[v].doc], row'[tx[v].doc], revision)
  <2>1. CASE tx[v].pc = "idle"
    BY <2>1 DEF WorkerOK
  <2>2. CASE tx[v].pc # "idle" /\ tx[v].doc # d
    BY <1>4, <2>2, UnderWay
  <2>3. CASE tx[v].pc # "idle" /\ tx[v].doc = d
    <3>1. tx[v].updated = FALSE
      BY <2>3, UnderWay DEF RowFree, WorkerState
    <3> QED
      BY <2>3, <3>1, UnderWay DEF WorkerOK
  <2> QED
    BY <2>1, <2>2, <2>3
<1> QED
  BY <1>3, <1>5, <1>6, <1>7

\* The rest of the invariant follows when the transactions stay as they are.
LEMMA RowOnlyStep ==
  ASSUME IInv, NEW d \in Docs, NEW new \in AnyRow,
         RowFree(d), row[d] # NoRow, Fits(revision, new),
         revision = 5 => new.status # "ready_for_indexing",
         row' = [row EXCEPT ![d] = new],
         UNCHANGED <<revision, document, stored, tx, view, used, migrations>>
  PROVE  IInv'
<1>1. /\ row' \in [Docs -> Row \cup OldRow]
      /\ RowsOK' /\ ContentOK'
      /\ \A v \in Workers :
           WorkerOK(tx[v], stored[tx[v].doc], row'[tx[v].doc], revision)
  BY RowStep
<1>2. TypeOK'
  BY <1>1 DEF IInv, TypeOK, At
<1>3. WorkersOK' /\ RivalsOK'
  BY <1>1 DEF IInv, WorkersOK, RivalsOK
<1> QED
  BY <1>1, <1>2, <1>3 DEF IInv

\* A worker starts on a document with nothing in its transaction.
LEMMA PrepareKeeps ==
  ASSUME IInv, NEW w \in Workers, NEW d \in Docs, Prepare(w, d)
  PROVE  IInv'
<1>1. PICK g \in Generations \ used :
        /\ used' = used \cup {g}
        /\ Become(w, [Idle EXCEPT !.pc = "chunking", !.doc = d, !.gen = g,
                                  !.obj = Prepared(row[d])])
  BY DEF Prepare
<1> DEFINE new == Prepared(row[d])
           s == [Idle EXCEPT !.pc = "chunking", !.doc = d, !.gen = g, !.obj = new]
<1>2. /\ tx[w].pc = "idle" /\ revision = 5 /\ document[d] = "there" /\ RowFree(d)
      /\ row[d].status \notin FinalStatuses
      /\ row' = [row EXCEPT ![d] = new]
      /\ UNCHANGED <<revision, document, stored, view, migrations>>
  BY DEF Prepare, At
<1>3. row[d] # NoRow /\ row[d] \in AnyRow /\ Fits(5, row[d])
  BY <1>2, RowsAreAny DEF IInv, TypeOK, RowsOK
<1>4. new \in JobRow /\ new \in AnyRow /\ new.status = "chunking" /\ Fits(5, new)
  BY <1>2, <1>3, PreparedRow, RowsAreAny DEF Row
<1>5. /\ row' \in [Docs -> Row \cup OldRow]
      /\ RowsOK' /\ ContentOK'
      /\ \A v \in Workers :
           WorkerOK(tx[v], stored[tx[v].doc], row'[tx[v].doc], revision)
  BY <1>2, <1>3, <1>4, RowStep
<1>6. /\ s.pc = "chunking" /\ s.doc = d /\ s.gen = g /\ s.obj = new /\ s.seen = {}
      /\ s.removed = Nothing /\ s.added = Nothing /\ s.updated = FALSE
  BY DEF Idle
<1>7. s \in WorkerState
  <2>1. Nothing \in [Tables -> SUBSET ContentRow]
    BY DEF Nothing
  <2> QED
    BY <1>4, <2>1 DEF Idle, WorkerState, Row
<1> HIDE DEF s
<1>8. WorkerOK(s, stored[d], row'[d], revision)
  BY <1>4, <1>6 DEF WorkerOK, Nothing, Tables
<1>9. tx' \in [Workers -> WorkerState]
  BY <1>1, <1>7 DEF Become, IInv, TypeOK, s
<1>10. tx'[w] = s /\ \A v \in Workers \ {w} : tx'[v] = tx[v]
  BY <1>1 DEF Become, IInv, TypeOK, s
<1>11. used' \in SUBSET Generations
  BY <1>1 DEF IInv, TypeOK
<1>12. TypeOK'
  BY <1>1, <1>2, <1>5, <1>6, <1>9, <1>10, <1>11 DEF IInv, TypeOK, At
<1>13. WorkersOK'
  BY <1>2, <1>5, <1>6, <1>8, <1>10 DEF WorkersOK
<1>14. RivalsOK'
  <2>1. \A v \in Workers \ {w} : Apart(tx[v], s) /\ Apart(s, tx[v])
    BY <1>6 DEF Apart, Nothing
  <2> QED
    BY <1>10, <2>1 DEF IInv, RivalsOK
<1> QED
  BY <1>5, <1>12, <1>13, <1>14 DEF IInv

\* A failure is written to a row, and the worker ends.
LEMMA GiveUpKeeps ==
  ASSUME IInv, NEW w \in Workers, GiveUp(w)
  PROVE  IInv'
<1> DEFINE d == tx[w].doc
           failed == MarkFailed(tx[w].obj, "permanent")
           new == Flush(row[d], tx[w].obj, failed)
<1>1. /\ tx[w].pc = "chunking" /\ row[d] # NoRow /\ RowFree(d) /\ Fits(revision, new)
      /\ row' = [row EXCEPT ![d] = new]
      /\ Become(w, Idle)
      /\ UNCHANGED <<revision, document, stored, view, used, migrations>>
  BY DEF GiveUp, At
<1>2. /\ tx[w].obj \in JobRow /\ tx[w].obj.status = "chunking" /\ d \in Docs
  BY <1>1, UnderWay DEF WorkerOK
<1>3. failed \in JobRow /\ failed.status = "failed"
  <2>1. failed \in JobRow
    BY <1>2, ChangedRows DEF Row, FailureCodes
  <2> QED
    BY <1>2, <2>1 DEF MarkFailed, Transition, JobRow
<1>4. new \in AnyRow /\ new.status = "failed"
  <2>1. row[d] \in AnyRow
    BY <1>2, RowsAreAny DEF IInv, TypeOK
  <2>2. new.status = "failed"
    BY <1>2, <1>3 DEF Flush
  <2> QED
    BY <1>2, <1>3, <2>1, <2>2, AnyFlushedRow
<1>5. /\ row' \in [Docs -> Row \cup OldRow]
      /\ RowsOK' /\ ContentOK'
      /\ \A v \in Workers :
           WorkerOK(tx[v], stored[tx[v].doc], row'[tx[v].doc], revision)
  BY <1>1, <1>2, <1>4, RowStep
<1>6. Idle \in WorkerState /\ Idle.pc = "idle"
  <2>1. Nothing \in [Tables -> SUBSET ContentRow]
    BY DEF Nothing
  <2> QED
    BY <2>1 DEF Idle, WorkerState, Row
<1>7. /\ tx' \in [Workers -> WorkerState]
      /\ tx'[w] = Idle /\ \A v \in Workers \ {w} : tx'[v] = tx[v]
  BY <1>1, <1>6 DEF Become, IInv, TypeOK
<1>8. TypeOK'
  BY <1>1, <1>5, <1>6, <1>7 DEF IInv, TypeOK, At
<1>9. WorkersOK'
  BY <1>1, <1>5, <1>6, <1>7 DEF WorkersOK, WorkerOK
<1>10. RivalsOK'
  BY <1>6, <1>7 DEF IInv, RivalsOK, Together
<1> QED
  BY <1>5, <1>8, <1>9, <1>10 DEF IInv

\* A commit replaces one whole generation by another, and leaves nothing for
\* the transactions it raced.
LEMMA CommitKeeps ==
  ASSUME IInv, NEW w \in Workers, Commit(w)
  PROVE  IInv'
<1> DEFINE d == tx[w].doc
           new == Ready(tx[w], row[d])
           St == [t \in Tables |-> (stored[d][t] \ tx[w].removed[t]) \cup tx[w].added[t]]
<1>1. /\ tx[w].pc = "flush" /\ tx[w].updated
      /\ \A t \in Tables : tx[w].added[t] # {}
      /\ stored' = [stored EXCEPT ![d] = St]
      /\ row' = [row EXCEPT ![d] = new]
      /\ Become(w, Idle)
      /\ UNCHANGED <<revision, document, view, used, migrations>>
  BY DEF Commit, At, Readied, Ready
<1>2. /\ tx[w] \in WorkerState
      /\ d \in Docs /\ tx[w].gen \in Generations
      /\ WorkerOK(tx[w], stored[d], row[d], revision)
      /\ \A v \in Workers \ {w} : Together(tx[v], tx[w]) => Apart(tx[v], tx[w])
  BY <1>1, UnderWay
<1>3. /\ revision = 5 /\ row[d] # NoRow /\ Fits(5, new)
      /\ \A t \in Tables : /\ tx[w].added[t] = Rows(t, tx[w].gen)
                           /\ stored[d][t] \subseteq tx[w].removed[t]
  BY <1>1, <1>2 DEF WorkerOK, WorkerState
<1>4. St = Whole(tx[w].gen)
  BY <1>3 DEF Whole
<1>5. St \in [Tables -> SUBSET ContentRow] /\ St # Nothing /\ ContentIsWhole(St)
  <2>1. "chunks" \in Tables
    BY DEF Tables
  <2>2. <<0, tx[w].gen>> \in Rows("chunks", tx[w].gen)
    BY <1>2, <2>1, RowsOfGeneration
  <2>3. St["chunks"] # Nothing["chunks"]
    BY <1>4, <2>1, <2>2 DEF Whole, Nothing
  <2>4. \A t \in Tables : Rows(t, tx[w].gen) \in SUBSET ContentRow
    BY <1>2, RowsOfGeneration
  <2> QED
    BY <1>2, <1>4, <2>3, <2>4 DEF Whole, ContentIsWhole
<1> HIDE DEF St
<1>6. new \in Row \cup OldRow /\ new # NoRow
  <2>1. row[d] \in AnyRow
    BY <1>2, RowsAreAny DEF IInv, TypeOK
  <2>2. tx[w].obj \in JobRow /\ Transition(tx[w].obj, "ready_for_indexing") \in JobRow
    BY <1>1, <1>2, TransitionType DEF WorkerOK, Row, JobStatuses, FinalStatuses
  <2>3. new \in AnyRow
    BY <2>1, <2>2, AnyFlushedRow DEF Ready
  <2> QED
    BY <1>3, <2>3, FittingRow
<1> HIDE DEF new
<1>7. document[d] = "there"
  BY <1>2, <1>3 DEF IInv, RowsOK
<1>8. Idle \in WorkerState /\ Idle.pc = "idle"
  <2>1. Nothing \in [Tables -> SUBSET ContentRow]
    BY DEF Nothing
  <2> QED
    BY <2>1 DEF Idle, WorkerState, Row
<1>9. /\ tx' \in [Workers -> WorkerState]
      /\ tx'[w] = Idle /\ \A v \in Workers \ {w} : tx'[v] = tx[v]
  BY <1>1, <1>8 DEF Become, IInv, TypeOK
<1>10. /\ stored'[d] = St /\ \A e \in Docs \ {d} : stored'[e] = stored[e]
       /\ row'[d] = new /\ \A e \in Docs \ {d} : row'[e] = row[e]
  BY <1>1, <1>2 DEF IInv, TypeOK
<1>11. TypeOK'
  <2>1. /\ stored' \in [Docs -> [Tables -> SUBSET ContentRow]]
        /\ row' \in [Docs -> Row \cup OldRow]
    BY <1>1, <1>2, <1>5, <1>6 DEF IInv, TypeOK
  <2> QED
    BY <1>1, <1>8, <1>9, <2>1 DEF IInv, TypeOK, At
<1>12. RowsOK'
  BY <1>1, <1>3, <1>6, <1>7, <1>10 DEF IInv, RowsOK
<1>13. ContentOK'
  BY <1>1, <1>3, <1>5, <1>7, <1>10 DEF IInv, ContentOK
<1>14. ASSUME NEW v \in Workers
       PROVE  WorkerOK(tx'[v], stored'[tx'[v].doc], row'[tx'[v].doc], revision)
  <2>1. CASE v = w \/ tx[v].pc = "idle"
    BY <1>8, <1>9, <2>1 DEF WorkerOK
  <2>2. CASE v # w /\ tx[v].pc # "idle" /\ tx[v].doc # d
    BY <1>9, <1>10, <2>2, UnderWay
  <2>3. CASE v # w /\ tx[v].pc # "idle" /\ tx[v].doc = d
    <3>1. /\ WorkerOK(tx[v], stored[d], row[d], revision)
          /\ Apart(tx[v], tx[w])
          /\ tx[v] \in WorkerState
      BY <1>1, <1>2, <2>3, UnderWay DEF Together
    <3>2. tx[v].updated = FALSE
      BY <1>1, <1>2, <3>1 DEF Apart, WorkerState
    <3>3. \A t \in Tables : tx[v].added[t] = {}
      BY <1>1, <3>1 DEF Apart
    <3>4. \A t \in Tables : tx[v].removed[t] = {}
      BY <1>3, <2>3, <3>1 DEF Apart, WorkerOK
    <3>5. WorkerOK(tx[v], St, new, revision)
      BY <2>3, <3>1, <3>2, <3>3, <3>4 DEF WorkerOK
    <3> QED
      BY <1>9, <1>10, <2>3, <3>5
  <2> QED
    BY <2>1, <2>2, <2>3
<1>15. WorkersOK'
  BY <1>1, <1>14 DEF WorkersOK
<1>16. RivalsOK'
  BY <1>8, <1>9 DEF IInv, RivalsOK, Together
<1> QED
  BY <1>11, <1>12, <1>13, <1>15, <1>16 DEF IInv

-----------------------------------------------------------------------------
(***************************************************************************)
(* The API, the inspection script and the old application.                 *)
(***************************************************************************)
\* A document that comes brings its job, and meets no transaction's row.
LEMMA UploadKeeps ==
  ASSUME IInv, NEW d \in Docs, Upload(d)
  PROVE  IInv'
<1>1. QueuedRow \in Row /\ QueuedRow # NoRow /\ QueuedRow.status = "queued"
  BY QueuedRowType DEF Row, QueuedRow, NoRow
<1>2. row[d] = NoRow /\ stored[d] = Nothing
  BY DEF Upload, IInv, RowsOK, ContentOK
<1>3. /\ row' \in [Docs -> Row \cup OldRow]
      /\ document' \in [Docs -> {"none", "there", "gone"}]
      /\ document'[d] = "there"
      /\ row'[d] = IF revision = 3 THEN NoRow ELSE QueuedRow
      /\ \A e \in Docs \ {d} : row'[e] = row[e] /\ document'[e] = document[e]
  BY <1>1, <1>2 DEF Upload, IInv, TypeOK
<1>4. TypeOK'
  BY <1>3 DEF Upload, IInv, TypeOK, At
<1>5. RowsOK'
  <2>1. revision # 3 => revision \in 4..5
    BY DEF IInv, TypeOK
  <2> QED
    BY <1>1, <1>3, <2>1, QueuedRowFits DEF Upload, IInv, RowsOK
<1>6. ContentOK'
  BY <1>1, <1>2, <1>3 DEF Upload, IInv, ContentOK, NoRow
<1>7. WorkersOK'
  <2>1. ASSUME NEW w \in Workers
        PROVE  WorkerOK(tx[w], stored[tx[w].doc], row'[tx[w].doc], revision)
    <3>1. CASE tx[w].pc = "idle"
      BY <3>1 DEF WorkerOK
    <3>2. CASE tx[w].pc # "idle" /\ tx[w].doc # d
      BY <1>3, <3>2, UnderWay
    <3>3. CASE tx[w].pc # "idle" /\ tx[w].doc = d
      <4>1. tx[w].updated = FALSE
        BY <1>2, <3>3, UnderWay DEF WorkerOK, WorkerState
      <4> QED
        BY <3>3, <4>1, UnderWay DEF WorkerOK
    <3> QED
      BY <3>1, <3>2, <3>3
  <2> QED
    BY <2>1 DEF Upload, WorkersOK
<1>8. RivalsOK'
  BY DEF Upload, IInv, RivalsOK
<1> QED
  BY <1>4, <1>5, <1>6, <1>7, <1>8 DEF IInv

\* A retry leaves the content and queues the job.
LEMMA ResetKeeps ==
  ASSUME IInv, NEW d \in Docs, Reset(d)
  PROVE  IInv'
<1>1. row[d] # NoRow
  BY DEF Reset, NoRow
<1>2. row[d] \in AnyRow
  BY RowsAreAny DEF IInv, TypeOK
<1>3. ResetJob(row[d]) \in JobRow /\ Fits(5, ResetJob(row[d]))
  BY <1>2, ResetRow
<1>4. ResetJob(row[d]) \in AnyRow /\ ResetJob(row[d]).status = "queued"
  BY <1>2, <1>3, RowsAreAny DEF Row, ResetJob, Transition, AnyRow
<1> QED
  BY <1>1, <1>3, <1>4, RowOnlyStep DEF Reset

\* The old application keeps to the constraints of revision 4.
LEMMA OldApplicationKeeps ==
  ASSUME IInv, NEW d \in Docs, OldApplication(d)
  PROVE  IInv'
<1>1. PICK s \in OldStatuses, f \in FailureCodes \cup {"none"}, n \in 0..1,
           b \in BOOLEAN, c \in BOOLEAN :
        LET new == [status |-> s, attempts |-> n, failure |-> f, dispatched |-> b, completed |-> c]
        IN OldChecksHold(new) /\ row' = [row EXCEPT ![d] = new]
  BY DEF OldApplication
<1> DEFINE new == [status |-> s, attempts |-> n, failure |-> f, dispatched |-> b, completed |-> c]
<1>2. new \in AnyRow
  BY DEF AnyRow
<1>3. OldChecksHold(new) /\ row' = [row EXCEPT ![d] = new]
  BY <1>1
<1> HIDE DEF new
<1>4. /\ revision = 4 /\ row[d] # NoRow /\ RowFree(d)
      /\ UNCHANGED <<revision, document, stored, tx, view, used, migrations>>
  BY DEF OldApplication
<1>5. Fits(revision, new)
  BY <1>3, <1>4 DEF Fits
<1>6. revision = 5 => new.status # "ready_for_indexing"
  BY <1>4
<1>7. row' = [row EXCEPT ![d] = new]
  BY <1>3
<1> QED
  BY <1>2, <1>4, <1>5, <1>6, <1>7, RowOnlyStep

\* A deletion waits for the transactions that hold something of the document,
\* and takes everything.
LEMMA DeleteDocumentKeeps ==
  ASSUME IInv, NEW d \in Docs, DeleteDocument(d)
  PROVE  IInv'
<1>1. /\ row' \in [Docs -> Row \cup OldRow]
      /\ document' \in [Docs -> {"none", "there", "gone"}]
      /\ stored' \in [Docs -> [Tables -> SUBSET ContentRow]]
      /\ document'[d] = "gone" /\ row'[d] = NoRow /\ stored'[d] = Nothing
      /\ \A e \in Docs \ {d} :
           row'[e] = row[e] /\ document'[e] = document[e] /\ stored'[e] = stored[e]
  <2>1. NoRow \in Row /\ Nothing \in [Tables -> SUBSET ContentRow]
    BY DEF Row, Nothing
  <2> QED
    BY <2>1 DEF DeleteDocument, IInv, TypeOK
<1>2. TypeOK'
  BY <1>1 DEF DeleteDocument, IInv, TypeOK, At
<1>3. RowsOK'
  BY <1>1 DEF DeleteDocument, IInv, RowsOK
<1>4. ContentOK'
  BY <1>1 DEF DeleteDocument, IInv, ContentOK, ContentIsWhole, NoRow
<1>5. WorkersOK'
  <2>1. ASSUME NEW w \in Workers
        PROVE  WorkerOK(tx[w], stored'[tx[w].doc], row'[tx[w].doc], revision)
    <3>1. CASE tx[w].pc = "idle"
      BY <3>1 DEF WorkerOK
    <3>2. CASE tx[w].pc # "idle" /\ tx[w].doc # d
      BY <1>1, <3>2, UnderWay
    <3>3. CASE tx[w].pc # "idle" /\ tx[w].doc = d
      <4>1. /\ tx[w].updated = FALSE
            /\ \A t \in Tables : tx[w].removed[t] = {} /\ tx[w].added[t] = {}
        BY <3>3, UnderWay DEF DeleteDocument, Holds, Nothing, WorkerState
      <4>2. WorkerOK(tx[w], stored[d], row[d], revision)
        BY <3>3, UnderWay
      <4> QED
        BY <3>3, <4>1, <4>2 DEF WorkerOK
    <3> QED
      BY <3>1, <3>2, <3>3
  <2> QED
    BY <2>1 DEF DeleteDocument, WorkersOK
<1>6. RivalsOK'
  BY DEF DeleteDocument, IInv, RivalsOK
<1> QED
  BY <1>2, <1>3, <1>4, <1>5, <1>6 DEF IInv

InspectStep(i) ==
  (\E d \in Docs : InspectJob(i, d)) \/ InspectExtraction(i) \/ InspectChunks(i)

\* Reading changes nothing.
LEMMA InspectKeeps ==
  ASSUME IInv, NEW i \in Inspectors, InspectStep(i)
  PROVE  IInv'
<1> DEFINE Views == [pc : {"idle", "extraction", "chunks", "shown"}, doc : Docs \cup {NoDoc},
                     extraction : SUBSET ContentRow, chunks : SUBSET ContentRow]
<1>1. UNCHANGED <<revision, document, row, stored, tx, used, migrations>>
  BY DEF InspectStep, InspectJob, InspectExtraction, InspectChunks
<1>2. PICK x \in Views : view' = [view EXCEPT ![i] = x] /\ x.doc \in Docs
  <2>1. CASE \E d \in Docs : InspectJob(i, d)
    <3>1. PICK d \in Docs : InspectJob(i, d)
      BY <2>1
    <3>2. /\ [Unread EXCEPT !.pc = "extraction", !.doc = d] \in Views
          /\ [Unread EXCEPT !.pc = "extraction", !.doc = d].doc = d
      BY DEF Unread
    <3> QED
      BY <3>1, <3>2 DEF InspectJob
  <2>2. CASE InspectExtraction(i)
    <3> DEFINE x == [view[i] EXCEPT !.pc = "chunks",
                                    !.extraction = stored[view[i].doc]["extraction"]]
    <3>1. view[i] \in Views /\ view[i].doc \in Docs
      BY <2>2 DEF InspectExtraction, IInv, TypeOK
    <3>2. stored[view[i].doc]["extraction"] \in SUBSET ContentRow
      BY <3>1 DEF IInv, TypeOK, Tables
    <3>3. x \in Views /\ x.doc \in Docs
      BY <3>1, <3>2
    <3>4. view' = [view EXCEPT ![i] = x]
      BY <2>2 DEF InspectExtraction, IInv, TypeOK
    <3> QED
      BY <3>3, <3>4
  <2>3. CASE InspectChunks(i)
    <3> DEFINE x == [view[i] EXCEPT !.pc = "shown",
                                    !.chunks = stored[view[i].doc]["chunks"]]
    <3>1. view[i] \in Views /\ view[i].doc \in Docs
      BY <2>3 DEF InspectChunks, IInv, TypeOK
    <3>2. stored[view[i].doc]["chunks"] \in SUBSET ContentRow
      BY <3>1 DEF IInv, TypeOK, Tables
    <3>3. x \in Views /\ x.doc \in Docs
      BY <3>1, <3>2
    <3>4. view' = [view EXCEPT ![i] = x]
      BY <2>3 DEF InspectChunks, IInv, TypeOK
    <3> QED
      BY <3>3, <3>4
  <2> QED
    BY <2>1, <2>2, <2>3 DEF InspectStep
<1>3. TypeOK'
  BY <1>1, <1>2 DEF IInv, TypeOK, At
<1>4. RowsOK' /\ WorkersOK' /\ RivalsOK' /\ ContentOK'
  BY <1>1 DEF IInv, RowsOK, WorkersOK, RivalsOK, ContentOK
<1> QED
  BY <1>3, <1>4 DEF IInv

-----------------------------------------------------------------------------
(***************************************************************************)
(* Migrations.                                                             *)
(***************************************************************************)
MigrationStep == CreateJobs \/ DropJobs \/ CreateContent \/ DropContent

\* A migration meets no open transaction, and what it makes of the rows and
\* the content fits the revision it leads to.
LEMMA MigrationKeeps ==
  ASSUME IInv, MigrationStep
  PROVE  IInv'
<1>1. /\ Untouched
      /\ migrations' = migrations + 1
      /\ UNCHANGED <<document, tx, view, used>>
  BY DEF MigrationStep, CreateJobs, DropJobs, CreateContent, DropContent, Migrate
<1>2. \A d \in Docs : row[d] \in AnyRow
  BY RowsAreAny DEF IInv, TypeOK
<1>3. /\ revision' \in 3..5
      /\ row' \in [Docs -> Row \cup OldRow]
      /\ stored' \in [Docs -> [Tables -> SUBSET ContentRow]]
      /\ RowsOK' /\ ContentOK'
  <2>1. CASE CreateJobs
    <3>1. revision' = 4 /\ stored' = stored /\ document' = document /\ revision = 3
      BY <2>1 DEF CreateJobs, Migrate
    <3>2. QueuedRow \in Row /\ NoRow \in Row /\ QueuedRow # NoRow
      BY QueuedRowType DEF Row, QueuedRow, NoRow
    <3>3. row' \in [Docs -> Row \cup OldRow]
      BY <2>1, <3>2 DEF CreateJobs
    <3>4. RowsOK'
      BY <2>1, <3>1, <3>2, QueuedRowFits DEF CreateJobs, RowsOK
    <3>5. ContentOK'
      BY <3>1 DEF IInv, ContentOK
    <3> QED
      BY <3>1, <3>3, <3>4, <3>5 DEF IInv, TypeOK
  <2>2. CASE DropJobs
    <3>1. revision' = 3 /\ stored' = stored /\ document' = document /\ revision = 4
      BY <2>2 DEF DropJobs, Migrate
    <3>2. row' \in [Docs -> Row \cup OldRow] /\ \A d \in Docs : row'[d] = NoRow
      BY <2>2 DEF DropJobs, Row
    <3>3. RowsOK' /\ ContentOK'
      BY <3>1, <3>2 DEF IInv, RowsOK, ContentOK
    <3> QED
      BY <3>1, <3>2, <3>3 DEF IInv, TypeOK
  <2>3. CASE CreateContent
    <3>1. revision' = 5 /\ stored' = stored /\ document' = document /\ revision = 4
      BY <2>3 DEF CreateContent, Migrate
    <3>2. \A d \in Docs : row'[d] = Upgraded(row[d])
      BY <2>3 DEF CreateContent
    <3>3. ASSUME NEW d \in Docs
          PROVE  /\ row'[d] \in Row \cup OldRow
                 /\ row'[d] = NoRow <=> row[d] = NoRow
                 /\ row[d] # NoRow => Fits(5, row'[d])
                 /\ row'[d].status # "ready_for_indexing"
      <4>1. CASE row[d] = NoRow
        <5>1. row'[d] = NoRow
          BY <3>2, <4>1 DEF Upgraded, NoRow
        <5> QED
          BY <4>1, <5>1 DEF Row, NoRow
      <4>2. CASE row[d] # NoRow
        <5>1. Fits(4, row[d])
          BY <3>1, <4>2 DEF IInv, RowsOK
        <5>2. /\ Fits(5, row'[d]) /\ row'[d] \in AnyRow
              /\ row'[d].status # "ready_for_indexing"
          BY <1>2, <3>2, <5>1, RowsConvert
        <5> QED
          BY <4>2, <5>2, FittingRow
      <4> QED
        BY <4>1, <4>2
    <3>4. row' \in [Docs -> Row \cup OldRow]
      BY <2>3, <3>3 DEF CreateContent
    <3>5. RowsOK' /\ ContentOK'
      BY <3>1, <3>3 DEF IInv, RowsOK, ContentOK
    <3> QED
      BY <3>1, <3>4, <3>5 DEF IInv, TypeOK
  <2>4. CASE DropContent
    <3>1. revision' = 4 /\ document' = document /\ revision = 5
      BY <2>4 DEF DropContent, Migrate
    <3>2. \A d \in Docs : row'[d] = Downgraded(row[d]) /\ stored'[d] = Nothing
      BY <2>4 DEF DropContent
    <3>3. ASSUME NEW d \in Docs
          PROVE  /\ row'[d] \in Row \cup OldRow
                 /\ row'[d] = NoRow <=> row[d] = NoRow
                 /\ row[d] # NoRow => Fits(4, row'[d])
      <4>1. CASE row[d] = NoRow
        <5>1. row'[d] = NoRow
          <6>1. NoRow.status = "absent"
            BY DEF NoRow
          <6>2. Downgraded(NoRow) = NoRow
            BY <6>1 DEF Downgraded, ActiveStatuses
          <6> QED
            BY <3>2, <4>1, <6>2
        <5> QED
          BY <4>1, <5>1 DEF Row
      <4>2. CASE row[d] # NoRow
        <5>1. Fits(5, row[d])
          BY <3>1, <4>2 DEF IInv, RowsOK
        <5>2. Fits(4, row'[d]) /\ row'[d] \in AnyRow
          BY <1>2, <3>2, <5>1, RowsConvert
        <5> QED
          BY <4>2, <5>2, FittingRow
      <4> QED
        BY <4>1, <4>2
    <3>4. row' \in [Docs -> Row \cup OldRow]
      BY <2>4, <3>3 DEF DropContent
    <3>5. stored' \in [Docs -> [Tables -> SUBSET ContentRow]]
      BY <2>4 DEF DropContent, Nothing
    <3>6. RowsOK' /\ ContentOK'
      BY <3>1, <3>2, <3>3 DEF IInv, RowsOK, ContentOK, ContentIsWhole
    <3> QED
      BY <3>1, <3>4, <3>5, <3>6
  <2> QED
    BY <2>1, <2>2, <2>3, <2>4 DEF MigrationStep
<1>4. TypeOK'
  BY <1>1, <1>3 DEF IInv, TypeOK, At
<1>5. ASSUME NEW w \in Workers
      PROVE  WorkerOK(tx[w], stored'[tx[w].doc], row'[tx[w].doc], revision')
  <2>1. CASE tx[w].pc = "idle"
    BY <2>1 DEF WorkerOK
  <2>2. CASE tx[w].pc = "chunking"
    <3>1. WorkerOK(tx[w], stored[tx[w].doc], row[tx[w].doc], revision)
      BY <2>2, UnderWay
    <3> QED
      BY <2>2, <3>1, Unwritten DEF WorkerOK, Tables
  <2> QED
    BY <1>1, <2>1, <2>2 DEF Untouched
<1>6. WorkersOK'
  BY <1>1, <1>5 DEF WorkersOK
<1>7. RivalsOK'
  BY <1>1 DEF IInv, RivalsOK
<1> QED
  BY <1>3, <1>4, <1>6, <1>7 DEF IInv

-----------------------------------------------------------------------------
(***************************************************************************)
(* The theorems.                                                           *)
(***************************************************************************)
\* Every step keeps the invariant.
LEMMA NextKeeps == IInv /\ [Next]_vars => IInv'
<1> SUFFICES ASSUME IInv, [Next]_vars PROVE IInv'
  OBVIOUS
<1>1. ASSUME NEW w \in Workers, WorkerStep(w) PROVE IInv'
  <2>1. ASSUME NEW d \in Docs, Prepare(w, d) PROVE IInv'
    BY <2>1, PrepareKeeps
  <2>2. ASSUME NEW t \in Tables, Insert(w, t) PROVE IInv'
    BY <2>2, InsertKeeps
  <2> QED
    BY <1>1, <2>1, <2>2, GiveUpKeeps, LookKeeps, DeleteKeeps, UpdateKeeps, CommitKeeps,
       RollbackKeeps DEF WorkerStep
<1>2. ASSUME NEW d \in Docs, Upload(d) \/ Reset(d) \/ DeleteDocument(d) \/ OldApplication(d)
      PROVE  IInv'
  BY <1>2, UploadKeeps, ResetKeeps, DeleteDocumentKeeps, OldApplicationKeeps
<1>3. ASSUME NEW i \in Inspectors, InspectStep(i) PROVE IInv'
  BY <1>3, InspectKeeps
<1>4. CASE MigrationStep
  BY <1>4, MigrationKeeps
<1>5. CASE UNCHANGED vars
  <2>1. TypeOK'
    BY <1>5 DEF vars, IInv, TypeOK, At
  <2>2. RowsOK' /\ WorkersOK' /\ RivalsOK' /\ ContentOK'
    BY <1>5 DEF vars, IInv, RowsOK, WorkersOK, RivalsOK, ContentOK
  <2> QED
    BY <2>1, <2>2 DEF IInv
<1> QED
  BY <1>1, <1>2, <1>3, <1>4, <1>5 DEF Next, InspectStep, MigrationStep

\* The inductive invariant holds in every behaviour.
LEMMA Sound == Spec => []IInv
<1> QED
  BY InitInv, NextKeeps, PTL DEF Spec

\* The type invariant.
THEOREM ContentTypes == Spec => []TypeOK
<1>1. IInv => TypeOK
  BY DEF IInv
<1> QED
  BY <1>1, Sound, PTL

\* Without any help of the advisory lock, in every interleaving of workers,
\* deletions and migrations: the committed content of a document is one whole
\* generation or nothing (_replace_canonical_content).
THEOREM ContentStaysWhole == Spec => []ContentWhole
<1>1. IInv => ContentWhole
  BY DEF IInv, ContentOK, ContentIsWhole, ContentWhole
<1> QED
  BY <1>1, Sound, PTL

\* A ready job has content, and content a document that is there in a schema
\* that has its tables.
THEOREM ContentBelongs == Spec => [](ReadyHasContent /\ ContentHasDocument)
<1>1. IInv => ReadyHasContent /\ ContentHasDocument
  BY DEF IInv, ContentOK, ReadyHasContent, ContentHasDocument
<1> QED
  BY <1>1, Sound, PTL

\* From revision 4 on every document has its job, and no row stops the upgrade
\* to revision 5 or the downgrade from it (revision 0005).
THEOREM MigrationsNeverFail == Spec => [](EveryDocumentHasJob /\ MigrationsApply)
<1>1. IInv => EveryDocumentHasJob
  BY DEF IInv, RowsOK, EveryDocumentHasJob
<1>2. IInv => MigrationsApply
  <2> SUFFICES ASSUME IInv PROVE MigrationsApply
    OBVIOUS
  <2>1. ASSUME NEW d \in Docs, row[d] # NoRow
        PROVE  /\ revision = 4 => Fits(5, Upgraded(row[d]))
               /\ revision = 5 => Fits(4, Downgraded(row[d]))
    <3>1. row[d] \in AnyRow /\ Fits(revision, row[d])
      BY <2>1, RowsAreAny DEF IInv, TypeOK, RowsOK
    <3> QED
      BY <3>1, RowsConvert
  <2> QED
    BY <2>1 DEF MigrationsApply, Converts
<1> QED
  BY <1>1, <1>2, Sound, PTL
=============================================================================
