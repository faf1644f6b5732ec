--------------------------- MODULE JobQueueProofs ---------------------------
(***************************************************************************)
(* The queue, proved for any documents, workers, uploads and bounds: what  *)
(* a step does to a document row, and what follows from it alone; then the *)
(* inductive invariant, what the tables say of each other and what a       *)
(* worker may rely on at each place in _process_job.  From it: a waiting   *)
(* document has work, a cancelled job was superseded, and the queue        *)
(* implements RequestOutcome.                                              *)
(***************************************************************************)
EXTENDS JobQueueInvariant, EnhancementStoreProofs

-----------------------------------------------------------------------------
(* Typing. *)

\* A worker that has a job and keeps it, on its way anywhere but to a read.
LEMMA GotoType ==
    ASSUME TypeOK, NEW w \in Workers, HasJob(w),
           NEW label \in Labels \ {"idle", "reconcile", "control"}, Goto(w, label)
    PROVE  WorkersTypeOK'
BY DEF Goto, TypeOK, WorkersTypeOK, LocalsSet, HasJob

LEMMA DropType ==
    ASSUME TypeOK, NEW w \in Workers, Drop(w)
    PROVE  WorkersTypeOK'
BY StoreAssumption DEF Drop, TypeOK, WorkersTypeOK, LocalsSet, HasJob, Labels

LEMMA SameLocalsType ==
    ASSUME WorkersTypeOK, UNCHANGED workerVars
    PROVE  WorkersTypeOK'
BY DEF WorkersTypeOK, LocalsSet, HasJob, workerVars

LEMMA RequestStepType ==
    ASSUME TypeOK, RequestStep
    PROVE  TypeOK'
<1>1. ASSUME NEW d \in Docs, NEW r \in Requests, NEW type \in JobTypes,
             ApiRequest(d, r, type) \/ PortalRequest(d, r, type)
      PROVE  TypeOK'
  <2>1. FreshRequest(r) /\ UpsertDocumentAndEnqueue(d, r, type, "Queued")
    BY <1>1 DEF ApiRequest, PortalRequest, QueueRequest
  <2>2. StoreTypeOK'
    BY <2>1, FreshType, UpsertType DEF TypeOK, StoreTypeOK, DocStatuses
  <2> QED  BY <1>1, <2>2, SameLocalsType DEF ApiRequest, PortalRequest, TypeOK
<1>2. ASSUME NEW d \in Docs, NEW r \in Requests, TryoutCreate(d, r)
      PROVE  TypeOK'
  <2>1. docs' \in [Docs -> Document]
    BY <1>2, FreshType DEF TryoutCreate, TypeOK, StoreTypeOK, Document, DocStatuses
  <2> QED
    BY <1>2, <2>1, FreshType, SameLocalsType
    DEF TryoutCreate, TypeOK, StoreTypeOK
<1>3. ASSUME NEW d \in Docs, NEW r \in Requests, TryoutEnqueue(d, r)
      PROVE  TypeOK'
  <2>1. CASE jobs' = Enqueued(<<d, r, "upsert">>) /\ UNCHANGED <<docs, lastRequest>>
    <3>1. <<d, r, "upsert">> \in JobIds
      BY DEF JobIds, JobTypes
    <3> QED
      BY <1>3, <2>1, <3>1, EnqueuedType, SameLocalsType
      DEF TryoutEnqueue, TypeOK, StoreTypeOK
  <2>2. ASSUME NEW next \in Requests, QueueRequest(d, next, "upsert")
        PROVE  TypeOK'
    <3>1. StoreTypeOK'
      BY <2>2, FreshType, UpsertType
      DEF QueueRequest, TypeOK, StoreTypeOK, DocStatuses, JobTypes
    <3> QED  BY <1>3, <3>1, SameLocalsType DEF TryoutEnqueue, TypeOK
  <2> QED  BY <1>3, <2>1, <2>2 DEF TryoutEnqueue
<1> QED  BY <1>1, <1>2, <1>3 DEF RequestStep

LEMMA ReconcileStepType ==
    ASSUME TypeOK, NEW w \in Workers, ReconcileStep(w)
    PROVE  TypeOK'
<1>1. ASSUME NEW d \in Docs, ReconcileRead(w, d) PROVE TypeOK'
  <2>1. docs[d].request \in RequestIds
    BY DEF TypeOK, StoreTypeOK, Document
  <2>2. WorkersTypeOK'
    BY <1>1, <2>1 DEF ReconcileRead, TypeOK, WorkersTypeOK, LocalsSet, HasJob, Labels
  <2> QED
    BY <1>1, <2>2 DEF ReconcileRead, TypeOK, StoreTypeOK, storeVars
<1>2. ASSUME pc[w] = "reconcile" PROVE seen[w] \in Docs \X RequestIds
  BY <1>2 DEF TypeOK, WorkersTypeOK, LocalsSet
<1>3. CASE ReconcileSourceMissing(w)
  <2>1. docs' \in [Docs -> Document]
    BY <1>2, <1>3, OutcomeType DEF ReconcileSourceMissing, TypeOK, StoreTypeOK
  <2> QED
    BY <1>3, <2>1, DropType DEF ReconcileSourceMissing, TypeOK, StoreTypeOK
<1>4. ASSUME NEW r \in Requests, ReconcileRefresh(w, r) PROVE TypeOK'
  <2>1. StoreTypeOK'
    BY <1>2, <1>4, FreshType, UpsertType
    DEF ReconcileRefresh, QueueRefreshIfCurrent, TypeOK, StoreTypeOK, DocStatuses, JobTypes
  <2> QED  BY <1>4, <2>1, DropType DEF ReconcileRefresh, TypeOK
<1>5. CASE ReconcileSkip(w)
  BY <1>5, DropType DEF ReconcileSkip, TypeOK, StoreTypeOK, storeVars
<1> QED  BY <1>1, <1>3, <1>4, <1>5 DEF ReconcileStep

LEMMA ClaimStepType ==
    ASSUME TypeOK, NEW w \in Workers, Claim(w)
    PROVE  TypeOK'
<1>1. PICK j \in JobIds : /\ ClaimJob(w, j)
                          /\ job' = [job EXCEPT ![w] = j]
                          /\ attempt' = [attempt EXCEPT ![w] = NextAttempt(j)]
  BY DEF Claim
<1>2. jobs' \in [JobIds -> Job] /\ NextAttempt(j) \in 0..MaxAttempts
  BY <1>1, ClaimType DEF TypeOK
<1>3. WorkersTypeOK'
  BY <1>1, <1>2 DEF Claim, TypeOK, WorkersTypeOK, LocalsSet, HasJob, Labels
<1> QED  BY <1>2, <1>3 DEF Claim, TypeOK, StoreTypeOK

LEMMA WorkOnJobType ==
    ASSUME TypeOK, NEW w \in Workers, WorkOnJob(w)
    PROVE  TypeOK'
<1>1. TheDoc(w) \in Docs /\ TheRequest(w) \in RequestIds /\ HasJob(w)
  <2>1. HasJob(w)
    BY DEF WorkOnJob, HasJob, ReadDocument, ReadControl, Start, Mark, Process, Publish,
           Verify, Commit, Announce, Complete, Cancel, KnownError, JudgeError,
           RecordError, FailJob, Report, SetFailed
  <2>2. job[w] \in JobIds
    BY <2>1 DEF TypeOK, WorkersTypeOK, LocalsSet
  <2> QED
    BY <2>1, <2>2, StoreAssumption
    DEF TheDoc, TheRequest, DocOf, RequestOf, JobIds, Requests, RequestIds
<1>2. CASE ReadDocument(w)
  <2>1. docs[TheDoc(w)].request \in RequestIds
    BY <1>1 DEF TypeOK, StoreTypeOK, Document
  <2>2. WorkersTypeOK'
    BY <1>1, <1>2, <2>1
    DEF ReadDocument, TypeOK, WorkersTypeOK, LocalsSet, HasJob, Labels
  <2> QED
    BY <1>2, <2>2 DEF ReadDocument, TypeOK, StoreTypeOK, storeVars
<1>3. CASE ReadControl(w)
  <2>1. WorkersTypeOK'
    BY <1>3 DEF ReadControl, TypeOK, WorkersTypeOK, LocalsSet, HasJob, Labels
  <2> QED
    BY <1>3, <2>1 DEF ReadControl, TypeOK, StoreTypeOK, storeVars
<1>4. CASE \/ Start(w) \/ Mark(w) \/ Process(w) \/ Publish(w) \/ Verify(w)
           \/ Announce(w) \/ KnownError(w) \/ JudgeError(w) \/ Report(w) \/ SetFailed(w)
  <2>1. /\ \/ Drop(w)
           \/ \E label \in Labels \ {"idle", "reconcile", "control"} : Goto(w, label)
        /\ UNCHANGED <<storeVars, tryouts, faults>>
    BY <1>4 DEF Labels, Start, Mark, Process, Publish, Verify, Announce, KnownError,
                JudgeError, Report, SetFailed
  <2>2. WorkersTypeOK'
    BY <1>1, <2>1, GotoType, DropType
  <2> QED
    BY <2>1, <2>2 DEF TypeOK, StoreTypeOK, storeVars
<1>5. CASE Commit(w)
  <2>1. docs' \in [Docs -> Document]
    BY <1>1, <1>5, OutcomeType DEF Commit, TypeOK, StoreTypeOK
  <2>2. WorkersTypeOK'
    BY <1>1, <1>5, GotoType DEF Commit, Labels
  <2> QED
    BY <1>5, <2>1, <2>2 DEF Commit, TypeOK, StoreTypeOK
<1>6. CASE RecordError(w)
  <2>1. docs' \in [Docs -> Document]
    BY <1>1, <1>6, OutcomeType DEF RecordError, TypeOK, StoreTypeOK
  <2>2. WorkersTypeOK'
    BY <1>1, <1>6, GotoType, DropType DEF RecordError, Labels
  <2> QED
    BY <1>6, <2>1, <2>2 DEF RecordError, TypeOK, StoreTypeOK
<1>7. CASE Complete(w) \/ Cancel(w) \/ FailJob(w)
  <2>1. PICK status \in JobStatuses : CloseJob(w, job[w], attempt[w], status)
    BY <1>7 DEF Complete, Cancel, FailJob, JobStatuses
  <2>2. jobs' \in [JobIds -> Job]
    BY <2>1, CloseType DEF TypeOK
  <2>3. WorkersTypeOK'
    BY <1>1, <1>7, GotoType, DropType DEF Complete, Cancel, FailJob, Labels
  <2> QED
    BY <1>7, <2>2, <2>3 DEF Complete, Cancel, FailJob, TypeOK, StoreTypeOK
<1> QED  BY <1>2, <1>3, <1>4, <1>5, <1>6, <1>7 DEF WorkOnJob

LEMMA ExpireType ==
    ASSUME StoreTypeOK, NEW j \in JobIds, ExpireLease(j) \/ RetryJob(j)
    PROVE  jobs' \in [JobIds -> Job]
<1>1. CASE ExpireLease(j)
  BY <1>1 DEF ExpireLease, StoreTypeOK, Job
<1>2. CASE RetryJob(j)
  BY <1>2 DEF RetryJob, StoreTypeOK, Job, JobStatuses
<1> QED  BY <1>1, <1>2

LEMMA TimeAndFaultType ==
    ASSUME TypeOK, FaultStep \/ (\E j \in JobIds : AbandonedLeaseExpires(j))
    PROVE  TypeOK'
<1>1. ASSUME NEW w \in Workers, Crash(w) PROVE TypeOK'
  BY <1>1, DropType, QueueAssumption DEF Crash, TypeOK, StoreTypeOK, storeVars
<1>2. ASSUME NEW j \in JobIds,
             SlowLeaseExpires(j) \/ AdminRetry(j) \/ AbandonedLeaseExpires(j)
      PROVE  TypeOK'
  <2>1. jobs' \in [JobIds -> Job]
    BY <1>2, ExpireType DEF SlowLeaseExpires, AdminRetry, AbandonedLeaseExpires, TypeOK
  <2>2. WorkersTypeOK'
    BY <1>2, SameLocalsType DEF SlowLeaseExpires, AdminRetry, AbandonedLeaseExpires, TypeOK
  <2> QED
    BY <1>2, <2>1, <2>2, QueueAssumption
    DEF SlowLeaseExpires, AdminRetry, AbandonedLeaseExpires, TypeOK, StoreTypeOK
<1> QED  BY <1>1, <1>2 DEF FaultStep

\* A worker's step leaves the locals of the others alone.
LEMMA OtherWorker ==
    ASSUME TypeOK, NEW v \in Workers, NEW w \in Workers, v # w,
           Claim(v) \/ WorkOnJob(v) \/ ReconcileStep(v)
    PROVE  /\ pc'[w] = pc[w] /\ job'[w] = job[w]
           /\ attempt'[w] = attempt[w] /\ seen'[w] = seen[w]
<1> USE DEF TypeOK, WorkersTypeOK
<1>1. CASE Claim(v)
  BY <1>1 DEF Claim
<1>2. CASE ReadDocument(v) \/ ReadControl(v)
  BY <1>2 DEF ReadDocument, ReadControl
<1>3. ASSUME Drop(v) \/ \E label : Goto(v, label)
      PROVE  /\ pc'[w] = pc[w] /\ job'[w] = job[w]
             /\ attempt'[w] = attempt[w] /\ seen'[w] = seen[w]
  BY <1>3 DEF Drop, Goto
<1>4. ASSUME WorkOnJob(v), ~ReadDocument(v), ~ReadControl(v)
      PROVE  Drop(v) \/ \E label : Goto(v, label)
  BY <1>4 DEF WorkOnJob, Start, Mark, Process, Publish, Verify, Commit, Announce,
              Complete, Cancel, KnownError, JudgeError, RecordError, FailJob, Report,
              SetFailed
<1>5. CASE ReconcileStep(v)
  BY <1>3, <1>5 DEF ReconcileStep, ReconcileRead, ReconcileSourceMissing,
                    ReconcileRefresh, ReconcileSkip
<1> QED  BY <1>1, <1>2, <1>3, <1>4, <1>5

LEMMA TypingStep ==
    ASSUME TypeOK, [Next]_vars
    PROVE  TypeOK'
<1>1. CASE RequestStep
  BY <1>1, RequestStepType
<1>2. ASSUME NEW w \in Workers, Claim(w) \/ WorkOnJob(w) \/ ReconcileStep(w)
      PROVE  TypeOK'
  BY <1>2, ClaimStepType, WorkOnJobType, ReconcileStepType
<1>3. CASE FaultStep \/ (\E j \in JobIds : AbandonedLeaseExpires(j))
  BY <1>3, TimeAndFaultType
<1>4. CASE UNCHANGED vars
  BY <1>4, SameLocalsType DEF vars, storeVars, TypeOK, StoreTypeOK
<1> QED  BY <1>1, <1>2, <1>3, <1>4 DEF Next

LEMMA TypingInit == Init => TypeOK
BY StoreAssumption, QueueAssumption
DEF Init, StoreInit, TypeOK, StoreTypeOK, WorkersTypeOK, LocalsSet, HasJob, Labels,
    Document, DocStatuses, Job, JobStatuses, RequestIds, NoRequest

\* Every reachable state of the queue is typed, and each worker has the locals
\* its place in _process_job or reconcile_once uses: a job after the claim, the
\* document record after the read.
THEOREM Typing == Spec => []TypeOK
BY TypingInit, TypingStep, PTL DEF Spec

-----------------------------------------------------------------------------
(* What a step may do to a document row. *)

Submitted(d) ==
    /\ lastRequest' = lastRequest + 1
    /\ docs'[d].request = lastRequest'
    /\ docs'[d].status = "Queued"
    /\ docs'[d].processed = docs[d].processed
    /\ docs'[d].version = docs[d].version

Settled(d) ==
    /\ docs'[d].request = docs[d].request
    /\ docs'[d].processed = docs[d].request
    /\ \/ /\ docs'[d].status = "Ready" /\ docs'[d].desired = TRUE
          /\ docs'[d].version = docs[d].version + 1
       \/ /\ docs'[d].status = "NotEnabled" /\ docs'[d].desired = FALSE
          /\ docs'[d].version = docs[d].version

ErrorRecorded(d) ==
    /\ docs'[d].request = docs[d].request
    /\ docs'[d].processed = docs[d].processed
    /\ docs[d].processed # docs[d].request
    /\ docs'[d].status = "Failed"
    /\ docs'[d].desired = docs[d].desired
    /\ docs'[d].version = docs[d].version

RowChange(d) ==
    \/ docs'[d] = docs[d]
    \/ Submitted(d)
    \/ Settled(d)
    \/ ErrorRecorded(d)

\* Requests are submitted under ids handed out only once.
LEMMA RequestRows ==
    ASSUME TypeOK, RequestStep, NEW d \in Docs
    PROVE  RowChange(d) /\ lastRequest' \in {lastRequest, lastRequest + 1}
<1> USE DEF TypeOK, StoreTypeOK, Document
<1>1. ASSUME NEW e \in Docs, NEW r \in Requests, NEW type \in JobTypes,
             FreshRequest(r), UpsertDocumentAndEnqueue(e, r, type, "Queued")
      PROVE  RowChange(d) /\ lastRequest' = lastRequest + 1
  <2> DEFINE wanted == (type = "upsert")
  <2>1. docs' = [docs EXCEPT ![e].desired = wanted, ![e].status = "Queued",
                             ![e].request = r]
    BY <1>1 DEF UpsertDocumentAndEnqueue
  <2> HIDE DEF wanted
  <2>2. lastRequest' = r /\ r = lastRequest + 1
    BY <1>1 DEF FreshRequest
  <2>3. CASE e = d
    BY <2>1, <2>2, <2>3 DEF RowChange, Submitted
  <2>4. CASE e # d
    BY <2>1, <2>2, <2>4 DEF RowChange
  <2> QED  BY <2>2, <2>3, <2>4
<1>2. ASSUME NEW e \in Docs, NEW r \in Requests, NEW type \in JobTypes,
             ApiRequest(e, r, type) \/ PortalRequest(e, r, type)
      PROVE  RowChange(d) /\ lastRequest' = lastRequest + 1
  BY <1>1, <1>2 DEF ApiRequest, PortalRequest, QueueRequest
<1>3. ASSUME NEW e \in Docs, NEW r \in Requests, TryoutCreate(e, r)
      PROVE  RowChange(d) /\ lastRequest' = lastRequest + 1
  <2> DEFINE wanted == TRUE
  <2>1. docs' = [docs EXCEPT ![e].desired = wanted, ![e].status = "Queued",
                             ![e].request = r]
    BY <1>3 DEF TryoutCreate
  <2> HIDE DEF wanted
  <2>2. lastRequest' = r /\ r = lastRequest + 1
    BY <1>3 DEF TryoutCreate, FreshRequest
  <2>3. CASE e = d
    BY <2>1, <2>2, <2>3 DEF RowChange, Submitted
  <2>4. CASE e # d
    BY <2>1, <2>2, <2>4 DEF RowChange
  <2> QED  BY <2>2, <2>3, <2>4
<1>4. ASSUME NEW e \in Docs, NEW r \in Requests, TryoutEnqueue(e, r)
      PROVE  RowChange(d) /\ lastRequest' \in {lastRequest, lastRequest + 1}
  BY <1>1, <1>4 DEF TryoutEnqueue, QueueRequest, RowChange, JobTypes
<1> QED  BY <1>2, <1>3, <1>4 DEF RequestStep

\* Outcomes and errors are recorded for the request the row carries.
LEMMA OutcomeRows ==
    ASSUME TypeOK, NEW e \in Docs, NEW r \in RequestIds, RequestIsCurrent(e, r),
           \/ RecordSuccess(e, r)
           \/ RecordRemoved(e, r)
           \/ MayRecordError(e, r) /\ RecordDocumentError(e),
           NEW d \in Docs
    PROVE  RowChange(d)
<1> USE DEF TypeOK, StoreTypeOK, Document, RequestIsCurrent, RowChange
<1>1. CASE e # d
  BY <1>1 DEF RecordSuccess, RecordRemoved, RecordDocumentError
<1>2. CASE e = d /\ RecordSuccess(e, r)
  BY <1>2 DEF RecordSuccess, Settled
<1>3. CASE e = d /\ RecordRemoved(e, r)
  BY <1>3 DEF RecordRemoved, Settled
<1>4. CASE e = d /\ MayRecordError(e, r) /\ RecordDocumentError(e)
  BY <1>4 DEF MayRecordError, RecordDocumentError, ErrorRecorded
<1> QED  BY <1>1, <1>2, <1>3, <1>4

LEMMA WorkerRows ==
    ASSUME TypeOK, NEW w \in Workers, Claim(w) \/ WorkOnJob(w) \/ ReconcileStep(w),
           NEW d \in Docs
    PROVE  RowChange(d) /\ lastRequest' \in {lastRequest, lastRequest + 1}
<1>1. ASSUME HasJob(w) PROVE TheDoc(w) \in Docs /\ TheRequest(w) \in RequestIds
  BY <1>1, StoreAssumption
  DEF TypeOK, WorkersTypeOK, LocalsSet, TheDoc, TheRequest, DocOf, RequestOf, JobIds,
      Requests, RequestIds
<1>2. ASSUME pc[w] = "reconcile" PROVE seen[w] \in Docs \X RequestIds
  BY <1>2 DEF TypeOK, WorkersTypeOK, LocalsSet
<1>3. CASE Commit(w)
  BY <1>1, <1>3, OutcomeRows DEF Commit, MayCommit, StillCurrent, HasJob, RowChange
<1>4. CASE RecordError(w)
  BY <1>1, <1>4, OutcomeRows DEF RecordError, MayRecordError, HasJob, RowChange
<1>5. CASE ReconcileSourceMissing(w)
  BY <1>2, <1>5, OutcomeRows DEF ReconcileSourceMissing, RowChange
<1>6. ASSUME NEW r \in Requests, ReconcileRefresh(w, r)
      PROVE  RowChange(d) /\ lastRequest' \in {lastRequest, lastRequest + 1}
  <2> DEFINE e == seen[w][1]
             wanted == ("upsert" = "upsert")
  <2>1. docs' = [docs EXCEPT ![e].desired = wanted, ![e].status = "Queued",
                             ![e].request = r]
    BY <1>6 DEF ReconcileRefresh, QueueRefreshIfCurrent, UpsertDocumentAndEnqueue
  <2> HIDE DEF wanted
  <2>2. lastRequest' = r /\ r = lastRequest + 1 /\ e \in Docs
    BY <1>2, <1>6 DEF ReconcileRefresh, QueueRefreshIfCurrent, FreshRequest
  <2>3. CASE e = d
    BY <2>1, <2>2, <2>3 DEF RowChange, Submitted, TypeOK, StoreTypeOK, Document
  <2>4. CASE e # d
    BY <2>1, <2>2, <2>4 DEF RowChange, TypeOK, StoreTypeOK
  <2> QED  BY <2>2, <2>3, <2>4
<1>7. CASE \/ Claim(w) \/ ReadDocument(w) \/ ReadControl(w) \/ Start(w) \/ Mark(w)
           \/ Process(w) \/ Publish(w) \/ Verify(w) \/ Announce(w) \/ Complete(w)
           \/ Cancel(w) \/ KnownError(w) \/ JudgeError(w) \/ FailJob(w) \/ Report(w)
           \/ SetFailed(w) \/ ReconcileSkip(w) \/ \E e \in Docs : ReconcileRead(w, e)
  BY <1>7 DEF Claim, ReadDocument, ReadControl, Start, Mark, Process, Publish, Verify,
              Announce, Complete, Cancel, KnownError, JudgeError, FailJob, Report,
              SetFailed, ReconcileSkip, ReconcileRead, storeVars, RowChange
<1>8. ASSUME Commit(w) \/ RecordError(w) \/ ReconcileSourceMissing(w)
      PROVE  lastRequest' = lastRequest
  BY <1>8 DEF Commit, RecordError, ReconcileSourceMissing
<1> QED  BY <1>3, <1>4, <1>5, <1>6, <1>7, <1>8 DEF WorkOnJob, ReconcileStep

\* Every step of the system changes a row in one of four ways, or not at all.
LEMMA Rows ==
    ASSUME TypeOK, [Next]_vars, NEW d \in Docs
    PROVE  RowChange(d) /\ lastRequest' \in {lastRequest, lastRequest + 1}
<1>1. CASE RequestStep
  BY <1>1, RequestRows
<1>2. ASSUME NEW w \in Workers, Claim(w) \/ WorkOnJob(w) \/ ReconcileStep(w)
      PROVE  RowChange(d) /\ lastRequest' \in {lastRequest, lastRequest + 1}
  BY <1>2, WorkerRows
<1>3. CASE FaultStep \/ (\E j \in JobIds : AbandonedLeaseExpires(j)) \/ UNCHANGED vars
  BY <1>3 DEF FaultStep, Crash, SlowLeaseExpires, AdminRetry, AbandonedLeaseExpires,
              vars, storeVars, RowChange
<1> QED  BY <1>1, <1>2, <1>3 DEF Next

-----------------------------------------------------------------------------
(* Outcomes: what a document shows, and what a completed job means. *)

LEMMA OrderPreserved ==
    ASSUME TypeOK, RequestsInOrder, [Next]_vars
    PROVE  RequestsInOrder' /\ \A d \in Docs : docs'[d].processed >= docs[d].processed
<1> SUFFICES ASSUME NEW d \in Docs
             PROVE  /\ docs'[d].processed <= docs'[d].request
                    /\ docs'[d].request <= lastRequest'
                    /\ docs'[d].processed >= docs[d].processed
  BY DEF RequestsInOrder
<1>1. RowChange(d) /\ lastRequest' \in {lastRequest, lastRequest + 1}
  BY Rows
<1>2. /\ docs[d].processed \in Nat /\ docs[d].request \in Nat /\ lastRequest \in Nat
      /\ docs[d].processed <= docs[d].request /\ docs[d].request <= lastRequest
  BY StoreAssumption DEF RequestsInOrder, TypeOK, StoreTypeOK, Document, RequestIds
<1> QED
  BY <1>1, <1>2 DEF RowChange, Submitted, Settled, ErrorRecorded

LEMMA StatusPreserved ==
    ASSUME TypeOK, RequestsInOrder, StatusTellsTheOutcome, [Next]_vars
    PROVE  StatusTellsTheOutcome'
<1> DEFINE Told(d) ==
             /\ docs[d].status \in {"Ready", "NotEnabled"} =>
                  /\ docs[d].processed = docs[d].request
                  /\ docs[d].desired <=> docs[d].status = "Ready"
             /\ docs[d].status \in {"Queued", "Removing", "Failed"} =>
                  docs[d].processed # docs[d].request
<1> SUFFICES ASSUME NEW d \in Docs PROVE Told(d)'
  BY DEF StatusTellsTheOutcome
<1>1. RowChange(d)
  BY Rows
<1>2. Told(d)
  BY DEF StatusTellsTheOutcome
<1>3. CASE docs'[d] = docs[d]
  BY <1>2, <1>3
<1>4. CASE Submitted(d)
  <2>1. /\ docs[d].processed \in Nat /\ lastRequest \in Nat
        /\ docs[d].processed <= docs[d].request /\ docs[d].request <= lastRequest
        /\ docs[d].request \in Nat
    BY StoreAssumption DEF RequestsInOrder, TypeOK, StoreTypeOK, Document, RequestIds
  <2> QED  BY <1>4, <2>1 DEF Submitted
<1>5. CASE Settled(d)
  BY <1>5 DEF Settled
<1>6. CASE ErrorRecorded(d)
  BY <1>6 DEF ErrorRecorded
<1> QED  BY <1>1, <1>3, <1>4, <1>5, <1>6 DEF RowChange

\* A worker is past its commit only with the outcome on the row.
LEMMA CommittedPreserved ==
    ASSUME TypeOK, RequestsInOrder, [Next]_vars, NEW w \in Workers,
           CommittedBeforeComplete(w)
    PROVE  CommittedBeforeComplete(w)'
<1> USE DEF CommittedBeforeComplete
<1>1. \A d \in Docs : /\ docs'[d].processed >= docs[d].processed
                      /\ docs'[d].processed \in Nat /\ docs[d].processed \in Nat
  <2>1. TypeOK'
    BY TypingStep
  <2> QED
    BY <2>1, OrderPreserved, StoreAssumption
    DEF TypeOK, StoreTypeOK, Document, RequestIds
<1>2. ASSUME HasJob(w) PROVE TheDoc(w) \in Docs /\ TheRequest(w) \in Nat
  BY <1>2, StoreAssumption
  DEF TypeOK, WorkersTypeOK, LocalsSet, TheDoc, TheRequest, DocOf, RequestOf, JobIds,
      Requests
<1>3. CASE pc'[w] = pc[w] /\ job'[w] = job[w]
  BY <1>1, <1>2, <1>3 DEF HasJob, TheDoc, TheRequest
<1>4. CASE pc'[w] \notin {"announce", "complete"}
  BY <1>4
<1>5. CASE ReadDocument(w)
  <2>1. HasJob(w) /\ UNCHANGED <<docs, job>>
    BY <1>5 DEF ReadDocument, storeVars, HasJob
  <2>2. pc'[w] = "complete" => docs[TheDoc(w)].processed = TheRequest(w)
    BY <1>5, <2>1 DEF ReadDocument, TypeOK, WorkersTypeOK
  <2>3. pc'[w] # "announce"
    BY <1>5, <2>1 DEF ReadDocument, TypeOK, WorkersTypeOK
  <2> QED  BY <1>2, <2>1, <2>2, <2>3 DEF TheDoc, TheRequest
<1>6. CASE Commit(w)
  <2>1. HasJob(w) /\ job' = job
    BY <1>6 DEF Commit, HasJob, Goto
  <2>2. pc'[w] \in {"announce", "complete"} => MayCommit(w)
    BY <1>6 DEF Commit, Goto, TypeOK, WorkersTypeOK
  <2>3. MayCommit(w) => docs'[TheDoc(w)].processed = TheRequest(w)
    BY <1>2, <1>6, <2>1
    DEF Commit, RecordSuccess, RecordRemoved, TypeOK, StoreTypeOK, Document
  <2> QED  BY <1>2, <2>1, <2>2, <2>3 DEF TheDoc, TheRequest
<1>7. CASE Announce(w)
  BY <1>1, <1>2, <1>7 DEF Announce, Goto, HasJob, TheDoc, TheRequest, storeVars
<1>8. \/ pc'[w] = pc[w] /\ job'[w] = job[w]
      \/ pc'[w] \notin {"announce", "complete"}
      \/ ReadDocument(w) \/ Commit(w) \/ Announce(w)
  <2>1. ASSUME NEW v \in Workers, v # w, Claim(v) \/ WorkOnJob(v) \/ ReconcileStep(v)
        PROVE  pc'[w] = pc[w] /\ job'[w] = job[w]
    BY <2>1, OtherWorker
  <2>2. CASE Claim(w) \/ WorkOnJob(w) \/ ReconcileStep(w)
    BY <2>2 DEF Claim, WorkOnJob, ReadControl, Start, Mark, Process, Publish, Verify,
                Complete, Cancel, KnownError, JudgeError, RecordError, FailJob, Report,
                SetFailed, ReconcileStep, ReconcileRead, ReconcileSourceMissing,
                ReconcileRefresh, ReconcileSkip, Goto, Drop, TypeOK, WorkersTypeOK
  <2>3. CASE RequestStep
    BY <2>3 DEF RequestStep, ApiRequest, PortalRequest, TryoutCreate, TryoutEnqueue,
                workerVars
  <2>4. CASE FaultStep \/ (\E j \in JobIds : AbandonedLeaseExpires(j)) \/ UNCHANGED vars
    BY <2>4 DEF FaultStep, Crash, SlowLeaseExpires, AdminRetry, AbandonedLeaseExpires,
                Drop, vars, workerVars, TypeOK, WorkersTypeOK
  <2> QED  BY <2>1, <2>2, <2>3, <2>4 DEF Next
<1> QED  BY <1>3, <1>4, <1>5, <1>6, <1>7, <1>8

\* Only complete_job makes a job completed.
LEMMA CompletedJobs ==
    ASSUME TypeOK, [Next]_vars, NEW j \in JobIds, jobs'[j].status = "completed"
    PROVE  \/ jobs[j].status = "completed"
           \/ \E w \in Workers : Complete(w) /\ job[w] = j
<1> USE DEF TypeOK, StoreTypeOK, Job
<1>1. ASSUME NEW k \in JobIds, jobs' = Enqueued(k)
      PROVE  jobs[j].status = "completed"
  <2>1. CASE jobs[k].status # "absent"
    BY <1>1, <2>1 DEF Enqueued
  <2>2. CASE jobs[k].status = "absent"
    <3> DEFINE n == 1 + Cardinality({m \in JobIds : jobs[m].status # "absent"})
    <3>1. jobs' = [jobs EXCEPT ![k] = [status |-> "queued", attempts |-> 0,
                                       owner |-> None, leased |-> FALSE,
                                       queuedAt |-> n]]
      BY <1>1, <2>2 DEF Enqueued
    <3> HIDE DEF n
    <3> QED  BY <3>1
  <2> QED  BY <2>1, <2>2
<1>2. ASSUME NEW w, NEW k, NEW a, NEW status, status # "completed",
             CloseJob(w, k, a, status)
      PROVE  jobs[j].status = "completed"
  BY <1>2 DEF CloseJob
<1>3. CASE RequestStep
  <2>1. ASSUME NEW d \in Docs, NEW r \in Requests, NEW type \in JobTypes,
               ApiRequest(d, r, type) \/ PortalRequest(d, r, type)
        PROVE  jobs' = Enqueued(<<d, r, type>>) /\ <<d, r, type>> \in JobIds
    BY <2>1 DEF ApiRequest, PortalRequest, QueueRequest, UpsertDocumentAndEnqueue, JobIds
  <2>2. ASSUME NEW d \in Docs, NEW r \in Requests, TryoutCreate(d, r)
        PROVE  jobs' = jobs
    BY <2>2 DEF TryoutCreate
  <2>3. ASSUME NEW d \in Docs, NEW r \in Requests, TryoutEnqueue(d, r)
        PROVE  \E k \in JobIds : jobs' = Enqueued(k)
    <3>1. \A next \in Requests : <<d, next, "upsert">> \in JobIds
      BY DEF JobIds, JobTypes
    <3> QED
      BY <2>3, <3>1 DEF TryoutEnqueue, QueueRequest, UpsertDocumentAndEnqueue
  <2> QED  BY <1>1, <1>3, <2>1, <2>2, <2>3 DEF RequestStep
<1>4. ASSUME NEW w \in Workers, Claim(w) PROVE jobs[j].status = "completed"
  <2>1. PICK k \in JobIds : ClaimJob(w, k)
    BY <1>4 DEF Claim
  <2> DEFINE n == NextAttempt(k)
  <2>2. jobs' = [jobs EXCEPT ![k].status = "processing", ![k].attempts = n,
                             ![k].owner = w, ![k].leased = TRUE]
    BY <2>1 DEF ClaimJob
  <2> HIDE DEF n
  <2>3. j # k
    BY <2>2
  <2> QED  BY <2>2, <2>3
<1>5. ASSUME NEW w \in Workers, WorkOnJob(w), ~Complete(w)
      PROVE  jobs[j].status = "completed"
  <2>1. CASE Cancel(w)
    BY <1>2, <2>1 DEF Cancel
  <2>2. CASE FailJob(w)
    BY <1>2, <2>2 DEF FailJob
  <2>3. ASSUME ~Cancel(w), ~FailJob(w) PROVE jobs' = jobs
    BY <1>5, <2>3
    DEF WorkOnJob, ReadDocument, ReadControl, Start, Mark, Process, Publish, Verify,
        Commit, Announce, KnownError, JudgeError, RecordError, Report, SetFailed,
        storeVars
  <2> QED  BY <2>1, <2>2, <2>3
<1>6. ASSUME NEW w \in Workers, Complete(w), job[w] # j
      PROVE  jobs[j].status = "completed"
  BY <1>6 DEF Complete, CloseJob
<1>7. ASSUME NEW w \in Workers, ReconcileStep(w) PROVE jobs[j].status = "completed"
  <2>1. ASSUME NEW r \in Requests, ReconcileRefresh(w, r)
        PROVE  jobs[j].status = "completed"
    <3>1. seen[w] \in Docs \X RequestIds
      BY <2>1 DEF ReconcileRefresh, WorkersTypeOK, LocalsSet
    <3>2. <<seen[w][1], r, "upsert">> \in JobIds
      BY <3>1 DEF JobIds, JobTypes
    <3> QED
      BY <1>1, <2>1, <3>2
      DEF ReconcileRefresh, QueueRefreshIfCurrent, UpsertDocumentAndEnqueue
  <2> QED
    BY <1>7, <2>1
    DEF ReconcileStep, ReconcileRead, ReconcileSourceMissing, ReconcileSkip, storeVars
<1>8. CASE FaultStep \/ (\E k \in JobIds : AbandonedLeaseExpires(k)) \/ UNCHANGED vars
  <2>1. ASSUME NEW k \in JobIds, ExpireLease(k) \/ RetryJob(k)
        PROVE  jobs[j].status = "completed"
    <3>1. CASE ExpireLease(k)
      BY <3>1 DEF ExpireLease
    <3>2. CASE RetryJob(k)
      BY <3>2 DEF RetryJob
    <3> QED  BY <2>1, <3>1, <3>2
  <2> QED
    BY <1>8, <2>1
    DEF FaultStep, Crash, SlowLeaseExpires, AdminRetry, AbandonedLeaseExpires, vars,
        storeVars
<1> QED  BY <1>3, <1>4, <1>5, <1>6, <1>7, <1>8 DEF Next

LEMMA CompletedPreserved ==
    ASSUME OutcomeInv, [Next]_vars
    PROVE  CompletedMeansCommitted'
<1> SUFFICES ASSUME NEW j \in JobIds, jobs'[j].status = "completed"
             PROVE  docs'[DocOf(j)].processed >= RequestOf(j)
  BY DEF CompletedMeansCommitted
<1>1. docs[DocOf(j)].processed >= RequestOf(j)
  <2>1. CASE jobs[j].status = "completed"
    BY <2>1 DEF OutcomeInv, CompletedMeansCommitted
  <2>2. ASSUME NEW w \in Workers, Complete(w), job[w] = j
        PROVE  docs[DocOf(j)].processed >= RequestOf(j)
    BY <2>2 DEF OutcomeInv, CommittedBeforeComplete, Complete, TheDoc, TheRequest
  <2> QED  BY <2>1, <2>2, CompletedJobs DEF OutcomeInv
<1>2. TypeOK'
  BY TypingStep DEF OutcomeInv
<1>3. /\ DocOf(j) \in Docs /\ RequestOf(j) \in Nat
      /\ docs'[DocOf(j)].processed >= docs[DocOf(j)].processed
  BY OrderPreserved DEF OutcomeInv, JobIds, DocOf, RequestOf, Requests
<1> QED
  BY <1>1, <1>2, <1>3, StoreAssumption
  DEF OutcomeInv, TypeOK, StoreTypeOK, Document, RequestIds

\* What the reconciliation pass read stays settled until a newer request comes.
LEMMA ReconcilesPreserved ==
    ASSUME OutcomeInv, [Next]_vars, NEW w \in Workers
    PROVE  ReconcilesSettled(w)'
<1> USE DEF OutcomeInv, TypeOK, WorkersTypeOK
<1>1. SUFFICES ASSUME pc'[w] = "reconcile"
               PROVE  /\ seen'[w][1] \in SharePointDocs
                      /\ docs'[seen'[w][1]].status # "Absent"
                      /\ seen'[w][2] <= docs'[seen'[w][1]].request
                      /\ docs'[seen'[w][1]].request = seen'[w][2] =>
                           docs'[seen'[w][1]].processed = seen'[w][2]
  BY DEF ReconcilesSettled, Exists
<1>2. CASE pc[w] = "reconcile" /\ seen'[w] = seen[w]
  <2> DEFINE d == seen[w][1]
  <2>1. /\ d \in SharePointDocs /\ d \in Docs /\ docs[d].status # "Absent"
        /\ docs[d].request = seen[w][2] => docs[d].processed = seen[w][2]
    BY <1>2 DEF ReconcilesSettled, SharePointDocs, Exists
  <2>2. RowChange(d) /\ seen[w] \in Docs \X RequestIds
    BY <1>2, <2>1, Rows DEF LocalsSet
  <2>3. /\ seen[w][2] \in Nat /\ docs[d].request \in Nat /\ lastRequest \in Nat
        /\ docs[d].request <= lastRequest
    BY <2>1, <2>2, StoreAssumption
    DEF RequestsInOrder, StoreTypeOK, Document, RequestIds
  <2>4. seen[w][2] <= docs[d].request
    BY <1>2 DEF ReconcilesSettled
  <2> QED
    BY <1>2, <2>1, <2>2, <2>3, <2>4 DEF RowChange, Submitted, Settled, ErrorRecorded
<1>3. ASSUME NEW d \in Docs, ReconcileRead(w, d)
      PROVE  /\ seen'[w][1] \in SharePointDocs
             /\ docs'[seen'[w][1]].status # "Absent"
             /\ seen'[w][2] <= docs'[seen'[w][1]].request
             /\ docs'[seen'[w][1]].request = seen'[w][2] =>
                  docs'[seen'[w][1]].processed = seen'[w][2]
  <2>1. /\ seen'[w] = <<d, docs[d].request>> /\ docs' = docs /\ d \in SharePointDocs
        /\ docs[d].status # "Absent"
    BY <1>3 DEF ReconcileRead, storeVars
  <2>2. docs[d].processed = docs[d].request
    BY <1>3 DEF ReconcileRead, StatusTellsTheOutcome
  <2>3. docs[d].request \in Nat
    BY StoreAssumption DEF StoreTypeOK, Document, RequestIds
  <2> QED  BY <2>1, <2>2, <2>3
<1>4. (pc[w] = "reconcile" /\ seen'[w] = seen[w]) \/ \E d \in Docs : ReconcileRead(w, d)
  <2>1. ASSUME NEW v \in Workers, v # w, Claim(v) \/ WorkOnJob(v) \/ ReconcileStep(v)
        PROVE  pc'[w] = pc[w] /\ seen'[w] = seen[w]
    BY <2>1, OtherWorker
  <2>2. CASE Claim(w)
    BY <1>1, <2>2 DEF Claim
  <2>3. CASE WorkOnJob(w)
    BY <1>1, <2>3
    DEF WorkOnJob, ReadDocument, ReadControl, Start, Mark, Process, Publish, Verify,
        Commit, Announce, Complete, Cancel, KnownError, JudgeError, RecordError,
        FailJob, Report, SetFailed, Goto, Drop
  <2>4. CASE ReconcileStep(w)
    BY <1>1, <2>4
    DEF ReconcileStep, ReconcileSourceMissing, ReconcileRefresh, ReconcileSkip, Drop
  <2>5. CASE RequestStep
    BY <1>1, <2>5 DEF RequestStep, ApiRequest, PortalRequest, TryoutCreate,
                      TryoutEnqueue, workerVars
  <2>6. CASE FaultStep \/ (\E j \in JobIds : AbandonedLeaseExpires(j)) \/ UNCHANGED vars
    BY <1>1, <2>6 DEF FaultStep, Crash, SlowLeaseExpires, AdminRetry,
                      AbandonedLeaseExpires, Drop, vars, workerVars
  <2> QED  BY <1>1, <2>1, <2>2, <2>3, <2>4, <2>5, <2>6 DEF Next
<1> QED  BY <1>2, <1>3, <1>4

LEMMA OutcomeInvInit == Init => OutcomeInv
<1> SUFFICES ASSUME Init PROVE OutcomeInv
  OBVIOUS
<1>1. TypeOK
  BY TypingInit
<1> QED
  BY <1>1
  DEF Init, StoreInit, OutcomeInv, RequestsInOrder, StatusTellsTheOutcome,
      CompletedMeansCommitted, CommittedBeforeComplete, ReconcilesSettled, NoRequest

LEMMA OutcomeInvStep == OutcomeInv /\ [Next]_vars => OutcomeInv'
<1> SUFFICES ASSUME OutcomeInv, [Next]_vars PROVE OutcomeInv'
  OBVIOUS
<1>1. TypeOK'
  BY TypingStep DEF OutcomeInv
<1>2. RequestsInOrder'
  BY OrderPreserved DEF OutcomeInv
<1>3. StatusTellsTheOutcome'
  BY StatusPreserved DEF OutcomeInv
<1>4. CompletedMeansCommitted'
  BY CompletedPreserved
<1>5. ASSUME NEW w \in Workers PROVE CommittedBeforeComplete(w)' /\ ReconcilesSettled(w)'
  BY CommittedPreserved, ReconcilesPreserved DEF OutcomeInv
<1> QED  BY <1>1, <1>2, <1>3, <1>4, <1>5 DEF OutcomeInv

THEOREM OutcomeInvariant == Spec => []OutcomeInv
BY OutcomeInvInit, OutcomeInvStep, PTL DEF Spec

\* The status column never lies: a late error (record_document_error) cannot
\* overwrite an outcome, an outcome of a superseded request is never shown, and
\* Ready and NotEnabled agree with what the newest request asked for.
THEOREM StatusIsTheOutcome == Spec => []StatusTellsTheOutcome
BY OutcomeInvariant, PTL DEF OutcomeInv

\* complete_job is reached only after record_success or record_removed, by this
\* worker or by one before it, whatever crashes and leases do in between.
THEOREM CompletedIsCommitted == Spec => []CompletedMeansCommitted
BY OutcomeInvariant, PTL DEF OutcomeInv

\* Requests leave the outcomes alone, and so do time and faults.
LEMMA OutcomeWriters ==
    ASSUME TypeOK, [Next]_vars, NEW d \in Docs,
           docs'[d].processed # docs[d].processed
    PROVE  \E w \in Workers : Commit(w) \/ ReconcileSourceMissing(w)
<1> SUFFICES ASSUME \A w \in Workers : ~Commit(w) /\ ~ReconcileSourceMissing(w)
             PROVE  FALSE
  OBVIOUS
<1> USE DEF TypeOK, StoreTypeOK, Document
<1>1. ASSUME NEW e \in Docs, NEW r, NEW type, NEW status,
             UpsertDocumentAndEnqueue(e, r, type, status)
      PROVE  FALSE
  <2> DEFINE wanted == (type = "upsert")
  <2>1. docs' = [docs EXCEPT ![e].desired = wanted, ![e].status = status,
                             ![e].request = r]
    BY <1>1 DEF UpsertDocumentAndEnqueue
  <2> HIDE DEF wanted
  <2> QED  BY <2>1
<1>2. CASE RequestStep
  <2>1. ASSUME NEW e \in Docs, NEW r \in Requests, TryoutCreate(e, r) PROVE FALSE
    <3> DEFINE wanted == TRUE
    <3>1. docs' = [docs EXCEPT ![e].desired = wanted, ![e].status = "Queued",
                               ![e].request = r]
      BY <2>1 DEF TryoutCreate
    <3> HIDE DEF wanted
    <3> QED  BY <3>1
  <2> QED
    BY <1>1, <1>2, <2>1
    DEF RequestStep, ApiRequest, PortalRequest, TryoutEnqueue, QueueRequest
<1>3. ASSUME NEW w \in Workers, Claim(w) \/ WorkOnJob(w) PROVE FALSE
  <2>1. ~RecordError(w)
    BY DEF RecordError, RecordDocumentError
  <2> QED
    BY <1>3, <2>1
    DEF Claim, WorkOnJob, ReadDocument, ReadControl, Start, Mark, Process, Publish,
        Verify, Announce, Complete, Cancel, KnownError, JudgeError, FailJob, Report,
        SetFailed, storeVars
<1>4. ASSUME NEW w \in Workers, ReconcileStep(w) PROVE FALSE
  <2>1. ASSUME NEW r \in Requests, ReconcileRefresh(w, r) PROVE FALSE
    <3>1. seen[w][1] \in Docs
      BY <2>1 DEF ReconcileRefresh, WorkersTypeOK, LocalsSet
    <3> QED  BY <1>1, <2>1, <3>1 DEF ReconcileRefresh, QueueRefreshIfCurrent
  <2> QED
    BY <1>4, <2>1 DEF ReconcileStep, ReconcileRead, ReconcileSkip, storeVars
<1>5. CASE FaultStep \/ (\E j \in JobIds : AbandonedLeaseExpires(j)) \/ UNCHANGED vars
  BY <1>5 DEF FaultStep, Crash, SlowLeaseExpires, AdminRetry, AbandonedLeaseExpires,
              vars, storeVars
<1> QED  BY <1>2, <1>3, <1>4, <1>5 DEF Next

LEMMA OutcomeStepHasClaim ==
    ASSUME OutcomeInv, [Next]_vars, NEW d \in Docs,
           docs'[d].processed # docs[d].processed
    PROVE  \E w \in Workers :
               /\ Commit(w)
               /\ job[w] \in JobIds
               /\ TheDoc(w) = d
               /\ ClaimIsCurrent(w)
               /\ docs'[d].processed = TheRequest(w)
               /\ docs[d].request = TheRequest(w)
<1> USE DEF OutcomeInv, TypeOK, StoreTypeOK, Document, WorkersTypeOK
<1>1. PICK w \in Workers : Commit(w) \/ ReconcileSourceMissing(w)
  BY OutcomeWriters
<1>2. ~ReconcileSourceMissing(w)
  <2> SUFFICES ASSUME ReconcileSourceMissing(w) PROVE FALSE
    OBVIOUS
  <2>1. RequestIsCurrent(seen[w][1], seen[w][2]) /\ RecordRemoved(seen[w][1], seen[w][2])
    BY DEF ReconcileSourceMissing
  <2>2. docs[seen[w][1]].processed = seen[w][2]
    BY <2>1 DEF ReconcilesSettled, ReconcileSourceMissing, RequestIsCurrent
  <2> QED  BY <2>1, <2>2 DEF RecordRemoved
<1>3. Commit(w) /\ MayCommit(w) /\ job[w] \in JobIds
  BY <1>1, <1>2 DEF Commit, LocalsSet, HasJob
<1>4. TheDoc(w) = d /\ docs'[d].processed = TheRequest(w)
  <2>1. RecordSuccess(TheDoc(w), TheRequest(w)) \/ RecordRemoved(TheDoc(w), TheRequest(w))
    BY <1>3 DEF Commit
  <2> QED  BY <2>1 DEF RecordSuccess, RecordRemoved
<1> QED
  BY <1>3, <1>4 DEF MayCommit, StillCurrent, RequestIsCurrent

\* No zombie writes an outcome: record_success and record_removed go through only
\* for the worker whose claim of the document's newest request still holds.
THEOREM OutcomesAreClaimed == Spec => OutcomeByCurrentClaim
<1>1. OutcomeInv /\ [Next]_vars =>
        [\A d \in Docs :
           docs'[d].processed # docs[d].processed =>
             \E w \in Workers :
                 /\ job[w] \in JobIds
                 /\ TheDoc(w) = d
                 /\ ClaimIsCurrent(w)
                 /\ docs'[d].processed = TheRequest(w)
                 /\ docs[d].request = TheRequest(w)]_vars
  BY OutcomeStepHasClaim
<1> QED  BY <1>1, OutcomeInvariant, PTL DEF Spec, OutcomeByCurrentClaim

-----------------------------------------------------------------------------
(* What a step may do to a job row. *)

JobAdded(j) ==
    /\ ~Known(j)
    /\ jobs'[j].status = "queued"
    /\ jobs'[j].owner = None
    /\ \/ /\ Submitted(DocOf(j))
          /\ docs'[DocOf(j)].request = RequestOf(j)
          /\ docs'[DocOf(j)].desired <=> TypeOf(j) = "upsert"
       \/ /\ <<DocOf(j), RequestOf(j)>> \in tryouts
          /\ tryouts' = tryouts \ {<<DocOf(j), RequestOf(j)>>}
          /\ TypeOf(j) = "upsert"
          /\ docs' = docs

JobClaimed(w, j) ==
    /\ Known(j)
    /\ jobs'[j].status = "processing"
    /\ jobs'[j].owner = w
    /\ Claim(w)
    /\ job'[w] = j

JobClosed(w, j) ==
    /\ Known(j)
    /\ job[w] = j
    /\ ClaimIsCurrent(w)
    /\ jobs'[j].owner = None
    /\ docs' = docs
    /\ \/ Complete(w) /\ jobs'[j].status = "completed"
       \/ Cancel(w) /\ jobs'[j].status = "cancelled"
       \/ FailJob(w) /\ jobs'[j].status = "failed"

JobRetried(j) ==
    /\ Known(j)
    /\ jobs'[j].status = "queued"
    /\ jobs'[j].owner = None

JobExpired(j) ==
    /\ jobs'[j].status = jobs[j].status
    /\ jobs'[j].owner = jobs[j].owner
    /\ jobs'[j].attempts = jobs[j].attempts

JobChange(j) ==
    \/ jobs'[j] = jobs[j]
    \/ JobAdded(j)
    \/ \E w \in Workers : JobClaimed(w, j) \/ JobClosed(w, j)
    \/ JobRetried(j)
    \/ JobExpired(j)

\* upsert_document_and_enqueue under a fresh request id: one row of each table.
LEMMA UpsertRows ==
    ASSUME TypeOK, NEW e \in Docs, NEW r \in Requests, NEW type \in JobTypes,
           FreshRequest(r), UpsertDocumentAndEnqueue(e, r, type, "Queued")
    PROVE  /\ Submitted(e)
           /\ docs'[e].request = r
           /\ docs'[e].desired <=> type = "upsert"
           /\ \A d \in Docs \ {e} : docs'[d] = docs[d]
           /\ docs' = [docs EXCEPT ![e] = docs'[e]]
           /\ <<e, r, type>> \in JobIds
           /\ jobs' = Enqueued(<<e, r, type>>)
<1> USE DEF TypeOK, StoreTypeOK, Document
<1> DEFINE wanted == (type = "upsert")
<1>1. docs' = [docs EXCEPT ![e].desired = wanted, ![e].status = "Queued",
                           ![e].request = r]
  BY DEF UpsertDocumentAndEnqueue
<1>2. wanted \in BOOLEAN
  OBVIOUS
<1> HIDE DEF wanted
<1>3. lastRequest' = r /\ r = lastRequest + 1
  BY DEF FreshRequest
<1>4. docs'[e].desired = wanted
  BY <1>1, <1>2
<1>5. Submitted(e) /\ docs'[e].request = r
  BY <1>1, <1>3 DEF Submitted
<1>6. \A d \in Docs \ {e} : docs'[d] = docs[d]
  BY <1>1
<1>7. docs' = [docs EXCEPT ![e] = docs'[e]]
  BY <1>1
<1> QED  BY <1>4, <1>5, <1>6, <1>7 DEF UpsertDocumentAndEnqueue, JobIds, wanted

LEMMA UpsertJobRows ==
    ASSUME TypeOK, NEW e \in Docs, NEW r \in Requests, NEW type \in JobTypes,
           FreshRequest(r), UpsertDocumentAndEnqueue(e, r, type, "Queued"),
           NEW j \in JobIds
    PROVE  JobChange(j)
<1>1. /\ Submitted(e) /\ docs'[e].request = r
      /\ docs'[e].desired <=> type = "upsert"
      /\ <<e, r, type>> \in JobIds /\ jobs' = Enqueued(<<e, r, type>>)
  BY UpsertRows
<1>2. \/ jobs'[j] = jobs[j]
      \/ /\ j = <<e, r, type>> /\ ~Known(j)
         /\ jobs'[j].status = "queued" /\ jobs'[j].owner = None
  BY <1>1, EnqueuedRow DEF TypeOK, Known
<1> QED  BY <1>1, <1>2 DEF JobChange, JobAdded, DocOf, RequestOf, TypeOf

LEMMA RequestJobRows ==
    ASSUME TypeOK, RequestStep, NEW j \in JobIds
    PROVE  JobChange(j)
<1>1. ASSUME NEW e \in Docs, NEW r \in Requests, NEW type \in JobTypes,
             ApiRequest(e, r, type) \/ PortalRequest(e, r, type)
      PROVE  JobChange(j)
  BY <1>1, UpsertJobRows DEF ApiRequest, PortalRequest, QueueRequest
<1>2. ASSUME NEW e \in Docs, NEW r \in Requests, TryoutCreate(e, r)
      PROVE  JobChange(j)
  BY <1>2 DEF TryoutCreate, JobChange
<1>3. ASSUME NEW e \in Docs, NEW r \in Requests, TryoutEnqueue(e, r)
      PROVE  JobChange(j)
  <2>1. CASE jobs' = Enqueued(<<e, r, "upsert">>) /\ docs' = docs
    <3>1. <<e, r, "upsert">> \in JobIds
      BY DEF JobIds, JobTypes
    <3>2. \/ jobs'[j] = jobs[j]
          \/ /\ j = <<e, r, "upsert">> /\ ~Known(j)
             /\ jobs'[j].status = "queued" /\ jobs'[j].owner = None
      BY <2>1, <3>1, EnqueuedRow DEF TypeOK, Known
    <3>3. <<e, r>> \in tryouts /\ tryouts' = tryouts \ {<<e, r>>}
      BY <1>3 DEF TryoutEnqueue
    <3> QED
      BY <2>1, <3>2, <3>3 DEF JobChange, JobAdded, DocOf, RequestOf, TypeOf
  <2>2. ASSUME NEW next \in Requests, QueueRequest(e, next, "upsert")
        PROVE  JobChange(j)
    BY <2>2, UpsertJobRows DEF QueueRequest, JobTypes
  <2> QED  BY <1>3, <2>1, <2>2 DEF TryoutEnqueue
<1> QED  BY <1>1, <1>2, <1>3 DEF RequestStep

\* Closing changes the worker's own row, and only under a current claim.
LEMMA CloseJobRows ==
    ASSUME TypeOK, NEW w \in Workers, HasJob(w), NEW status \in JobStatuses,
           CloseJob(w, job[w], attempt[w], status), NEW j \in JobIds
    PROVE  \/ jobs'[j] = jobs[j]
           \/ /\ Known(j) /\ job[w] = j /\ ClaimIsCurrent(w)
              /\ jobs'[j].owner = None /\ jobs'[j].status = status
<1> USE DEF TypeOK, StoreTypeOK, Job, WorkersTypeOK, LocalsSet
<1>1. CASE ~ClaimIsCurrent(w)
  BY <1>1 DEF CloseJob, ClaimIsCurrent
<1>2. CASE ClaimIsCurrent(w)
  <2>1. jobs' = [jobs EXCEPT ![job[w]].status = status, ![job[w]].owner = None,
                             ![job[w]].leased = FALSE]
    BY <1>2 DEF CloseJob, ClaimIsCurrent
  <2>2. jobs[job[w]].status = "processing"
    BY <1>2 DEF ClaimIsCurrent, JobClaimIsCurrent
  <2> QED  BY <1>2, <2>1, <2>2 DEF Known
<1> QED  BY <1>1, <1>2

LEMMA WorkerJobRows ==
    ASSUME TypeOK, NEW w \in Workers, Claim(w) \/ WorkOnJob(w) \/ ReconcileStep(w),
           NEW j \in JobIds
    PROVE  JobChange(j)
<1> USE DEF TypeOK, StoreTypeOK, Job
<1>1. CASE Claim(w)
  <2>1. PICK k \in JobIds : ClaimJob(w, k) /\ job' = [job EXCEPT ![w] = k]
    BY <1>1 DEF Claim
  <2> DEFINE n == NextAttempt(k)
  <2>2. jobs' = [jobs EXCEPT ![k].status = "processing", ![k].attempts = n,
                             ![k].owner = w, ![k].leased = TRUE]
    BY <2>1 DEF ClaimJob
  <2> HIDE DEF n
  <2>3. jobs[k].status # "absent"
    BY <2>1 DEF ClaimJob, Oldest, Claimable
  <2>4. CASE j = k
    <3>1. jobs'[j].status = "processing" /\ jobs'[j].owner = w
      BY <2>2, <2>4
    <3> QED
      BY <1>1, <2>1, <2>3, <2>4, <3>1 DEF JobChange, JobClaimed, Known, WorkersTypeOK
  <2>5. CASE j # k
    BY <2>2, <2>5 DEF JobChange
  <2> QED  BY <2>4, <2>5
<1>2. CASE Complete(w)
  <2>1. HasJob(w) /\ CloseJob(w, job[w], attempt[w], "completed") /\ docs' = docs
    BY <1>2 DEF Complete, HasJob
  <2>2. "completed" \in JobStatuses
    BY DEF JobStatuses
  <2> QED  BY <1>2, <2>1, <2>2, CloseJobRows DEF JobChange, JobClosed
<1>3. CASE Cancel(w)
  <2>1. HasJob(w) /\ CloseJob(w, job[w], attempt[w], "cancelled") /\ docs' = docs
    BY <1>3 DEF Cancel, HasJob
  <2>2. "cancelled" \in JobStatuses
    BY DEF JobStatuses
  <2> QED  BY <1>3, <2>1, <2>2, CloseJobRows DEF JobChange, JobClosed
<1>4. CASE FailJob(w)
  <2>1. HasJob(w) /\ CloseJob(w, job[w], attempt[w], "failed") /\ docs' = docs
    BY <1>4 DEF FailJob, HasJob
  <2>2. "failed" \in JobStatuses
    BY DEF JobStatuses
  <2> QED  BY <1>4, <2>1, <2>2, CloseJobRows DEF JobChange, JobClosed
<1>5. CASE WorkOnJob(w) /\ ~Complete(w) /\ ~Cancel(w) /\ ~FailJob(w)
  BY <1>5
  DEF WorkOnJob, ReadDocument, ReadControl, Start, Mark, Process, Publish, Verify,
      Commit, Announce, KnownError, JudgeError, RecordError, Report, SetFailed,
      storeVars, JobChange
<1>6. CASE ReconcileStep(w)
  <2>1. ASSUME NEW r \in Requests, ReconcileRefresh(w, r) PROVE JobChange(j)
    <3>1. seen[w][1] \in Docs /\ "upsert" \in JobTypes
      BY <2>1 DEF ReconcileRefresh, WorkersTypeOK, LocalsSet, JobTypes
    <3>2. /\ FreshRequest(r)
          /\ UpsertDocumentAndEnqueue(seen[w][1], r, "upsert", "Queued")
      BY <2>1 DEF ReconcileRefresh, QueueRefreshIfCurrent
    <3> HIDE DEF TypeOK
    <3> QED  BY <3>1, <3>2, UpsertJobRows
  <2> QED
    BY <1>6, <2>1
    DEF ReconcileStep, ReconcileRead, ReconcileSourceMissing, ReconcileSkip, storeVars,
        JobChange
<1> QED  BY <1>1, <1>2, <1>3, <1>4, <1>5, <1>6

\* Every step of the system changes a job in one of five ways, or not at all.
LEMMA JobRows ==
    ASSUME TypeOK, [Next]_vars, NEW j \in JobIds
    PROVE  JobChange(j)
<1> USE DEF TypeOK, StoreTypeOK, Job
<1>1. CASE RequestStep
  BY <1>1, RequestJobRows
<1>2. ASSUME NEW w \in Workers, Claim(w) \/ WorkOnJob(w) \/ ReconcileStep(w)
      PROVE  JobChange(j)
  BY <1>2, WorkerJobRows
<1>3. ASSUME NEW k \in JobIds, ExpireLease(k) PROVE JobChange(j)
  BY <1>3 DEF ExpireLease, JobChange, JobExpired
<1>4. ASSUME NEW k \in JobIds, RetryJob(k) PROVE JobChange(j)
  BY <1>4 DEF RetryJob, JobChange, JobRetried, Known
<1>5. CASE (\E w \in Workers : Crash(w)) \/ UNCHANGED vars
  BY <1>5 DEF Crash, vars, storeVars, JobChange
<1> QED
  BY <1>1, <1>2, <1>3, <1>4, <1>5
  DEF Next, FaultStep, SlowLeaseExpires, AdminRetry, AbandonedLeaseExpires

-----------------------------------------------------------------------------
(* Facts the parts of the invariant share. *)

LEMMA SafeInvHasOutcomeInv == SafeInv => OutcomeInv
BY DEF SafeInv, OutcomeInv, TablesInv, WorkerInv

LEMMA Numbers ==
    ASSUME SafeInv
    PROVE  /\ lastRequest \in Nat
           /\ \A d \in Docs : /\ docs[d].request \in Nat /\ docs[d].processed \in Nat
                              /\ docs[d].processed <= docs[d].request
                              /\ docs[d].request <= lastRequest
           /\ \A j \in JobIds : DocOf(j) \in Docs /\ RequestOf(j) \in Nat
BY StoreAssumption
DEF SafeInv, TypeOK, StoreTypeOK, Document, RequestIds, TablesInv, RequestsInOrder, JobIds,
    DocOf, RequestOf, Requests

LEMMA RowOf ==
    ASSUME SafeInv, [Next]_vars, NEW d \in Docs
    PROVE  RowChange(d) /\ docs[d].request <= docs'[d].request
<1>1. RowChange(d)
  BY Rows DEF SafeInv
<1>2. /\ docs[d].request \in Nat /\ lastRequest \in Nat
      /\ docs[d].request <= lastRequest
  BY Numbers
<1> QED  BY <1>1, <1>2 DEF RowChange, Submitted, Settled, ErrorRecorded

\* A fresh request id is newer than every job and every tryout.
LEMMA FreshIsNew ==
    ASSUME SafeInv, NEW d \in Docs, Submitted(d)
    PROVE  /\ docs[d].request < docs'[d].request
           /\ docs[d].processed < docs'[d].request
           /\ \A j \in JobIds : Known(j) /\ DocOf(j) = d => RequestOf(j) < docs'[d].request
BY Numbers DEF Submitted, SafeInv, TablesInv, JobsBelong

LEMMA JobOf ==
    ASSUME SafeInv, [Next]_vars, NEW j \in JobIds
    PROVE  JobChange(j) /\ (Known(j) => Known(j)')
<1>1. JobChange(j)
  BY JobRows DEF SafeInv
<1> QED
  BY <1>1 DEF JobChange, JobAdded, JobClaimed, JobClosed, JobRetried, JobExpired, Known

LEMMA TryoutsChange ==
    ASSUME [Next]_vars
    PROVE  /\ \A p \in tryouts' \ tryouts :
                \E d \in Docs, r \in Requests : p = <<d, r>> /\ TryoutCreate(d, r)
           /\ \A p \in tryouts \ tryouts' :
                \E d \in Docs, r \in Requests : p = <<d, r>> /\ TryoutEnqueue(d, r)
<1>1. CASE RequestStep
  <2>1. ASSUME NEW d \in Docs, NEW r \in Requests, NEW type \in JobTypes,
               ApiRequest(d, r, type) \/ PortalRequest(d, r, type)
        PROVE  tryouts' = tryouts
    BY <2>1 DEF ApiRequest, PortalRequest
  <2>2. ASSUME NEW d \in Docs, NEW r \in Requests, TryoutCreate(d, r)
        PROVE  tryouts' = tryouts \cup {<<d, r>>}
    BY <2>2 DEF TryoutCreate
  <2>3. ASSUME NEW d \in Docs, NEW r \in Requests, TryoutEnqueue(d, r)
        PROVE  tryouts' = tryouts \ {<<d, r>>}
    BY <2>3 DEF TryoutEnqueue
  <2> QED  BY <1>1, <2>1, <2>2, <2>3 DEF RequestStep
<1>2. ASSUME NEW w \in Workers, Claim(w) \/ WorkOnJob(w) \/ ReconcileStep(w)
      PROVE  tryouts' = tryouts
  BY <1>2
  DEF Claim, WorkOnJob, ReadDocument, ReadControl, Start, Mark, Process, Publish, Verify,
      Commit, Announce, Complete, Cancel, KnownError, JudgeError, RecordError, FailJob,
      Report, SetFailed, ReconcileStep, ReconcileRead, ReconcileSourceMissing,
      ReconcileRefresh, ReconcileSkip
<1>3. CASE FaultStep \/ (\E j \in JobIds : AbandonedLeaseExpires(j)) \/ UNCHANGED vars
  BY <1>3 DEF FaultStep, Crash, SlowLeaseExpires, AdminRetry, AbandonedLeaseExpires, vars
<1> QED  BY <1>1, <1>2, <1>3 DEF Next

\* A tryout that leaves the page is enqueued, or replaced by a newer request.
LEMMA TryoutLeaves ==
    ASSUME SafeInv, NEW d \in Docs, NEW r \in Requests, TryoutEnqueue(d, r)
    PROVE  \/ /\ docs' = docs
              /\ <<d, r, "upsert">> \in JobIds
              /\ jobs' = Enqueued(<<d, r, "upsert">>)
           \/ Submitted(d)
<1>1. "upsert" \in JobTypes /\ TypeOK
  BY DEF JobTypes, SafeInv
<1>2. ASSUME NEW next \in Requests, QueueRequest(d, next, "upsert") PROVE Submitted(d)
  BY <1>1, <1>2, UpsertRows DEF QueueRequest
<1> QED  BY <1>1, <1>2 DEF TryoutEnqueue, JobIds

\* Who submits: the request's job is enqueued with the row, or the tryout page
\* will enqueue it.
LEMMA SubmittedBy ==
    ASSUME SafeInv, [Next]_vars, NEW d \in Docs, Submitted(d)
    PROVE  \/ \E type \in JobTypes : /\ <<d, docs'[d].request, type>> \in JobIds
                                     /\ jobs' = Enqueued(<<d, docs'[d].request, type>>)
           \/ <<d, docs'[d].request>> \in tryouts'
<1> DEFINE Goal == \/ \E type \in JobTypes :
                        /\ <<d, docs'[d].request, type>> \in JobIds
                        /\ jobs' = Enqueued(<<d, docs'[d].request, type>>)
                   \/ <<d, docs'[d].request>> \in tryouts'
<1> SUFFICES Goal
  OBVIOUS
<1>1. TypeOK /\ docs'[d] # docs[d]
  BY FreshIsNew, Numbers DEF SafeInv
<1>2. ASSUME NEW e \in Docs, NEW r \in Requests, NEW type \in JobTypes,
             FreshRequest(r), UpsertDocumentAndEnqueue(e, r, type, "Queued")
      PROVE  Goal
  <2>1. /\ docs'[e].request = r /\ <<e, r, type>> \in JobIds
        /\ jobs' = Enqueued(<<e, r, type>>)
        /\ \A x \in Docs \ {e} : docs'[x] = docs[x]
    BY <1>1, <1>2, UpsertRows
  <2> QED  BY <1>1, <2>1
<1>3. ASSUME NEW e \in Docs, NEW r \in Requests, TryoutCreate(e, r) PROVE Goal
  <2> DEFINE wanted == TRUE
  <2>1. docs' = [docs EXCEPT ![e].desired = wanted, ![e].status = "Queued",
                             ![e].request = r]
    BY <1>3 DEF TryoutCreate
  <2> HIDE DEF wanted
  <2>2. e = d /\ docs'[e].request = r
    BY <1>1, <2>1 DEF TypeOK, StoreTypeOK, Document
  <2> QED  BY <1>3, <2>2 DEF TryoutCreate
<1>4. CASE RequestStep
  <2>1. "upsert" \in JobTypes
    BY DEF JobTypes
  <2>2. ASSUME NEW e \in Docs, NEW r \in Requests, TryoutEnqueue(e, r) PROVE Goal
    BY <1>1, <1>2, <2>1, <2>2 DEF TryoutEnqueue, QueueRequest
  <2>3. ASSUME NEW e \in Docs, NEW r \in Requests, NEW type \in JobTypes,
               ApiRequest(e, r, type) \/ PortalRequest(e, r, type)
        PROVE  Goal
    BY <1>2, <2>3 DEF ApiRequest, PortalRequest, QueueRequest
  <2> HIDE DEF Goal
  <2> QED
    BY <1>3, <1>4, <2>2, <2>3 DEF RequestStep
<1>5. ASSUME NEW w \in Workers, Claim(w) \/ WorkOnJob(w) \/ ReconcileStep(w)
      PROVE  Goal
  <2>1. ~Claim(w) /\ ~Commit(w) /\ ~RecordError(w) /\ ~ReconcileSourceMissing(w)
    BY Numbers DEF Submitted, Claim, Commit, RecordError, ReconcileSourceMissing
  <2>2. ~WorkOnJob(w)
    BY <1>1, <2>1
    DEF WorkOnJob, ReadDocument, ReadControl, Start, Mark, Process, Publish, Verify,
        Announce, Complete, Cancel, KnownError, JudgeError, FailJob, Report, SetFailed,
        storeVars
  <2>3. PICK r \in Requests : ReconcileRefresh(w, r)
    BY <1>1, <1>5, <2>1, <2>2
    DEF ReconcileStep, ReconcileRead, ReconcileSkip, storeVars
  <2>4. seen[w][1] \in Docs /\ "upsert" \in JobTypes
    BY <1>1, <2>3 DEF ReconcileRefresh, TypeOK, WorkersTypeOK, LocalsSet, JobTypes
  <2> QED
    BY <1>2, <2>3, <2>4 DEF ReconcileRefresh, QueueRefreshIfCurrent
<1>6. ~FaultStep /\ ~(\E j \in JobIds : AbandonedLeaseExpires(j)) /\ ~UNCHANGED vars
  BY <1>1
  DEF FaultStep, Crash, SlowLeaseExpires, AdminRetry, AbandonedLeaseExpires, vars,
      storeVars
<1> QED  BY <1>4, <1>5, <1>6 DEF Next

-----------------------------------------------------------------------------
(* The tables. *)

LEMMA JobsBelongStep ==
    ASSUME SafeInv, [Next]_vars
    PROVE  JobsBelong'
<1> SUFFICES ASSUME NEW j \in JobIds, Known(j)'
             PROVE  RequestOf(j) <= docs'[DocOf(j)].request
  BY DEF JobsBelong
<1>1. /\ DocOf(j) \in Docs /\ RequestOf(j) \in Nat
      /\ docs[DocOf(j)].request \in Nat
  BY Numbers
<1>2. RowChange(DocOf(j)) /\ docs[DocOf(j)].request <= docs'[DocOf(j)].request
  BY <1>1, RowOf
<1>3. docs'[DocOf(j)].request \in Nat
  <2>1. TypeOK'
    BY TypingStep DEF SafeInv
  <2> QED
    BY <1>1, <2>1, StoreAssumption DEF TypeOK, StoreTypeOK, Document, RequestIds
<1>4. CASE Known(j)
  BY <1>1, <1>2, <1>3, <1>4 DEF SafeInv, TablesInv, JobsBelong
<1>5. CASE ~Known(j)
  <2>1. JobAdded(j)
    BY <1>5, JobOf
    DEF JobChange, JobClaimed, JobClosed, JobRetried, JobExpired, Known
  <2>2. ASSUME <<DocOf(j), RequestOf(j)>> \in tryouts
        PROVE  RequestOf(j) <= docs[DocOf(j)].request
    BY <2>2 DEF SafeInv, TablesInv, TryoutsWait
  <2> QED  BY <1>1, <1>3, <2>1, <2>2 DEF JobAdded
<1> QED  BY <1>4, <1>5

\* What a new job knows of its request: it is the first of it, of its type.
LEMMA AddedJobs ==
    ASSUME SafeInv, [Next]_vars, NEW j \in JobIds, ~Known(j), Known(j)'
    PROVE  /\ JobAdded(j)
           /\ \A k \in JobIds :
                DocOf(k) = DocOf(j) /\ RequestOf(k) = RequestOf(j) => ~Known(k)
<1>1. JobAdded(j)
  BY JobOf DEF JobChange, JobClaimed, JobClosed, JobRetried, JobExpired, Known
<1>2. DocOf(j) \in Docs /\ \A k \in JobIds : RequestOf(k) \in Nat
  BY Numbers
<1>3. CASE Submitted(DocOf(j)) /\ docs'[DocOf(j)].request = RequestOf(j)
  <2>1. \A k \in JobIds : Known(k) /\ DocOf(k) = DocOf(j) => RequestOf(k) < RequestOf(j)
    BY <1>2, <1>3, FreshIsNew
  <2> QED  BY <1>1, <1>2, <2>1
<1>4. CASE <<DocOf(j), RequestOf(j)>> \in tryouts
  BY <1>1, <1>4 DEF SafeInv, TablesInv, TryoutsWait
<1> QED  BY <1>1, <1>3, <1>4 DEF JobAdded

LEMMA JobIdentity ==
    ASSUME NEW j \in JobIds, NEW k \in JobIds,
           DocOf(j) = DocOf(k), RequestOf(j) = RequestOf(k), TypeOf(j) = TypeOf(k)
    PROVE  j = k
<1>1. j = <<j[1], j[2], j[3]>> /\ k = <<k[1], k[2], k[3]>>
  BY DEF JobIds
<1>2. j[1] = k[1] /\ j[2] = k[2] /\ j[3] = k[3]
  BY DEF DocOf, RequestOf, TypeOf
<1> QED  BY <1>1, <1>2, Zenon

LEMMA OneTypeStep ==
    ASSUME SafeInv, [Next]_vars
    PROVE  OneTypePerRequest'
<1> SUFFICES ASSUME NEW j \in JobIds, NEW k \in JobIds, Known(j)', Known(k)',
                    DocOf(j) = DocOf(k), RequestOf(j) = RequestOf(k)
             PROVE  j = k
  BY DEF OneTypePerRequest
<1>1. CASE Known(j) /\ Known(k)
  BY <1>1 DEF SafeInv, TablesInv, OneTypePerRequest
<1>2. CASE (~Known(j) /\ Known(k)) \/ (Known(j) /\ ~Known(k))
  BY <1>2, AddedJobs
<1>3. CASE ~Known(j) /\ ~Known(k)
  <2>1. JobAdded(j) /\ JobAdded(k)
    BY <1>3, AddedJobs
  <2>2. TypeOf(j) \in JobTypes /\ TypeOf(k) \in JobTypes /\ DocOf(j) \in Docs
    BY DEF JobIds, TypeOf, DocOf
  <2>3. Submitted(DocOf(j)) => docs' # docs
    BY <2>2, FreshIsNew, Numbers
  <2>4. TypeOf(j) = "upsert" <=> TypeOf(k) = "upsert"
    BY <2>1, <2>3 DEF JobAdded
  <2>5. TypeOf(j) = TypeOf(k)
    BY <2>2, <2>4 DEF JobTypes
  <2> QED  BY <2>5, JobIdentity
<1> QED  BY <1>1, <1>2, <1>3

LEMMA DesiredStep ==
    ASSUME SafeInv, [Next]_vars
    PROVE  DesiredTellsTheType'
<1> SUFFICES ASSUME NEW j \in JobIds, Known(j)', RequestOf(j) = docs'[DocOf(j)].request,
                    docs'[DocOf(j)].processed # RequestOf(j)
             PROVE  docs'[DocOf(j)].desired <=> TypeOf(j) = "upsert"
  BY DEF DesiredTellsTheType
<1> DEFINE d == DocOf(j)
<1>1. d \in Docs /\ RequestOf(j) \in Nat
  BY Numbers
<1>2. RowChange(d)
  BY <1>1, RowOf
<1>3. CASE Submitted(d)
  <2>1. ~Known(j)
    BY <1>1, <1>3, FreshIsNew
  <2>2. docs' # docs
    BY <1>1, <1>3, FreshIsNew, Numbers
  <2> QED  BY <2>1, <2>2, AddedJobs DEF JobAdded
<1>4. CASE docs'[d] = docs[d] \/ ErrorRecorded(d)
  <2>1. /\ docs'[d].desired = docs[d].desired /\ docs'[d].request = docs[d].request
        /\ docs'[d].processed = docs[d].processed
    BY <1>4 DEF ErrorRecorded
  <2>2. CASE Known(j)
    BY <2>1, <2>2 DEF SafeInv, TablesInv, DesiredTellsTheType
  <2>3. CASE ~Known(j)
    <3>1. ~Submitted(d)
      BY <1>1, <2>1, FreshIsNew, Numbers
    <3>2. <<d, RequestOf(j)>> \in tryouts /\ TypeOf(j) = "upsert"
      BY <2>3, <3>1, AddedJobs DEF JobAdded
    <3>3. docs[d].desired
      BY <2>1, <3>2 DEF SafeInv, TablesInv, TryoutsWait
    <3> QED  BY <2>1, <3>2, <3>3
  <2> QED  BY <2>2, <2>3
<1>5. ~Settled(d)
  BY DEF Settled
<1> QED  BY <1>2, <1>3, <1>4, <1>5 DEF RowChange

LEMMA TryoutsStep ==
    ASSUME SafeInv, [Next]_vars
    PROVE  TryoutsWait'
<1> SUFFICES ASSUME NEW p \in tryouts'
             PROVE  /\ p[1] \in Uploads
                    /\ p[2] <= docs'[p[1]].request
                    /\ \A j \in JobIds :
                         DocOf(j) = p[1] /\ RequestOf(j) = p[2] => ~Known(j)'
                    /\ docs'[p[1]].request = p[2] =>
                         docs'[p[1]].desired /\ docs'[p[1]].processed # p[2]
  BY DEF TryoutsWait
<1>1. CASE p \in tryouts
  <2> DEFINE d == p[1]
  <2>1. /\ p[1] \in Uploads /\ p[2] <= docs[d].request
        /\ \A j \in JobIds : DocOf(j) = d /\ RequestOf(j) = p[2] => ~Known(j)
        /\ docs[d].request = p[2] => docs[d].desired /\ docs[d].processed # p[2]
    BY <1>1 DEF SafeInv, TablesInv, TryoutsWait
  <2>2. d \in Docs /\ p = <<d, p[2]>> /\ p[2] \in Nat
    BY <1>1, <2>1, QueueAssumption DEF SafeInv, TypeOK, Requests
  <2>3. RowChange(d) /\ docs[d].request <= docs'[d].request
    BY <2>2, RowOf
  <2>4. docs[d].request \in Nat /\ docs'[d].request \in Nat
    <3>1. TypeOK'
      BY TypingStep DEF SafeInv
    <3> QED
      BY <2>2, <3>1, Numbers, StoreAssumption DEF TypeOK, StoreTypeOK, Document, RequestIds
  <2>5. ASSUME NEW j \in JobIds, DocOf(j) = d, RequestOf(j) = p[2], Known(j)'
        PROVE  FALSE
    <3>1. JobAdded(j)
      BY <2>1, <2>5, AddedJobs
    <3>2. <<DocOf(j), RequestOf(j)>> = p
      BY <2>2, <2>5
    <3>3. Submitted(d) => docs'[d].request # p[2]
      BY <2>1, <2>2, <2>4, FreshIsNew
    <3> QED  BY <2>5, <3>1, <3>2, <3>3 DEF JobAdded
  <2>6. ASSUME docs'[d].request = p[2]
        PROVE  docs'[d].desired /\ docs'[d].processed # p[2]
    <3>1. ~Submitted(d)
      BY <2>1, <2>2, <2>4, <2>6, FreshIsNew
    <3>2. ~Settled(d)
      <4> SUFFICES ASSUME Settled(d) PROVE FALSE
        OBVIOUS
      <4>1. docs[d].request = p[2] /\ docs'[d].processed # docs[d].processed
        BY <2>1, <2>6 DEF Settled
      <4>2. PICK w \in Workers : /\ job[w] \in JobIds /\ TheDoc(w) = d
                                 /\ ClaimIsCurrent(w) /\ docs[d].request = TheRequest(w)
        BY <2>2, <4>1, OutcomeStepHasClaim, SafeInvHasOutcomeInv
      <4>3. Known(job[w])
        BY <4>2 DEF ClaimIsCurrent, JobClaimIsCurrent, Known
      <4> QED  BY <2>1, <4>1, <4>2, <4>3 DEF TheDoc, TheRequest
    <3> QED  BY <2>1, <2>3, <2>6, <3>1, <3>2 DEF RowChange, ErrorRecorded
  <2> QED  BY <2>1, <2>2, <2>3, <2>4, <2>5, <2>6
<1>2. CASE p \notin tryouts
  <2>1. PICK d \in Docs, r \in Requests : p = <<d, r>> /\ TryoutCreate(d, r)
    BY <1>2, TryoutsChange
  <2> DEFINE wanted == TRUE
  <2>2. docs' = [docs EXCEPT ![d].desired = wanted, ![d].status = "Queued",
                             ![d].request = r]
    BY <2>1 DEF TryoutCreate
  <2> HIDE DEF wanted
  <2>3. /\ docs'[d].desired = wanted /\ docs'[d].request = r
        /\ docs'[d].processed = docs[d].processed
    BY <2>2 DEF SafeInv, TypeOK, StoreTypeOK, Document
  <2>4. r = lastRequest + 1 /\ jobs' = jobs /\ d \in Uploads
    BY <2>1 DEF TryoutCreate, FreshRequest
  <2>5. /\ lastRequest \in Nat /\ docs[d].processed \in Nat /\ docs[d].request \in Nat
        /\ docs[d].processed <= docs[d].request /\ docs[d].request <= lastRequest
    BY Numbers
  <2>6. \A j \in JobIds : DocOf(j) = d /\ RequestOf(j) = r => ~Known(j)
    BY <2>4, <2>5 DEF SafeInv, TablesInv, JobsBelong
  <2> QED  BY <2>1, <2>3, <2>4, <2>5, <2>6 DEF Known, wanted
<1> QED  BY <1>1, <1>2

\* A pending job of a document's current request is closed only when the
\* document stops waiting.
LEMMA PendingStep ==
    ASSUME SafeInv, [Next]_vars, NEW j \in JobIds,
           jobs[j].status \in {"queued", "processing"},
           docs[DocOf(j)].request = RequestOf(j),
           docs[DocOf(j)].status \in {"Queued", "Removing"}
    PROVE  jobs'[j].status \in {"queued", "processing"}
<1>1. JobChange(j)
  BY JobOf
<1>2. ASSUME NEW w \in Workers, JobClosed(w, j) PROVE FALSE
  <2>1. /\ TheDoc(w) = DocOf(j) /\ TheRequest(w) = RequestOf(j) /\ ClaimIsCurrent(w)
        /\ StillCurrent(w)
    BY <1>2 DEF JobClosed, TheDoc, TheRequest, StillCurrent, RequestIsCurrent
  <2>2. CASE Complete(w)
    <3>1. docs[DocOf(j)].processed >= RequestOf(j)
      BY <2>1, <2>2 DEF SafeInv, WorkerInv, CommittedBeforeComplete, Complete
    <3>2. docs[DocOf(j)].processed = docs[DocOf(j)].request
      BY <3>1, Numbers
    <3> QED  BY <3>2, Numbers DEF SafeInv, TablesInv, StatusTellsTheOutcome
  <2>3. CASE Cancel(w)
    BY <2>1, <2>3 DEF SafeInv, WorkerInv, RightlyStale, Cancel
  <2>4. CASE FailJob(w)
    BY <2>1, <2>4 DEF SafeInv, WorkerInv, NotWaitingAfterError, FailJob
  <2> QED  BY <1>2, <2>2, <2>3, <2>4 DEF JobClosed
<1> QED
  BY <1>1, <1>2 DEF JobChange, JobAdded, JobClaimed, JobRetried, JobExpired

LEMMA QueuedHasWorkStep ==
    ASSUME SafeInv, QueuedHasWork, [Next]_vars
    PROVE  QueuedHasWork'
<1> SUFFICES ASSUME NEW d \in Docs, docs'[d].status \in {"Queued", "Removing"}
             PROVE  HasPendingJob(d)' \/ <<d, docs'[d].request>> \in tryouts'
  BY DEF QueuedHasWork
<1>1. RowChange(d)
  BY RowOf
<1>2. ASSUME NEW r \in Requests, NEW type \in JobTypes, docs'[d].request = r,
             ~Known(<<d, r, type>>), jobs' = Enqueued(<<d, r, type>>)
      PROVE  HasPendingJob(d)'
  <2>1. <<d, r, type>> \in JobIds /\ TypeOK
    BY DEF JobIds, SafeInv
  <2>2. jobs'[<<d, r, type>>].status = "queued"
    BY <1>2, <2>1, EnqueuedKeepsKnown, EnqueuedRow DEF Known, TypeOK, SafeInv
  <2> QED  BY <1>2, <2>2 DEF HasPendingJob
<1>3. CASE Submitted(d)
  <2>1. ASSUME NEW type \in JobTypes, <<d, docs'[d].request, type>> \in JobIds,
               jobs' = Enqueued(<<d, docs'[d].request, type>>)
        PROVE  HasPendingJob(d)'
    <3> DEFINE j == <<d, docs'[d].request, type>>
    <3>1. docs'[d].request \in Requests /\ DocOf(j) = d /\ RequestOf(j) = docs'[d].request
      BY <2>1 DEF JobIds, DocOf, RequestOf
    <3>2. ~Known(j)
      BY <1>3, <2>1, <3>1, FreshIsNew, Numbers
    <3> QED  BY <1>2, <2>1, <3>1, <3>2
  <2> QED  BY <1>3, <2>1, SubmittedBy
<1>4. CASE docs'[d] = docs[d]
  <2>1. CASE HasPendingJob(d)
    <3>1. PICK t \in JobTypes : /\ docs[d].request \in Requests
                                /\ jobs[<<d, docs[d].request, t>>].status
                                      \in {"queued", "processing"}
      BY <2>1 DEF HasPendingJob
    <3> DEFINE j == <<d, docs[d].request, t>>
    <3>2. j \in JobIds /\ DocOf(j) = d /\ RequestOf(j) = docs[d].request
      BY <3>1 DEF JobIds, DocOf, RequestOf
    <3>3. jobs'[j].status \in {"queued", "processing"}
      BY <1>4, <3>1, <3>2, PendingStep
    <3> QED  BY <1>4, <3>1, <3>3 DEF HasPendingJob
  <2>2. CASE <<d, docs[d].request>> \in tryouts \ tryouts'
    <3> DEFINE r == docs[d].request
    <3>1. r \in Requests /\ TryoutEnqueue(d, r)
      BY <2>2, TryoutsChange
    <3>2. ~Submitted(d)
      BY <1>4, FreshIsNew, Numbers
    <3>3. <<d, r, "upsert">> \in JobIds /\ jobs' = Enqueued(<<d, r, "upsert">>)
      BY <3>1, <3>2, TryoutLeaves
    <3>4. ~Known(<<d, r, "upsert">>)
      BY <2>2, <3>3 DEF SafeInv, TablesInv, TryoutsWait, DocOf, RequestOf
    <3> QED  BY <1>2, <1>4, <3>1, <3>3, <3>4 DEF JobTypes
  <2>3. HasPendingJob(d) \/ <<d, docs[d].request>> \in tryouts
    BY <1>4 DEF SafeInv, QueuedHasWork
  <2> QED  BY <1>4, <2>1, <2>2, <2>3
<1>5. ~Settled(d) /\ ~ErrorRecorded(d)
  BY DEF Settled, ErrorRecorded
<1> QED  BY <1>1, <1>3, <1>4, <1>5 DEF RowChange

-----------------------------------------------------------------------------
(* The workers. *)

SameLocals(w) == pc'[w] = pc[w] /\ job'[w] = job[w] /\ attempt'[w] = attempt[w]
                 /\ seen'[w] = seen[w]

\* A worker's locals change in its own steps only.
LEMMA LocalSteps ==
    ASSUME TypeOK, [Next]_vars, NEW w \in Workers
    PROVE  SameLocals(w) \/ Claim(w) \/ WorkOnJob(w) \/ ReconcileStep(w) \/ Crash(w)
<1> USE DEF SameLocals
<1>1. ASSUME NEW v \in Workers, v # w, Claim(v) \/ WorkOnJob(v) \/ ReconcileStep(v)
      PROVE  SameLocals(w)
  BY <1>1, OtherWorker
<1>2. ASSUME NEW v \in Workers, v # w, Crash(v) PROVE SameLocals(w)
  BY <1>2 DEF Crash, Drop, TypeOK, WorkersTypeOK
<1>3. CASE RequestStep
  BY <1>3 DEF RequestStep, ApiRequest, PortalRequest, TryoutCreate, TryoutEnqueue,
              workerVars
<1>4. ASSUME NEW j \in JobIds,
             SlowLeaseExpires(j) \/ AdminRetry(j) \/ AbandonedLeaseExpires(j)
      PROVE  SameLocals(w)
  BY <1>4 DEF SlowLeaseExpires, AdminRetry, AbandonedLeaseExpires, workerVars
<1>5. CASE UNCHANGED vars
  BY <1>5 DEF vars, workerVars
<1> HIDE DEF SameLocals
<1> QED  BY <1>1, <1>2, <1>3, <1>4, <1>5 DEF Next, FaultStep

\* A claim that a worker lost comes back to it only through claim_next_job.
LEMMA ClaimsOnlyLost ==
    ASSUME TypeOK, [Next]_vars, NEW w \in Workers, SameLocals(w), HasJob(w),
           ClaimIsCurrent(w)'
    PROVE  ClaimIsCurrent(w)
<1> DEFINE j == job[w]
<1>1. j \in JobIds /\ w # None
  BY StoreAssumption DEF TypeOK, WorkersTypeOK, LocalsSet
<1>2. /\ jobs'[j].status = "processing" /\ jobs'[j].owner = w
      /\ jobs'[j].attempts = attempt[w]
  BY DEF ClaimIsCurrent, JobClaimIsCurrent, SameLocals
<1>3. JobChange(j)
  BY <1>1, JobRows
<1>4. ASSUME NEW v \in Workers, JobClaimed(v, j) PROVE FALSE
  <2>1. v = w /\ Claim(w)
    BY <1>2, <1>4 DEF JobClaimed
  <2> QED  BY <2>1 DEF Claim, HasJob
<1>5. jobs'[j] = jobs[j] \/ JobExpired(j)
  BY <1>1, <1>2, <1>3, <1>4 DEF JobChange, JobAdded, JobClosed, JobRetried
<1> QED  BY <1>2, <1>5 DEF JobExpired, ClaimIsCurrent, JobClaimIsCurrent

LEMMA WorkingJob ==
    ASSUME SafeInv, NEW w \in Workers, HasJob(w)
    PROVE  /\ job[w] \in JobIds /\ Known(job[w])
           /\ TheDoc(w) \in Docs /\ TheRequest(w) \in Nat
           /\ TheRequest(w) <= docs[TheDoc(w)].request
<1>1. job[w] \in JobIds /\ Known(job[w])
  BY DEF SafeInv, TypeOK, WorkersTypeOK, LocalsSet, WorkerInv
<1> QED
  BY <1>1, Numbers DEF TheDoc, TheRequest, SafeInv, TablesInv, JobsBelong

LEMMA KnownJobStep ==
    ASSUME SafeInv, [Next]_vars, NEW w \in Workers, HasJob(w)'
    PROVE  Known(job[w])'
<1>1. TypeOK
  BY DEF SafeInv
<1>2. CASE SameLocals(w) \/ WorkOnJob(w)
  <2>1. HasJob(w) /\ job'[w] = job[w]
    BY <1>1, <1>2
    DEF SameLocals, WorkOnJob, ReadDocument, ReadControl, Start, Mark, Process, Publish,
        Verify, Commit, Announce, Complete, Cancel, KnownError, JudgeError, RecordError,
        FailJob, Report, SetFailed, Goto, Drop, HasJob, TypeOK, WorkersTypeOK
  <2>2. job[w] \in JobIds /\ Known(job[w])
    BY <2>1, WorkingJob
  <2>3. Known(job[w]) => jobs'[job[w]].status # "absent"
    BY <2>2, JobOf DEF Known
  <2> QED  BY <2>1, <2>2, <2>3 DEF Known
<1>3. CASE Claim(w)
  <2>1. PICK k \in JobIds : ClaimJob(w, k) /\ job' = [job EXCEPT ![w] = k]
    BY <1>3 DEF Claim
  <2>2. Known(k) /\ job'[w] = k
    BY <1>1, <2>1 DEF ClaimJob, Oldest, Claimable, Known, TypeOK, WorkersTypeOK
  <2>3. jobs'[k].status # "absent"
    BY <2>2, JobOf DEF Known
  <2> QED  BY <2>2, <2>3 DEF Known
<1>4. CASE ReconcileStep(w) \/ Crash(w)
  BY <1>1, <1>4
  DEF ReconcileStep, ReconcileRead, ReconcileSourceMissing, ReconcileRefresh,
      ReconcileSkip, Crash, Drop, HasJob, TypeOK, WorkersTypeOK
<1> QED  BY <1>1, <1>2, <1>3, <1>4, LocalSteps

\* After a step of the worker that is not a step of _process_job it has read nothing.
LEMMA NotAtWork ==
    ASSUME TypeOK, NEW w \in Workers, Claim(w) \/ ReconcileStep(w) \/ Crash(w)
    PROVE  pc'[w] \in {"idle", "reconcile", "claimed"}
BY DEF Claim, ReconcileStep, ReconcileRead, ReconcileSourceMissing, ReconcileRefresh,
       ReconcileSkip, Crash, Drop, TypeOK, WorkersTypeOK

\* The places before the commit are reached by reading only.
LEMMA WorkingSteps ==
    ASSUME TypeOK, NEW w \in Workers, WorkOnJob(w), Working(w)'
    PROVE  /\ UNCHANGED <<docs, jobs, job, attempt>>
           /\ \/ Working(w)
              \/ ReadDocument(w) /\ docs[TheDoc(w)].processed # TheRequest(w)
<1>1. ~Commit(w) /\ ~Complete(w) /\ ~Cancel(w) /\ ~RecordError(w) /\ ~FailJob(w)
  BY DEF Commit, Complete, Cancel, RecordError, FailJob, Goto, Drop, Working, TypeOK,
         WorkersTypeOK
<1>2. CASE ReadDocument(w)
  <2>1. docs[TheDoc(w)].processed = TheRequest(w) => pc'[w] = "complete"
    BY <1>2 DEF ReadDocument, TypeOK, WorkersTypeOK
  <2> QED  BY <1>2, <2>1 DEF ReadDocument, Working, storeVars
<1>3. CASE ReadControl(w)
  BY <1>3 DEF ReadControl, Working, storeVars
<1>4. CASE \/ Start(w) \/ Mark(w) \/ Process(w) \/ Publish(w) \/ Verify(w)
           \/ Announce(w) \/ KnownError(w) \/ JudgeError(w) \/ Report(w) \/ SetFailed(w)
  BY <1>4
  DEF Start, Mark, Process, Publish, Verify, Announce, KnownError, JudgeError, Report,
      SetFailed, Goto, Drop, Working, storeVars, TypeOK, WorkersTypeOK
<1> QED  BY <1>1, <1>2, <1>3, <1>4 DEF WorkOnJob

LEMMA NotSettledYetStep ==
    ASSUME SafeInv, [Next]_vars, NEW w \in Workers
    PROVE  NotSettledYet(w)'
<1> SUFFICES ASSUME Working(w)', ClaimIsCurrent(w)'
             PROVE  (docs[TheDoc(w)].processed # TheRequest(w))'
  BY DEF NotSettledYet
<1>1. TypeOK
  BY DEF SafeInv
<1>2. CASE SameLocals(w)
  <2>1. Working(w) /\ HasJob(w)
    BY <1>2 DEF SameLocals, Working, HasJob
  <2>2. ClaimIsCurrent(w)
    BY <1>1, <1>2, <2>1, ClaimsOnlyLost
  <2> DEFINE d == TheDoc(w)
             r == TheRequest(w)
  <2>3. docs[d].processed # r
    BY <2>1, <2>2 DEF SafeInv, WorkerInv, NotSettledYet
  <2>4. ASSUME docs'[d].processed = r PROVE FALSE
    <3>1. job[w] \in JobIds /\ Known(job[w]) /\ d \in Docs
      BY <2>1, WorkingJob
    <3>2. PICK v \in Workers : /\ Commit(v) /\ job[v] \in JobIds /\ TheDoc(v) = d
                               /\ ClaimIsCurrent(v) /\ docs'[d].processed = TheRequest(v)
      BY <2>3, <2>4, <3>1, OutcomeStepHasClaim, SafeInvHasOutcomeInv
    <3>3. Known(job[v])
      BY <3>2 DEF ClaimIsCurrent, JobClaimIsCurrent, Known
    <3>4. job[v] = job[w]
      BY <2>4, <3>1, <3>2, <3>3
      DEF SafeInv, TablesInv, OneTypePerRequest, TheDoc, TheRequest
    <3>5. v = w
      BY <2>2, <3>2, <3>4 DEF ClaimIsCurrent, JobClaimIsCurrent
    <3>6. Commit(w) => pc[w] = "commit" /\ pc'[w] \in {"complete", "announce", "stale"}
      BY <1>1 DEF Commit, Goto, TypeOK, WorkersTypeOK
    <3> QED  BY <1>2, <3>2, <3>5, <3>6 DEF SameLocals
  <2> QED  BY <1>2, <2>4 DEF SameLocals, TheDoc, TheRequest
<1>3. CASE WorkOnJob(w)
  <2>1. /\ UNCHANGED <<docs, jobs, job, attempt>>
        /\ Working(w) \/ docs[TheDoc(w)].processed # TheRequest(w)
    BY <1>1, <1>3, WorkingSteps
  <2>2. Working(w) => docs[TheDoc(w)].processed # TheRequest(w)
    BY <2>1 DEF SafeInv, WorkerInv, NotSettledYet, ClaimIsCurrent, JobClaimIsCurrent
  <2> QED  BY <2>1, <2>2 DEF TheDoc, TheRequest
<1>4. CASE Claim(w) \/ ReconcileStep(w) \/ Crash(w)
  BY <1>1, <1>4, NotAtWork DEF Working
<1> QED  BY <1>1, <1>2, <1>3, <1>4, LocalSteps

\* Superseded is superseded: a worker's verdict survives newer requests.
LEMMA StillSuperseded ==
    ASSUME SafeInv, [Next]_vars, NEW w \in Workers, HasJob(w), ~StillCurrent(w)
    PROVE  docs'[TheDoc(w)].request # TheRequest(w)
<1>1. /\ TheDoc(w) \in Docs /\ TheRequest(w) \in Nat
      /\ TheRequest(w) <= docs[TheDoc(w)].request
  BY WorkingJob
<1>2. RowChange(TheDoc(w))
  BY <1>1, RowOf
<1> QED
  BY <1>1, <1>2, Numbers
  DEF StillCurrent, RequestIsCurrent, RowChange, Submitted, Settled, ErrorRecorded

LEMMA StaleSteps ==
    ASSUME TypeOK, NEW w \in Workers, WorkOnJob(w), pc'[w] = "stale"
    PROVE  /\ UNCHANGED <<docs, jobs, job, attempt>>
           /\ \/ ~StillCurrent(w)
              \/ ~ClaimIsCurrent(w)
              \/ pc[w] = "control" /\ seen[w][2] # TheRequest(w)
<1> USE DEF TypeOK, WorkersTypeOK
<1>1. CASE ReadControl(w)
  BY <1>1 DEF ReadControl, storeVars
<1>2. CASE Start(w) \/ Publish(w) \/ Verify(w) \/ JudgeError(w)
  BY <1>2 DEF Start, Publish, Verify, JudgeError, Goto, storeVars
<1>3. CASE Commit(w)
  BY <1>3 DEF Commit, MayCommit, Goto
<1>4. ~ReadDocument(w)
  BY DEF ReadDocument
<1>5. ~FailJob(w) /\ ~RecordError(w) /\ ~Complete(w) /\ ~Cancel(w) /\ ~Report(w)
      /\ ~SetFailed(w)
  BY DEF FailJob, RecordError, Complete, Cancel, Report, SetFailed, Goto, Drop
<1>6. ~Mark(w) /\ ~Process(w) /\ ~Announce(w) /\ ~KnownError(w)
  BY DEF Mark, Process, Announce, KnownError, Goto
<1> QED  BY <1>1, <1>2, <1>3, <1>4, <1>5, <1>6 DEF WorkOnJob

LEMMA RightlyStaleStep ==
    ASSUME SafeInv, [Next]_vars, NEW w \in Workers
    PROVE  RightlyStale(w)'
<1> SUFFICES ASSUME pc'[w] = "stale", ClaimIsCurrent(w)'
             PROVE  (docs[TheDoc(w)].request # TheRequest(w))'
  BY DEF RightlyStale
<1>1. TypeOK
  BY DEF SafeInv
<1>2. CASE SameLocals(w)
  <2>1. pc[w] = "stale" /\ HasJob(w)
    BY <1>2 DEF SameLocals, HasJob
  <2>2. ~StillCurrent(w)
    BY <1>1, <1>2, <2>1, ClaimsOnlyLost
    DEF SafeInv, WorkerInv, RightlyStale, StillCurrent, RequestIsCurrent
  <2> QED  BY <1>2, <2>1, <2>2, StillSuperseded DEF SameLocals, TheDoc, TheRequest
<1>3. CASE WorkOnJob(w)
  <2>1. /\ UNCHANGED <<docs, jobs, job, attempt>>
        /\ \/ ~StillCurrent(w)
           \/ ~ClaimIsCurrent(w)
           \/ pc[w] = "control" /\ seen[w][2] # TheRequest(w)
    BY <1>1, <1>3, StaleSteps
  <2>2. ClaimIsCurrent(w)
    BY <2>1 DEF ClaimIsCurrent, JobClaimIsCurrent
  <2>3. ASSUME pc[w] = "control", seen[w][2] # TheRequest(w) PROVE ~StillCurrent(w)
    <3>1. /\ TheRequest(w) <= seen[w][2] /\ seen[w][2] <= docs[TheDoc(w)].request
          /\ HasJob(w)
      BY <2>3 DEF SafeInv, WorkerInv, ReadIsRecent, HasJob
    <3>2. seen[w][2] \in Nat
      BY <1>1, <2>3, StoreAssumption DEF TypeOK, WorkersTypeOK, LocalsSet, RequestIds
    <3>3. TheRequest(w) \in Nat /\ docs[TheDoc(w)].request \in Nat
      BY <3>1, WorkingJob, Numbers
    <3> QED  BY <2>3, <3>1, <3>2, <3>3 DEF StillCurrent, RequestIsCurrent
  <2>4. ~StillCurrent(w)
    BY <2>1, <2>2, <2>3
  <2> QED  BY <2>1, <2>4 DEF StillCurrent, RequestIsCurrent, TheDoc, TheRequest
<1>4. CASE Claim(w) \/ ReconcileStep(w) \/ Crash(w)
  BY <1>1, <1>4, NotAtWork
<1> QED  BY <1>1, <1>2, <1>3, <1>4, LocalSteps

LEMMA NotWaitingStep ==
    ASSUME SafeInv, [Next]_vars, NEW w \in Workers
    PROVE  NotWaitingAfterError(w)'
<1> SUFFICES ASSUME pc'[w] = "fail_job", StillCurrent(w)'
             PROVE  (docs[TheDoc(w)].status \notin {"Queued", "Removing"})'
  BY DEF NotWaitingAfterError
<1> USE DEF StillCurrent, RequestIsCurrent
<1>1. TypeOK
  BY DEF SafeInv
<1>2. CASE SameLocals(w)
  <2> DEFINE d == TheDoc(w)
  <2>1. pc[w] = "fail_job" /\ HasJob(w) /\ docs'[d].request = TheRequest(w)
    BY <1>2 DEF SameLocals, HasJob, TheDoc, TheRequest
  <2>2. d \in Docs
    BY <2>1, WorkingJob
  <2>3. docs[d].request = TheRequest(w)
    BY <2>1, StillSuperseded
  <2>4. docs[d].status \notin {"Queued", "Removing"}
    BY <2>1, <2>3 DEF SafeInv, WorkerInv, NotWaitingAfterError
  <2>5. ~Submitted(d)
    BY <2>1, <2>2, <2>3, FreshIsNew, Numbers
  <2>6. RowChange(d)
    BY <2>2, RowOf
  <2> QED
    BY <1>2, <2>4, <2>5, <2>6
    DEF RowChange, Settled, ErrorRecorded, SameLocals, TheDoc
<1>3. CASE WorkOnJob(w)
  <2>1. RecordError(w)
    BY <1>1, <1>3
    DEF WorkOnJob, ReadDocument, ReadControl, Start, Mark, Process, Publish, Verify,
        Commit, Announce, Complete, Cancel, KnownError, JudgeError, FailJob, Report,
        SetFailed, Goto, Drop, TypeOK, WorkersTypeOK
  <2>2. HasJob(w) /\ RecordDocumentError(TheDoc(w)) /\ job' = job
    BY <1>1, <2>1 DEF RecordError, Goto, Drop, HasJob, TypeOK, WorkersTypeOK
  <2>3. TheDoc(w) \in Docs
    BY <2>2, WorkingJob
  <2>4. docs'[TheDoc(w)].status = "Failed"
    BY <1>1, <2>2, <2>3 DEF RecordDocumentError, TypeOK, StoreTypeOK, Document
  <2> QED  BY <2>2, <2>4 DEF TheDoc
<1>4. CASE Claim(w) \/ ReconcileStep(w) \/ Crash(w)
  BY <1>1, <1>4, NotAtWork
<1> QED  BY <1>1, <1>2, <1>3, <1>4, LocalSteps

LEMMA ReadIsRecentStep ==
    ASSUME SafeInv, [Next]_vars, NEW w \in Workers
    PROVE  ReadIsRecent(w)'
<1> SUFFICES ASSUME pc'[w] = "control"
             PROVE  (/\ TheRequest(w) <= seen[w][2]
                     /\ seen[w][2] <= docs[TheDoc(w)].request)'
  BY DEF ReadIsRecent
<1>1. TypeOK
  BY DEF SafeInv
<1>2. CASE SameLocals(w)
  <2> DEFINE d == TheDoc(w)
  <2>1. pc[w] = "control" /\ HasJob(w)
    BY <1>2 DEF SameLocals, HasJob
  <2>2. TheRequest(w) <= seen[w][2] /\ seen[w][2] <= docs[d].request
    BY <2>1 DEF SafeInv, WorkerInv, ReadIsRecent
  <2>3. seen[w][2] \in Nat
    BY <1>1, <2>1, StoreAssumption DEF TypeOK, WorkersTypeOK, LocalsSet, RequestIds
  <2>4. d \in Docs /\ RowChange(d)
    BY <2>1, WorkingJob, RowOf
  <2>5. /\ docs[d].request \in Nat /\ lastRequest \in Nat
        /\ docs[d].request <= lastRequest
    BY <2>4, Numbers
  <2>6. seen[w][2] <= docs'[d].request
    BY <2>2, <2>3, <2>4, <2>5 DEF RowChange, Submitted, Settled, ErrorRecorded
  <2> QED  BY <1>2, <2>2, <2>6 DEF SameLocals, TheDoc, TheRequest
<1>3. CASE WorkOnJob(w)
  <2>1. ReadDocument(w)
    BY <1>1, <1>3
    DEF WorkOnJob, ReadControl, Start, Mark, Process, Publish, Verify, Commit, Announce,
        Complete, Cancel, KnownError, JudgeError, RecordError, FailJob, Report,
        SetFailed, Goto, Drop, TypeOK, WorkersTypeOK
  <2>2. /\ HasJob(w) /\ job' = job /\ docs' = docs
        /\ seen'[w][2] = docs[TheDoc(w)].request
    BY <1>1, <2>1 DEF ReadDocument, HasJob, storeVars, TypeOK, WorkersTypeOK
  <2>3. TheRequest(w) <= docs[TheDoc(w)].request /\ docs[TheDoc(w)].request \in Nat
    BY <2>2, WorkingJob, Numbers
  <2> QED  BY <2>2, <2>3 DEF TheDoc, TheRequest
<1>4. CASE Claim(w) \/ ReconcileStep(w) \/ Crash(w)
  BY <1>1, <1>4, NotAtWork
<1> QED  BY <1>1, <1>2, <1>3, <1>4, LocalSteps

-----------------------------------------------------------------------------
(* The invariant. *)

LEMMA InvInit == Init => Inv
<1> SUFFICES ASSUME Init PROVE Inv
  OBVIOUS
<1>1. OutcomeInv
  BY OutcomeInvInit
<1>2. \A j \in JobIds : ~Known(j)
  BY DEF Init, StoreInit, Known
<1>3. JobsBelong /\ OneTypePerRequest /\ DesiredTellsTheType
  BY <1>2 DEF JobsBelong, OneTypePerRequest, DesiredTellsTheType
<1>4. TryoutsWait /\ QueuedHasWork
  BY DEF Init, StoreInit, TryoutsWait, QueuedHasWork
<1>5. ASSUME NEW w \in Workers
      PROVE  /\ ~HasJob(w) /\ NotSettledYet(w) /\ RightlyStale(w)
             /\ NotWaitingAfterError(w) /\ ReadIsRecent(w)
  BY DEF Init, HasJob, NotSettledYet, Working, RightlyStale, NotWaitingAfterError,
         ReadIsRecent
<1> QED
  BY <1>1, <1>3, <1>4, <1>5 DEF Inv, SafeInv, TablesInv, WorkerInv, OutcomeInv

LEMMA SafeStep == SafeInv /\ [Next]_vars => SafeInv'
<1> SUFFICES ASSUME SafeInv, [Next]_vars PROVE SafeInv'
  OBVIOUS
<1>1. OutcomeInv'
  BY SafeInvHasOutcomeInv, OutcomeInvStep
<1>2. JobsBelong' /\ OneTypePerRequest' /\ DesiredTellsTheType' /\ TryoutsWait'
  BY JobsBelongStep, OneTypeStep, DesiredStep, TryoutsStep
<1>3. ASSUME NEW w \in Workers PROVE WorkerInv(w)'
  <2>1. HasJob(w)' => Known(job[w])'
    BY KnownJobStep
  <2>2. /\ NotSettledYet(w)' /\ RightlyStale(w)' /\ NotWaitingAfterError(w)'
        /\ ReadIsRecent(w)'
    BY NotSettledYetStep, RightlyStaleStep, NotWaitingStep, ReadIsRecentStep
  <2>3. CommittedBeforeComplete(w)' /\ ReconcilesSettled(w)'
    BY <1>1 DEF OutcomeInv
  <2> QED  BY <2>1, <2>2, <2>3 DEF WorkerInv
<1> QED  BY <1>1, <1>2, <1>3 DEF SafeInv, TablesInv, OutcomeInv

LEMMA InvStep == Inv /\ [Next]_vars => Inv'
BY SafeStep, QueuedHasWorkStep DEF Inv

\* What _process_job relies on between two of its calls holds at every
\* interleaving of requests, workers, crashes, lost leases and retries.
THEOREM QueueInvariant == Spec => []Inv
BY InvInit, InvStep, PTL DEF Spec

\* The part of it that holds of a tryout page that dies between its calls as well:
\* nothing a worker does behind its fence contradicts what the tables say.
THEOREM QueueIsSafe == Spec => []SafeInv
BY QueueInvariant, PTL DEF Inv

\* No document is stranded: whatever happens to a claim, the job of the newest
\* request of a waiting document stays queued or claimed (complete_job, cancel_job,
\* fail_job), or the tryout page is about to enqueue it.
THEOREM WaitingHasWork == Spec => []QueuedHasWork
BY QueueInvariant, PTL DEF Inv

LEMMA CancelStep ==
    ASSUME SafeInv, [Next]_vars, NEW j \in JobIds,
           jobs[j].status # "cancelled", jobs'[j].status = "cancelled"
    PROVE  docs[DocOf(j)].request # RequestOf(j)
<1>1. PICK w \in Workers : JobClosed(w, j)
  BY JobOf DEF JobChange, JobAdded, JobClaimed, JobRetried, JobExpired
<1> QED
  BY <1>1
  DEF JobClosed, Cancel, SafeInv, WorkerInv, RightlyStale, TheDoc, TheRequest

\* StaleRequestError tells the truth: a worker cancels its job only when a newer
\* request replaced it; a lease lost to another worker cancels nothing.
THEOREM CancellationsAreRight == Spec => CancelledOnlyIfSuperseded
<1>1. SafeInv /\ [Next]_vars =>
        [\A j \in JobIds :
           jobs[j].status # "cancelled" /\ jobs'[j].status = "cancelled" =>
               docs[DocOf(j)].request # RequestOf(j)]_vars
  BY CancelStep
<1> QED  BY <1>1, QueueIsSafe, PTL DEF Spec, CancelledOnlyIfSuperseded

-----------------------------------------------------------------------------
(* The refinement: jobs, leases, retries and workers that lost their claims *)
(* implement "the newest request counts, and is carried out at most once".  *)

\* The transaction that records an outcome or an error, and for which row.
CommitOf(w, d) ==
    /\ Commit(w) /\ MayCommit(w) /\ TheDoc(w) = d
    /\ IF IsDelete(w) THEN RecordRemoved(d, TheRequest(w))
                      ELSE RecordSuccess(d, TheRequest(w))

ErrorOf(w, d) ==
    /\ RecordError(w) /\ TheDoc(w) = d
    /\ MayRecordError(d, TheRequest(w))
    /\ RecordDocumentError(d)

WithdrawalOf(w, d) ==
    /\ ReconcileSourceMissing(w) /\ seen[w][1] = d
    /\ RequestIsCurrent(d, seen[w][2])
    /\ RecordRemoved(d, seen[w][2])

OnlyRow(d) == docs' = [docs EXCEPT ![d] = docs'[d]]

\* One step writes one document row, in one of four transactions.
LEMMA RowWriters ==
    ASSUME SafeInv, [Next]_vars
    PROVE  \/ docs' = docs
           \/ \E d \in Docs :
                /\ OnlyRow(d)
                /\ \/ Submitted(d)
                   \/ \E w \in Workers : CommitOf(w, d) \/ ErrorOf(w, d) \/ WithdrawalOf(w, d)
<1> DEFINE Goal == \/ docs' = docs
                   \/ \E d \in Docs :
                        /\ OnlyRow(d)
                        /\ \/ Submitted(d)
                           \/ \E w \in Workers :
                                CommitOf(w, d) \/ ErrorOf(w, d) \/ WithdrawalOf(w, d)
<1> SUFFICES Goal
  OBVIOUS
<1>1. TypeOK
  BY DEF SafeInv
<1>2. ASSUME NEW e \in Docs, NEW r \in Requests, NEW type \in JobTypes,
             FreshRequest(r), UpsertDocumentAndEnqueue(e, r, type, "Queued")
      PROVE  Goal
  <2>1. Submitted(e) /\ OnlyRow(e)
    BY <1>1, <1>2, UpsertRows DEF OnlyRow
  <2> QED  BY <2>1
<1>3. ASSUME NEW e \in Docs, NEW r \in Requests, TryoutCreate(e, r) PROVE Goal
  <2> DEFINE wanted == TRUE
  <2>1. docs' = [docs EXCEPT ![e].desired = wanted, ![e].status = "Queued",
                             ![e].request = r]
    BY <1>3 DEF TryoutCreate
  <2>2. lastRequest' = r /\ r = lastRequest + 1
    BY <1>3 DEF TryoutCreate, FreshRequest
  <2> HIDE DEF wanted
  <2>3. Submitted(e) /\ OnlyRow(e)
    BY <1>1, <2>1, <2>2 DEF Submitted, OnlyRow, TypeOK, StoreTypeOK, Document
  <2> QED  BY <2>3
<1>4. CASE RequestStep
  <2>1. ASSUME NEW e \in Docs, NEW r \in Requests, NEW type \in JobTypes,
               ApiRequest(e, r, type) \/ PortalRequest(e, r, type)
        PROVE  Goal
    BY <1>2, <2>1 DEF ApiRequest, PortalRequest, QueueRequest
  <2>2. ASSUME NEW e \in Docs, NEW r \in Requests, TryoutEnqueue(e, r) PROVE Goal
    BY <1>2, <2>2 DEF TryoutEnqueue, QueueRequest, JobTypes
  <2> HIDE DEF Goal
  <2> QED  BY <1>3, <1>4, <2>1, <2>2 DEF RequestStep
<1>5. ASSUME NEW w \in Workers, WorkOnJob(w) PROVE Goal
  <2>1. HasJob(w)
    BY <1>5
    DEF WorkOnJob, HasJob, ReadDocument, ReadControl, Start, Mark, Process, Publish,
        Verify, Commit, Announce, Complete, Cancel, KnownError, JudgeError, RecordError,
        FailJob, Report, SetFailed
  <2>2. TheDoc(w) \in Docs
    BY <2>1, WorkingJob
  <2>3. CASE Commit(w) /\ docs' # docs
    <3>1. CommitOf(w, TheDoc(w))
      BY <2>3 DEF Commit, CommitOf
    <3>2. OnlyRow(TheDoc(w))
      BY <1>1, <2>2, <3>1
      DEF CommitOf, RecordRemoved, RecordSuccess, OnlyRow, TypeOK, StoreTypeOK, Document
    <3> QED  BY <2>2, <3>1, <3>2
  <2>4. CASE RecordError(w) /\ docs' # docs
    <3>1. ErrorOf(w, TheDoc(w))
      BY <2>4 DEF RecordError, ErrorOf
    <3>2. OnlyRow(TheDoc(w))
      BY <1>1, <2>2, <3>1
      DEF ErrorOf, RecordDocumentError, OnlyRow, TypeOK, StoreTypeOK, Document
    <3> QED  BY <2>2, <3>1, <3>2
  <2>5. ASSUME ~Commit(w), ~RecordError(w) PROVE docs' = docs
    BY <1>5, <2>5
    DEF WorkOnJob, ReadDocument, ReadControl, Start, Mark, Process, Publish, Verify,
        Announce, Complete, Cancel, KnownError, JudgeError, FailJob, Report, SetFailed,
        storeVars
  <2> QED  BY <2>3, <2>4, <2>5
<1>6. ASSUME NEW w \in Workers, ReconcileStep(w) PROVE Goal
  <2>1. pc[w] = "reconcile" => seen[w][1] \in Docs
    BY <1>1 DEF TypeOK, WorkersTypeOK, LocalsSet
  <2>2. CASE ReconcileSourceMissing(w) /\ docs' # docs
    <3>1. WithdrawalOf(w, seen[w][1]) /\ seen[w][1] \in Docs
      BY <2>1, <2>2 DEF ReconcileSourceMissing, WithdrawalOf
    <3>2. OnlyRow(seen[w][1])
      BY <1>1, <3>1
      DEF WithdrawalOf, RecordRemoved, OnlyRow, TypeOK, StoreTypeOK, Document
    <3> QED  BY <3>1, <3>2
  <2>3. ASSUME NEW r \in Requests, ReconcileRefresh(w, r) PROVE Goal
    BY <1>2, <2>1, <2>3 DEF ReconcileRefresh, QueueRefreshIfCurrent, JobTypes
  <2>4. CASE ReconcileSkip(w) \/ \E d \in Docs : ReconcileRead(w, d)
    BY <2>4 DEF ReconcileSkip, ReconcileRead, storeVars
  <2> QED  BY <1>6, <2>2, <2>3, <2>4 DEF ReconcileStep
<1>7. ASSUME NEW w \in Workers, Claim(w) PROVE Goal
  BY <1>7 DEF Claim
<1>8. CASE FaultStep \/ (\E j \in JobIds : AbandonedLeaseExpires(j)) \/ UNCHANGED vars
  BY <1>8
  DEF FaultStep, Crash, SlowLeaseExpires, AdminRetry, AbandonedLeaseExpires, vars,
      storeVars
<1> HIDE DEF Goal
<1> QED  BY <1>4, <1>5, <1>6, <1>7, <1>8 DEF Next

-----------------------------------------------------------------------------
(* The refinement mapping. *)

latestBar  == [d \in Docs |-> docs[d].request]
settledBar == [d \in Docs |-> docs[d].processed]
enhanceBar == [d \in Docs |-> docs[d].desired]
phaseBar   == [d \in Docs |-> PhaseOf(d)]
versionBar == [d \in Docs |-> docs[d].version]

\* A step that writes one row changes the abstract state of one document.
LEMMA MappedRow ==
    ASSUME TypeOK, NEW d \in Docs, OnlyRow(d)
    PROVE  /\ latestBar' = [latestBar EXCEPT ![d] = docs'[d].request]
           /\ settledBar' = [settledBar EXCEPT ![d] = docs'[d].processed]
           /\ enhanceBar' = [enhanceBar EXCEPT ![d] = docs'[d].desired]
           /\ phaseBar' = [phaseBar EXCEPT ![d] = PhaseOf(d)']
           /\ versionBar' = [versionBar EXCEPT ![d] = docs'[d].version]
           /\ docs'[d].request = docs[d].request => latestBar' = latestBar
           /\ docs'[d].processed = docs[d].processed => settledBar' = settledBar
           /\ docs'[d].desired = docs[d].desired => enhanceBar' = enhanceBar
           /\ PhaseOf(d)' = PhaseOf(d) => phaseBar' = phaseBar
           /\ docs'[d].version = docs[d].version => versionBar' = versionBar
<1>1. docs \in [Docs -> Document] /\ \A x \in Docs \ {d} : docs'[x] = docs[x]
  BY DEF OnlyRow, TypeOK, StoreTypeOK
<1>2. \A x \in Docs \ {d} : PhaseOf(x)' = PhaseOf(x)
  BY <1>1 DEF PhaseOf
<1>3. /\ phaseBar' = [phaseBar EXCEPT ![d] = PhaseOf(d)']
      /\ PhaseOf(d)' = PhaseOf(d) => phaseBar' = phaseBar
  BY <1>2 DEF phaseBar
<1> QED
  BY <1>1, <1>3 DEF latestBar, settledBar, enhanceBar, versionBar

\* Commit is Enhance or Remove: the claim and the request being current mean that
\* the request is open and asked for this kind of outcome.
LEMMA CommitIsOutcome ==
    ASSUME SafeInv, [Next]_vars, NEW d \in Docs, NEW w \in Workers, CommitOf(w, d), OnlyRow(d)
    PROVE  \/ /\ docs[d].processed # docs[d].request
              /\ docs[d].desired /\ docs'[d].desired
              /\ docs'[d].request = docs[d].request
              /\ docs'[d].processed = docs[d].request
              /\ docs'[d].status = "Ready"
              /\ docs'[d].version = docs[d].version + 1
           \/ /\ docs[d].processed # docs[d].request
              /\ ~docs[d].desired /\ docs'[d].desired = docs[d].desired
              /\ docs'[d].request = docs[d].request
              /\ docs'[d].processed = docs[d].request
              /\ docs'[d].status = "NotEnabled"
              /\ docs'[d].version = docs[d].version
<1>1. HasJob(w) /\ Working(w)
  BY DEF CommitOf, Commit, HasJob, Working
<1>2. job[w] \in JobIds /\ Known(job[w])
  BY <1>1, WorkingJob
<1>3. docs[d].request = TheRequest(w) /\ ClaimIsCurrent(w) /\ d = DocOf(job[w])
  BY DEF CommitOf, MayCommit, StillCurrent, RequestIsCurrent, TheDoc
<1>4. docs[d].processed # TheRequest(w)
  BY <1>1, <1>3 DEF SafeInv, WorkerInv, NotSettledYet, TheDoc
<1>5. docs[d].desired <=> TypeOf(job[w]) = "upsert"
  BY <1>2, <1>3, <1>4 DEF SafeInv, TablesInv, DesiredTellsTheType, TheRequest
<1>6. docs[d] \in Document /\ docs \in [Docs -> Document] /\ TypeOf(job[w]) \in JobTypes
  BY <1>2 DEF SafeInv, TypeOK, StoreTypeOK, JobIds, TypeOf
<1>7. CASE IsDelete(w)
  <2>1. RecordRemoved(d, TheRequest(w)) /\ ~docs[d].desired
    BY <1>5, <1>7 DEF CommitOf, IsDelete
  <2> QED  BY <1>3, <1>4, <1>6, <2>1 DEF RecordRemoved, Document
<1>8. CASE ~IsDelete(w)
  <2>1. RecordSuccess(d, TheRequest(w)) /\ docs[d].desired
    BY <1>5, <1>6, <1>8 DEF CommitOf, IsDelete, JobTypes
  <2> QED  BY <1>3, <1>4, <1>6, <2>1 DEF RecordSuccess, Document
<1> QED  BY <1>7, <1>8

\* The reconciliation pass withdraws what is settled, or writes what is there.
LEMMA WithdrawalIsSettled ==
    ASSUME SafeInv, NEW d \in Docs, NEW w \in Workers, WithdrawalOf(w, d)
    PROVE  /\ docs[d].processed = docs[d].request
           /\ docs[d].status \in {"Ready", "NotEnabled"}
           /\ docs[d].desired <=> docs[d].status = "Ready"
           /\ docs'[d].request = docs[d].request
           /\ docs'[d].processed = docs[d].processed
           /\ docs'[d].version = docs[d].version
           /\ docs'[d].status = "NotEnabled"
           /\ docs'[d].desired = FALSE
<1>1. docs[d].processed = docs[d].request /\ docs[d].status # "Absent"
  BY DEF WithdrawalOf, ReconcileSourceMissing, RequestIsCurrent, SafeInv, WorkerInv,
         ReconcilesSettled, Exists
<1>2. docs[d] \in Document /\ docs \in [Docs -> Document]
  BY DEF SafeInv, TypeOK, StoreTypeOK
<1>3. docs[d].status \in {"Ready", "NotEnabled"}
  BY <1>1, <1>2 DEF Document, DocStatuses, SafeInv, TablesInv, StatusTellsTheOutcome
<1>4. docs[d].desired <=> docs[d].status = "Ready"
  BY <1>3 DEF SafeInv, TablesInv, StatusTellsTheOutcome
<1> QED
  BY <1>1, <1>2, <1>3, <1>4 DEF WithdrawalOf, RequestIsCurrent, RecordRemoved, Document

LEMMA MappedInit == Init => Outcome!Init
<1> SUFFICES ASSUME Init PROVE Outcome!Init
  OBVIOUS
<1>1. \A d \in Docs : PhaseOf(d) = "new"
  BY DEF Init, StoreInit, PhaseOf
<1> QED  BY <1>1 DEF Init, StoreInit, Outcome!Init, NoRequest

LEMMA MappedStep ==
    ASSUME SafeInv, [Next]_vars
    PROVE  Outcome!Next \/ UNCHANGED Outcome!vars
<1>1. TypeOK /\ TypeOK'
  BY TypingStep DEF SafeInv
<1>2. CASE docs' = docs
  BY <1>2 DEF Outcome!vars, PhaseOf
<1>3. ASSUME NEW d \in Docs, OnlyRow(d),
             \/ Submitted(d)
             \/ \E w \in Workers : CommitOf(w, d) \/ ErrorOf(w, d) \/ WithdrawalOf(w, d)
      PROVE  Outcome!Next \/ UNCHANGED Outcome!vars
  <2>1. /\ latestBar' = [latestBar EXCEPT ![d] = docs'[d].request]
        /\ settledBar' = [settledBar EXCEPT ![d] = docs'[d].processed]
        /\ enhanceBar' = [enhanceBar EXCEPT ![d] = docs'[d].desired]
        /\ phaseBar' = [phaseBar EXCEPT ![d] = PhaseOf(d)']
        /\ versionBar' = [versionBar EXCEPT ![d] = docs'[d].version]
        /\ docs'[d].request = docs[d].request => latestBar' = latestBar
        /\ docs'[d].processed = docs[d].processed => settledBar' = settledBar
        /\ docs'[d].desired = docs[d].desired => enhanceBar' = enhanceBar
        /\ PhaseOf(d)' = PhaseOf(d) => phaseBar' = phaseBar
        /\ docs'[d].version = docs[d].version => versionBar' = versionBar
    BY <1>1, <1>3, MappedRow
  <2>2. /\ latestBar[d] = docs[d].request /\ settledBar[d] = docs[d].processed
        /\ enhanceBar[d] = docs[d].desired /\ phaseBar[d] = PhaseOf(d)
        /\ versionBar[d] = docs[d].version
    BY DEF latestBar, settledBar, enhanceBar, phaseBar, versionBar
  <2>3. CASE Submitted(d)
    <3>1. PICK r \in Requests, wanted \in BOOLEAN :
            r > docs[d].request /\ r = docs'[d].request /\ wanted = docs'[d].desired
      <4>1. docs'[d] \in Document /\ docs[d].request \in Nat
        BY <1>1, Numbers DEF TypeOK, StoreTypeOK
      <4> QED
        BY <2>3, <4>1, FreshIsNew, StoreAssumption DEF Document, RequestIds, Requests
    <3>2. PhaseOf(d)' = "pending"
      BY <2>3 DEF Submitted, PhaseOf
    <3>3. UNCHANGED <<settledBar, versionBar>>
      BY <2>1, <2>3 DEF Submitted
    <3>4. Outcome!Submit(d, r, wanted)
      BY <2>1, <2>2, <3>1, <3>2, <3>3
      DEF Outcome!Submit, latestBar, settledBar, enhanceBar, phaseBar, versionBar
    <3> QED  BY <3>4 DEF Outcome!Next
  <2>4. ASSUME NEW w \in Workers, CommitOf(w, d) PROVE Outcome!Next
    <3>1. /\ docs[d].processed # docs[d].request
          /\ docs'[d].request = docs[d].request
          /\ docs'[d].processed = docs[d].request
          /\ docs'[d].desired = docs[d].desired
          /\ \/ /\ docs[d].desired /\ docs'[d].status = "Ready"
                /\ docs'[d].version = docs[d].version + 1
             \/ /\ ~docs[d].desired /\ docs'[d].status = "NotEnabled"
                /\ docs'[d].version = docs[d].version
      <4>1. docs[d].desired \in BOOLEAN /\ docs'[d].desired \in BOOLEAN
        BY <1>1 DEF TypeOK, StoreTypeOK, Document
      <4> QED  BY <1>3, <2>4, <4>1, CommitIsOutcome
    <3>2. PhaseOf(d)' = "settled"
      BY <3>1 DEF PhaseOf
    <3>3. UNCHANGED <<latestBar, enhanceBar>>
      BY <2>1, <3>1
    <3>4. CASE docs[d].desired
      <4>1. Outcome!Enhance(d)
        BY <2>1, <2>2, <3>1, <3>2, <3>3, <3>4
        DEF Outcome!Enhance, latestBar, settledBar, enhanceBar, phaseBar, versionBar
      <4> QED  BY <4>1 DEF Outcome!Next
    <3>5. CASE ~docs[d].desired
      <4>1. UNCHANGED versionBar
        BY <2>1, <3>1, <3>5
      <4>2. Outcome!Remove(d)
        BY <2>1, <2>2, <3>1, <3>2, <3>3, <3>5, <4>1
        DEF Outcome!Remove, latestBar, settledBar, enhanceBar, phaseBar, versionBar
      <4> QED  BY <4>2 DEF Outcome!Next
    <3> QED  BY <3>4, <3>5
  <2>5. ASSUME NEW w \in Workers, ErrorOf(w, d) PROVE Outcome!Next
    <3>1. /\ docs[d].processed # docs[d].request
          /\ docs'[d].request = docs[d].request
          /\ docs'[d].processed = docs[d].processed
          /\ docs'[d].desired = docs[d].desired
          /\ docs'[d].version = docs[d].version
          /\ docs'[d].status = "Failed"
      BY <1>1, <2>5
      DEF ErrorOf, MayRecordError, RequestIsCurrent, RecordDocumentError, TypeOK,
          StoreTypeOK, Document
    <3>2. PhaseOf(d)' = "failed"
      BY <3>1 DEF PhaseOf
    <3>3. UNCHANGED <<latestBar, settledBar, enhanceBar, versionBar>>
      BY <2>1, <3>1
    <3>4. Outcome!Fail(d)
      BY <2>1, <2>2, <3>1, <3>2, <3>3
      DEF Outcome!Fail, latestBar, settledBar, enhanceBar, phaseBar, versionBar
    <3> QED  BY <3>4 DEF Outcome!Next
  <2>6. ASSUME NEW w \in Workers, WithdrawalOf(w, d)
        PROVE  Outcome!Next \/ UNCHANGED Outcome!vars
    <3>1. /\ docs[d].processed = docs[d].request
          /\ docs[d].status \in {"Ready", "NotEnabled"}
          /\ docs[d].desired <=> docs[d].status = "Ready"
          /\ docs'[d].request = docs[d].request
          /\ docs'[d].processed = docs[d].processed
          /\ docs'[d].version = docs[d].version
          /\ docs'[d].status = "NotEnabled"
          /\ docs'[d].desired = FALSE
      BY <2>6, WithdrawalIsSettled
    <3>2. PhaseOf(d) = "settled" /\ PhaseOf(d)' = "settled"
      BY <3>1 DEF PhaseOf
    <3>3. UNCHANGED <<latestBar, settledBar, phaseBar, versionBar>>
      BY <2>1, <3>1, <3>2
    <3>4. CASE docs[d].desired
      <4>1. Outcome!Withdraw(d)
        BY <2>1, <2>2, <3>1, <3>2, <3>3, <3>4
        DEF Outcome!Withdraw, latestBar, settledBar, enhanceBar, phaseBar, versionBar
      <4> QED  BY <4>1 DEF Outcome!Next
    <3>5. CASE ~docs[d].desired
      <4>1. UNCHANGED enhanceBar
        <5>1. docs[d].desired \in BOOLEAN
          BY <1>1 DEF TypeOK, StoreTypeOK, Document
        <5> QED  BY <2>1, <3>1, <3>5, <5>1
      <4> QED
        BY <3>3, <4>1
        DEF Outcome!vars, latestBar, settledBar, enhanceBar, phaseBar, versionBar
    <3> QED  BY <3>4, <3>5
  <2> QED  BY <1>3, <2>3, <2>4, <2>5, <2>6
<1> QED  BY <1>2, <1>3, RowWriters

\* The queue implements its promise: for every document at most one outcome for each
\* request, none for a superseded one, each of the kind that was asked for, whatever
\* jobs, leases, crashes and retries do underneath.
THEOREM QueueRefinement == Spec => RefinesRequestOutcome
<1>1. SafeInv /\ [Next]_vars => [Outcome!Next]_(Outcome!vars)
  BY MappedStep
<1> QED
  BY <1>1, MappedInit, QueueIsSafe, PTL DEF Spec, RefinesRequestOutcome, Outcome!Spec
=============================================================================
