------------------------- MODULE ComposedQueueProofs -------------------------
(***************************************************************************)
(* The two models built on JobQueue, proved on top of its proofs.          *)
(*                                                                         *)
(* The records of an upload: none of their writes is fenced by the claim,  *)
(* and yet the timeline, the files, the notes and the corpus agree with    *)
(* the outcomes, for any uploads, workers and bounds.                      *)
(*                                                                         *)
(* The control columns: a poll puts documents back to older requests, so   *)
(* that little of the queue's invariant is left, but what is committed is  *)
(* still committed under a claim.                                          *)
(***************************************************************************)
EXTENDS Jobs, SharePointControl, JobQueueProofs

-----------------------------------------------------------------------------
(* Uploads: the steps, as steps of the queue. *)

LEMMA RequestsOfThePage ==
    ASSUME NEW d \in Docs, NEW r \in Requests,
           CreateUpload(d, r) \/ StatusPageRefresh(d, r) \/ SubmitTryout(d, r)
    PROVE  RequestStep
<1>1. CASE CreateUpload(d, r)
  BY <1>1 DEF CreateUpload, RequestStep
<1>2. CASE StatusPageRefresh(d, r)
  <2>1. PortalRequest(d, r, "upsert")
    BY <1>2 DEF StatusPageRefresh, Refresh, PortalRequest
  <2> QED  BY <2>1 DEF RequestStep, JobTypes
<1>3. CASE SubmitTryout(d, r)
  <2>1. TryoutEnqueue(d, r)
    BY <1>3 DEF SubmitTryout, Refresh, TryoutEnqueue
  <2> QED  BY <2>1 DEF RequestStep
<1> QED  BY <1>1, <1>2, <1>3

LEMMA UploadWork ==
    ASSUME NEW w \in Workers, UploadStep(w)
    PROVE  WorkOnJob(w) \/ UNCHANGED vars
BY DEF UploadStep, ReadUpload, LoadSource, Analyse, StoreHtml, RecordArtifact,
       CommitUpload, Capture, UploadError, JudgeUploadError, RecordUploadError, TellEnd,
       CloseUpload, WorkOnJob

Dies == \E d \in Docs, r \in Requests : TryoutDies(d, r)

LEMMA QueueSteps ==
    ASSUME [UploadNext]_uploadVars
    PROVE  [Next]_vars \/ Dies
<1>1. ASSUME NEW d \in Docs, StoreSource(d) PROVE UNCHANGED vars
  BY <1>1 DEF StoreSource
<1>2. ASSUME NEW j \in JobIds, TellReceived(j) PROVE UNCHANGED vars
  BY <1>2 DEF TellReceived
<1>3. ASSUME NEW j \in JobIds, QueueStep(j) PROVE Next
  BY <1>3 DEF QueueStep, Next, FaultStep
<1>4. ASSUME NEW w \in Workers, ClaimUpload(w) \/ CrashUpload(w) PROVE Next
  BY <1>4 DEF ClaimUpload, CrashUpload, Next, FaultStep
<1>5. ASSUME NEW w \in Workers, UploadStep(w) PROVE [Next]_vars
  BY <1>5, UploadWork DEF Next
<1>6. UNCHANGED uploadVars => UNCHANGED vars
  BY DEF uploadVars
<1> QED
  BY <1>1, <1>2, <1>3, <1>4, <1>5, <1>6, RequestsOfThePage DEF UploadNext, Next, Dies

LEMMA SafeUploadStep ==
    ASSUME SafeInv, [UploadNext]_uploadVars
    PROVE  SafeInv'
<1>1. CASE [Next]_vars
  BY <1>1, SafeStep
<1>2. ASSUME NEW d \in Docs, NEW r \in Requests, TryoutDies(d, r) PROVE SafeInv'
  <2>1. /\ UNCHANGED <<docs, jobs, lastRequest, pc, job, attempt, seen>>
        /\ tryouts' \subseteq tryouts /\ faults' = faults + 1 /\ faults < MaxFaults
    BY <1>2 DEF TryoutDies, storeVars, workerVars
  <2>2. TypeOK'
    BY <2>1, QueueAssumption
    DEF SafeInv, TypeOK, StoreTypeOK, WorkersTypeOK, LocalsSet, HasJob
  <2>3. TablesInv'
    BY <2>1
    DEF SafeInv, TablesInv, RequestsInOrder, JobsBelong, OneTypePerRequest, Known,
        DesiredTellsTheType, TryoutsWait, StatusTellsTheOutcome, CompletedMeansCommitted
  <2>4. ASSUME NEW w \in Workers PROVE WorkerInv(w)'
    <3>1. WorkerInv(w)
      BY DEF SafeInv
    <3> QED
      BY <2>1, <3>1
      DEF WorkerInv, HasJob, Known, NotSettledYet, Working, ClaimIsCurrent, TheDoc,
          TheRequest, JobClaimIsCurrent, RightlyStale, CommittedBeforeComplete,
          NotWaitingAfterError, StillCurrent, RequestIsCurrent, ReadIsRecent,
          ReconcilesSettled, Exists
  <2> QED  BY <2>2, <2>3, <2>4 DEF SafeInv
<1> QED  BY <1>1, <1>2, QueueSteps DEF Dies

-----------------------------------------------------------------------------
(* What a step may do to the tables. *)

LEMMA DyingChangesNothing ==
    ASSUME Dies
    PROVE  UNCHANGED <<docs, jobs, lastRequest, pc, job, attempt, seen>>
BY DEF Dies, TryoutDies, storeVars, workerVars

LEMMA UploadRows ==
    ASSUME SafeInv, [UploadNext]_uploadVars, NEW d \in Docs
    PROVE  /\ RowChange(d)
           /\ docs[d].request <= docs'[d].request
           /\ docs[d].processed <= docs'[d].processed
           /\ docs'[d].request \in Nat /\ docs'[d].processed \in Nat
           /\ lastRequest' \in {lastRequest, lastRequest + 1}
<1>1. /\ docs[d].request \in Nat /\ docs[d].processed \in Nat
      /\ docs[d].processed <= docs[d].request
  BY Numbers
<1>2. CASE [Next]_vars
  <2>1. RowChange(d) /\ docs[d].request <= docs'[d].request
    BY <1>2, RowOf
  <2>2. docs'[d].processed >= docs[d].processed
    BY <1>2, OrderPreserved DEF SafeInv, TablesInv
  <2>3. lastRequest' \in {lastRequest, lastRequest + 1}
    BY <1>2, Rows DEF SafeInv
  <2>4. TypeOK'
    BY <1>2, TypingStep DEF SafeInv
  <2>5. docs'[d].request \in Nat /\ docs'[d].processed \in Nat
    BY <2>4, StoreAssumption DEF TypeOK, StoreTypeOK, Document, RequestIds
  <2> QED  BY <1>1, <2>1, <2>2, <2>3, <2>5
<1>3. CASE Dies
  BY <1>1, <1>3, DyingChangesNothing DEF RowChange
<1> QED  BY <1>2, <1>3, QueueSteps

LEMMA UploadJobRows ==
    ASSUME SafeInv, [UploadNext]_uploadVars, NEW j \in JobIds
    PROVE  JobChange(j) /\ (Known(j) => Known(j)')
<1>1. CASE [Next]_vars
  BY <1>1, JobOf
<1>2. CASE Dies
  BY <1>2, DyingChangesNothing DEF JobChange, Known
<1> QED  BY <1>1, <1>2, QueueSteps

-----------------------------------------------------------------------------
(* What a step may do to a worker, and to the records. *)

SameWorker(w) ==
    /\ SameLocals(w)
    /\ step'[w] = step[w] /\ base'[w] = base[w] /\ used'[w] = used[w]

RecordsTyped ==
    /\ step \in [Workers -> Steps]
    /\ base \in [Workers -> Versions]
    /\ used \in [Workers -> SUBSET Requests]

LEMMA StepsOfAnother ==
    ASSUME TypeOK, RecordsTyped, NEW v \in Workers, NEW w \in Workers, v # w,
           ClaimUpload(v) \/ UploadStep(v) \/ CrashUpload(v)
    PROVE  SameWorker(w)
<1>1. SameLocals(w)
  <2>1. CASE ClaimUpload(v)
    BY <2>1, OtherWorker DEF ClaimUpload, SameLocals
  <2>2. CASE UploadStep(v)
    BY <2>2, UploadWork, OtherWorker DEF SameLocals, vars, workerVars
  <2>3. CASE CrashUpload(v)
    BY <2>3 DEF CrashUpload, Crash, Drop, SameLocals, TypeOK, WorkersTypeOK
  <2> QED  BY <2>1, <2>2, <2>3
<1>2. step'[w] = step[w] /\ base'[w] = base[w] /\ used'[w] = used[w]
  <2>1. CASE ClaimUpload(v)
    BY <2>1 DEF ClaimUpload, recordVars
  <2>2. CASE CrashUpload(v)
    BY <2>2 DEF CrashUpload, Forget, RecordsTyped
  <2>3. CASE UploadStep(v)
    BY <2>3
    DEF UploadStep, ReadUpload, LoadSource, Analyse, StoreHtml, RecordArtifact,
        CommitUpload, Capture, UploadError, JudgeUploadError, RecordUploadError, TellEnd,
        CloseUpload, Step, Forget, RecordsTyped
  <2> QED  BY <2>1, <2>2, <2>3
<1> QED  BY <1>1, <1>2 DEF SameWorker

\* A worker's locals, and its place within a step, change in its own steps only.
LEMMA OwnSteps ==
    ASSUME TypeOK, RecordsTyped, [UploadNext]_uploadVars, NEW w \in Workers
    PROVE  SameWorker(w) \/ ClaimUpload(w) \/ UploadStep(w) \/ CrashUpload(w)
<1>1. ASSUME NEW v \in Workers, v # w,
             ClaimUpload(v) \/ UploadStep(v) \/ CrashUpload(v)
      PROVE  SameWorker(w)
  BY <1>1, StepsOfAnother
<1>2. ASSUME UNCHANGED <<workerVars, localVars>> PROVE SameWorker(w)
  BY <1>2 DEF SameWorker, SameLocals, workerVars, localVars
<1>3. ASSUME NEW d \in Docs, NEW r \in Requests,
             \/ CreateUpload(d, r)
             \/ StatusPageRefresh(d, r)
             \/ SubmitTryout(d, r)
             \/ TryoutDies(d, r)
      PROVE  UNCHANGED <<workerVars, localVars>>
  BY <1>3
  DEF CreateUpload, TryoutCreate, StatusPageRefresh, Refresh, SubmitTryout, TryoutDies,
      recordVars, localVars
<1>4. ASSUME NEW d \in Docs, StoreSource(d) PROVE UNCHANGED <<workerVars, localVars>>
  BY <1>4 DEF StoreSource, vars
<1>5. ASSUME NEW j \in JobIds, TellReceived(j) \/ QueueStep(j)
      PROVE  UNCHANGED <<workerVars, localVars>>
  BY <1>5
  DEF TellReceived, QueueStep, SlowLeaseExpires, AdminRetry, AbandonedLeaseExpires,
      recordVars, localVars, vars
<1>6. UNCHANGED uploadVars => UNCHANGED <<workerVars, localVars>>
  BY DEF uploadVars, vars, recordVars, localVars
<1> QED  BY <1>1, <1>2, <1>3, <1>4, <1>5, <1>6 DEF UploadNext
-----------------------------------------------------------------------------
(* Facts the parts of the invariant share. *)

\* A worker with a job works on the refresh of an upload.
LEMMA OnUpload ==
    ASSUME RecordsInv, NEW w \in Workers, HasJob(w)
    PROVE  /\ job[w] \in JobIds /\ Known(job[w])
           /\ TheDoc(w) \in Docs /\ IsUpload(w) /\ ~IsDelete(w)
           /\ TheRequest(w) \in Requests /\ TheRequest(w) \in Nat
           /\ TheRequest(w) <= docs[TheDoc(w)].request
           /\ docs[TheDoc(w)].request <= lastRequest
<1>1. /\ job[w] \in JobIds /\ Known(job[w]) /\ TheDoc(w) \in Docs
      /\ TheRequest(w) \in Nat /\ TheRequest(w) <= docs[TheDoc(w)].request
  BY WorkingJob DEF RecordsInv
<1>2. DocOf(job[w]) \in Uploads /\ TypeOf(job[w]) = "upsert"
  BY <1>1 DEF RecordsInv, UploadJobsInv
<1>3. TheRequest(w) \in Requests
  BY <1>1 DEF TheRequest, RequestOf, JobIds
<1>4. docs[TheDoc(w)].request <= lastRequest
  BY <1>1 DEF RecordsInv, SafeInv, TablesInv, RequestsInOrder
<1> QED  BY <1>1, <1>2, <1>3, <1>4 DEF IsUpload, IsDelete, TheDoc

LEMMA WithinStep ==
    ASSUME RecordsInv, NEW w \in Workers
    PROVE  /\ pc[w] \in {"idle", "claimed", "process", "commit", "complete", "stale",
                         "error", "record_error", "fail_job"}
           /\ step[w] \in {"source", "analyse", "store", "row"} <=> pc[w] = "process"
           /\ step[w] \in Steps
           /\ step[w] = "capture" => pc[w] = "complete"
           /\ step[w] \in {"tell", "close"} => pc[w] \in {"complete", "stale", "fail_job"}
           /\ step[w] # "" => HasJob(w)
           /\ pc[w] # "idle" => HasJob(w)
BY DEF RecordsInv, UploadWorkerInv, PlaceInv, StepsAt, HasJob, Steps

LEMMA RecordsAreTyped == RecordsInv => TypeOK /\ RecordsTyped /\ SafeInv
BY DEF RecordsInv, SafeInv, UploadTypeOK, RecordsTyped

LEMMA RequestNumbers ==
    ASSUME RecordsInv
    PROVE  /\ lastRequest \in Nat /\ MaxRequests \in Nat
           /\ \A d \in Docs :
                /\ docs[d].request \in Nat /\ docs[d].processed \in Nat
                /\ docs[d].version \in Nat
                /\ docs[d].processed <= docs[d].request
                /\ docs[d].request <= lastRequest
                /\ docs[d].version <= docs[d].processed
                /\ docs[d].processed <= MaxRequests
<1>1. docs \in [Docs -> Document]
  BY DEF RecordsInv, SafeInv, TypeOK, StoreTypeOK
<1> QED
  BY <1>1, Numbers, StoreAssumption DEF RecordsInv, VersionsInv, Document, RequestIds

-----------------------------------------------------------------------------
(* Commits. *)

CommittedBy(w, d) ==
    /\ CommitUpload(w)
    /\ MayCommit(w)
    /\ TheDoc(w) = d
    /\ docs'[d].request = docs[d].request
    /\ docs'[d].processed = TheRequest(w)
    /\ docs'[d].status = "Ready"
    /\ docs'[d].version = docs[d].version + 1

\* A worker that may commit is the only one, and commits for the first time.
LEMMA MayCommitOnce ==
    ASSUME RecordsInv, NEW w \in Workers, Working(w), MayCommit(w)
    PROVE  /\ docs[TheDoc(w)].request = TheRequest(w)
           /\ docs[TheDoc(w)].processed < TheRequest(w)
           /\ \A v \in Workers :
                Working(v) /\ MayCommit(v) /\ TheDoc(v) = TheDoc(w) => v = w
<1>1. HasJob(w)
  BY DEF Working, HasJob
<1>2. docs[TheDoc(w)].request = TheRequest(w) /\ ClaimIsCurrent(w)
  BY DEF MayCommit, StillCurrent, RequestIsCurrent
<1>3. docs[TheDoc(w)].processed # TheRequest(w)
  BY <1>2 DEF RecordsInv, SafeInv, WorkerInv, NotSettledYet
<1>4. docs[TheDoc(w)].processed < TheRequest(w)
  BY <1>1, <1>2, <1>3, OnUpload, RequestNumbers
<1>5. ASSUME NEW v \in Workers, Working(v), MayCommit(v), TheDoc(v) = TheDoc(w)
      PROVE  v = w
  <2>1. TheRequest(v) = TheRequest(w) /\ ClaimIsCurrent(v) /\ HasJob(v)
    BY <1>2, <1>5 DEF MayCommit, StillCurrent, RequestIsCurrent, Working, HasJob
  <2>2. /\ job[v] \in JobIds /\ Known(job[v])
        /\ job[w] \in JobIds /\ Known(job[w])
    BY <1>1, <2>1, OnUpload
  <2>3. job[v] = job[w]
    BY <1>5, <2>1, <2>2
    DEF RecordsInv, SafeInv, TablesInv, OneTypePerRequest, TheDoc, TheRequest
  <2> QED  BY <1>2, <2>1, <2>3 DEF ClaimIsCurrent, JobClaimIsCurrent
<1> QED  BY <1>2, <1>4, <1>5

LEMMA CommitRows ==
    ASSUME RecordsInv, NEW w \in Workers, CommitUpload(w), NEW d \in Docs
    PROVE  docs'[d] = docs[d] \/ CommittedBy(w, d)
<1>1. CASE ~MayCommit(w)
  BY <1>1 DEF CommitUpload, Commit
<1>2. CASE MayCommit(w)
  <2>1. HasJob(w)
    BY DEF CommitUpload, Commit, HasJob
  <2>2. RecordSuccess(TheDoc(w), TheRequest(w)) /\ TheDoc(w) \in Docs
    BY <1>2, <2>1, OnUpload DEF CommitUpload, Commit
  <2>3. docs \in [Docs -> Document]
    BY DEF RecordsInv, SafeInv, TypeOK, StoreTypeOK
  <2>4. CASE d # TheDoc(w)
    BY <2>2, <2>3, <2>4 DEF RecordSuccess
  <2>5. CASE d = TheDoc(w)
    BY <1>2, <2>2, <2>3, <2>5 DEF RecordSuccess, CommittedBy, Document
  <2> QED  BY <2>4, <2>5
<1> QED  BY <1>1, <1>2

\* A document's row changes by a request, by an error or by such a commit.
LEMMA UploadDocRows ==
    ASSUME RecordsInv, [UploadNext]_uploadVars, NEW d \in Docs
    PROVE  \/ docs'[d] = docs[d]
           \/ Submitted(d)
           \/ ErrorRecorded(d)
           \/ \E w \in Workers : CommittedBy(w, d)
<1> DEFINE Goal == \/ docs'[d] = docs[d]
                   \/ Submitted(d)
                   \/ ErrorRecorded(d)
                   \/ \E w \in Workers : CommittedBy(w, d)
<1> SUFFICES Goal
  OBVIOUS
<1>0. TypeOK
  BY RecordsAreTyped
<1>1. ASSUME NEW e \in Docs, NEW r \in Requests, QueueRequest(e, r, "upsert") PROVE Goal
  <2>1. Submitted(e) /\ \A x \in Docs \ {e} : docs'[x] = docs[x]
    BY <1>0, <1>1, UpsertRows DEF QueueRequest, JobTypes
  <2> QED  BY <2>1
<1>2. ASSUME NEW e \in Docs, NEW r \in Requests, CreateUpload(e, r) PROVE Goal
  <2> DEFINE wanted == TRUE
  <2>1. /\ docs' = [docs EXCEPT ![e].desired = wanted, ![e].status = "Queued",
                                ![e].request = r]
        /\ lastRequest' = r /\ r = lastRequest + 1
    BY <1>2 DEF CreateUpload, TryoutCreate, FreshRequest
  <2> HIDE DEF wanted
  <2> QED
    BY <1>0, <2>1 DEF Submitted, TypeOK, StoreTypeOK, Document
<1>3. ASSUME NEW w \in Workers, UploadStep(w) PROVE Goal
  <2>1. CASE CommitUpload(w)
    BY <2>1, CommitRows
  <2>2. CASE RecordUploadError(w)
    <3>1. HasJob(w)
      BY <2>2 DEF RecordUploadError, RecordError, HasJob
    <3>2. docs \in [Docs -> Document]
      BY <1>0 DEF TypeOK, StoreTypeOK
    <3>3. CASE MayRecordError(TheDoc(w), TheRequest(w)) /\ ClaimIsCurrent(w)
      BY <2>2, <3>2, <3>3
      DEF RecordUploadError, RecordError, RecordDocumentError, MayRecordError,
          RequestIsCurrent, ErrorRecorded, Document
    <3>4. CASE ~(MayRecordError(TheDoc(w), TheRequest(w)) /\ ClaimIsCurrent(w))
      BY <2>2, <3>4 DEF RecordUploadError, RecordError
    <3> QED  BY <3>3, <3>4
  <2>3. CASE ~CommitUpload(w) /\ ~RecordUploadError(w)
    BY <1>3, <2>3
    DEF UploadStep, ReadUpload, LoadSource, Analyse, StoreHtml, RecordArtifact, Capture,
        UploadError, JudgeUploadError, TellEnd, CloseUpload, ReadDocument, Process,
        KnownError, JudgeError, Complete, Cancel, FailJob, vars, storeVars
  <2> QED  BY <2>1, <2>2, <2>3
<1>4. ASSUME NEW e \in Docs, NEW r \in Requests, StatusPageRefresh(e, r) PROVE Goal
  BY <1>1, <1>4 DEF StatusPageRefresh, Refresh
<1>5. ASSUME NEW e \in Docs, NEW r \in Requests, SubmitTryout(e, r) PROVE Goal
  BY <1>1, <1>5 DEF SubmitTryout, Refresh
<1>6. ASSUME UNCHANGED docs PROVE Goal
  BY <1>6
<1>7. ASSUME NEW e \in Docs, NEW r \in Requests, TryoutDies(e, r) PROVE Goal
  BY <1>6, <1>7 DEF TryoutDies, storeVars
<1>8. ASSUME NEW e \in Docs, StoreSource(e) PROVE Goal
  BY <1>6, <1>8 DEF StoreSource, vars, storeVars
<1>9. ASSUME NEW j \in JobIds, TellReceived(j) \/ QueueStep(j) PROVE Goal
  BY <1>6, <1>9
  DEF TellReceived, QueueStep, SlowLeaseExpires, AdminRetry, AbandonedLeaseExpires, vars,
      storeVars
<1>10. ASSUME NEW w \in Workers, ClaimUpload(w) \/ CrashUpload(w) PROVE Goal
  BY <1>6, <1>10 DEF ClaimUpload, CrashUpload, Claim, Crash, storeVars
<1>11. UNCHANGED uploadVars => Goal
  BY <1>6 DEF uploadVars, vars, storeVars
<1> HIDE DEF Goal
<1> QED
  BY <1>2, <1>3, <1>4, <1>5, <1>7, <1>8, <1>9, <1>10, <1>11 DEF UploadNext
-----------------------------------------------------------------------------
(* The writers of each record. *)

LEMMA StageAtEnds ==
    /\ StageAt("complete") = "READY"
    /\ StageAt("stale") = "CANCELLED"
    /\ StageAt("fail_job") = "FAILED"
BY DEF StageAt

\* What a worker's step writes outside its own locals.
LEMMA WorkerWrites ==
    ASSUME RecordsInv, NEW w \in Workers, UploadStep(w)
    PROVE  /\ UNCHANGED <<commentVars, received, sources>>
           /\ UNCHANGED files \/ StoreHtml(w)
           /\ UNCHANGED rows \/ RecordArtifact(w)
           /\ UNCHANGED corpus \/ Capture(w)
           /\ UNCHANGED timelineVars \/ \E stage \in Stages : Tell(job[w], stage)
           /\ HasJob(w)
<1>1. HasJob(w)
  BY WithinStep
  DEF UploadStep, ReadUpload, LoadSource, Analyse, StoreHtml, RecordArtifact,
      CommitUpload, Capture, UploadError, JudgeUploadError, RecordUploadError, TellEnd,
      CloseUpload, ReadDocument, Commit, JudgeError, RecordError, HasJob
<1>2. CASE TellEnd(w)
  <2>1. StageAt(pc[w]) \in Stages
    BY <1>2, WithinStep, StageAtEnds DEF TellEnd, Stages
  <2> QED  BY <1>1, <1>2, <2>1 DEF TellEnd, storedVars
<1>3. CASE ReadUpload(w) \/ LoadSource(w)
  <2>1. "CLAIMED" \in Stages /\ "DOWNLOADING" \in Stages
    BY DEF Stages
  <2> QED  BY <1>1, <1>3, <2>1 DEF ReadUpload, LoadSource, storedVars
<1>4. CASE ~TellEnd(w) /\ ~ReadUpload(w) /\ ~LoadSource(w)
  BY <1>1, <1>4
  DEF UploadStep, Analyse, StoreHtml, RecordArtifact, CommitUpload, Capture, UploadError,
      JudgeUploadError, RecordUploadError, CloseUpload, storedVars
<1> QED  BY <1>2, <1>3, <1>4

\* What the pages, time and faults write.
LEMMA OthersWrite ==
    ASSUME UploadNext, \A w \in Workers : ~UploadStep(w)
    PROVE  /\ UNCHANGED <<files, rows, corpus>>
           /\ UNCHANGED commentVars \/ \E d \in Docs, r \in Requests : Refresh(d, r)
           /\ UNCHANGED timelineVars \/ \E j \in JobIds : Tell(j, "RECEIVED")
           /\ received' \subseteq received
                \/ \E d \in Docs, r \in Requests : Refresh(d, r)
           /\ sources' = sources \/ \E d \in Docs : StoreSource(d)
<1> DEFINE Goal == /\ UNCHANGED <<files, rows, corpus>>
                   /\ UNCHANGED commentVars \/ \E d \in Docs, r \in Requests : Refresh(d, r)
                   /\ UNCHANGED timelineVars \/ \E j \in JobIds : Tell(j, "RECEIVED")
                   /\ received' \subseteq received
                        \/ \E d \in Docs, r \in Requests : Refresh(d, r)
                   /\ sources' = sources \/ \E d \in Docs : StoreSource(d)
<1> SUFFICES Goal
  OBVIOUS
<1>1. ASSUME UNCHANGED recordVars PROVE Goal
  BY <1>1 DEF recordVars, commentVars, timelineVars
<1>2. ASSUME NEW d \in Docs, NEW r \in Requests, Refresh(d, r) PROVE Goal
  BY <1>2 DEF Refresh, storedVars
<1>3. ASSUME NEW d \in Docs, StoreSource(d) PROVE Goal
  BY <1>3 DEF StoreSource
<1>4. ASSUME NEW j \in JobIds, TellReceived(j) PROVE Goal
  BY <1>4 DEF TellReceived, storedVars
<1>5. ASSUME NEW w \in Workers, CrashUpload(w) PROVE Goal
  BY <1>5 DEF CrashUpload, storedVars
<1>6. ASSUME NEW d \in Docs, NEW r \in Requests,
             CreateUpload(d, r) \/ StatusPageRefresh(d, r) \/ SubmitTryout(d, r)
               \/ TryoutDies(d, r)
      PROVE  Goal
  BY <1>1, <1>2, <1>6
  DEF CreateUpload, StatusPageRefresh, SubmitTryout, TryoutDies
<1>7. ASSUME NEW w \in Workers, ClaimUpload(w) PROVE Goal
  BY <1>1, <1>7 DEF ClaimUpload
<1>8. ASSUME NEW j \in JobIds, QueueStep(j) PROVE Goal
  BY <1>1, <1>8 DEF QueueStep
<1> HIDE DEF Goal
<1> QED  BY <1>3, <1>4, <1>5, <1>6, <1>7, <1>8 DEF UploadNext

LEMMA Writers ==
    ASSUME RecordsInv, [UploadNext]_uploadVars
    PROVE  /\ UNCHANGED files \/ \E w \in Workers : StoreHtml(w)
           /\ UNCHANGED rows \/ \E w \in Workers : RecordArtifact(w)
           /\ UNCHANGED corpus \/ \E w \in Workers : Capture(w)
           /\ UNCHANGED commentVars \/ \E d \in Docs, r \in Requests : Refresh(d, r)
           /\ UNCHANGED timelineVars
                \/ \E j \in JobIds, stage \in Stages : Tell(j, stage)
           /\ received' \subseteq received
                \/ \E d \in Docs, r \in Requests : Refresh(d, r)
           /\ sources' = sources \/ \E d \in Docs : StoreSource(d)
<1> "RECEIVED" \in Stages
  BY DEF Stages
<1>1. ASSUME NEW w \in Workers, UploadStep(w)
      PROVE  /\ UNCHANGED <<commentVars, received, sources>>
             /\ UNCHANGED files \/ StoreHtml(w)
             /\ UNCHANGED rows \/ RecordArtifact(w)
             /\ UNCHANGED corpus \/ Capture(w)
             /\ UNCHANGED timelineVars
                  \/ \E j \in JobIds, stage \in Stages : Tell(j, stage)
  BY <1>1, WorkerWrites, OnUpload
<1>2. CASE UNCHANGED uploadVars
  BY <1>2 DEF uploadVars, recordVars, commentVars, timelineVars
<1> QED  BY <1>1, <1>2, OthersWrite

\* What is stored is a file, and not the NULL of a version that has none.
LEMMA HtmlIsStored ==
    ASSUME RecordsInv, NEW w \in Workers, StoreHtml(w)
    PROVE  /\ [request |-> TheRequest(w), notes |-> used[w]] \in Html
           /\ [request |-> TheRequest(w), notes |-> used[w]] # None
<1>1. TheRequest(w) \in Requests
  BY WithinStep, OnUpload DEF StoreHtml
<1>2. used[w] \in SUBSET Requests
  BY DEF RecordsInv, UploadTypeOK
<1>3. [request |-> TheRequest(w), notes |-> used[w]] \in Html
  BY <1>1, <1>2 DEF Html
<1> QED  BY <1>3, HtmlAssumption

LEMMA FileWritten ==
    ASSUME RecordsInv, [UploadNext]_uploadVars, NEW d \in Docs, NEW v \in Versions
    PROVE  \/ files'[d][v] = files[d][v]
           \/ \E w \in Workers :
                /\ StoreHtml(w) /\ TheDoc(w) = d
                /\ files'[d][v] = [request |-> TheRequest(w), notes |-> used[w]]
<1>1. CASE UNCHANGED files
  BY <1>1
<1>2. ASSUME NEW w \in Workers, StoreHtml(w)
      PROVE  \/ files'[d][v] = files[d][v]
             \/ /\ TheDoc(w) = d
                /\ files'[d][v] = [request |-> TheRequest(w), notes |-> used[w]]
  <2> DEFINE html == [request |-> TheRequest(w), notes |-> used[w]]
             n    == NextVersion(w)
  <2>1. files' = [files EXCEPT ![TheDoc(w)][n] = html]
    BY <1>2 DEF StoreHtml
  <2>2. files \in [Docs -> [Versions -> Html \cup {None}]]
    BY DEF RecordsInv, UploadTypeOK
  <2>3. TheDoc(w) \in Docs
    BY <1>2, WithinStep, OnUpload DEF StoreHtml
  <2> HIDE DEF html, n
  <2>4. \/ files'[d][v] = files[d][v]
        \/ TheDoc(w) = d /\ files'[d][v] = html
    BY <2>1, <2>2, <2>3
  <2> QED  BY <2>4 DEF html
<1> QED  BY <1>1, <1>2, Writers

LEMMA RowWritten ==
    ASSUME RecordsInv, [UploadNext]_uploadVars, NEW d \in Docs
    PROVE  \/ rows'[d] = rows[d]
           \/ \E w \in Workers :
                RecordArtifact(w) /\ TheDoc(w) = d /\ rows'[d] = NextVersion(w)
<1>1. ASSUME NEW w \in Workers, RecordArtifact(w)
      PROVE  rows'[d] = rows[d] \/ (TheDoc(w) = d /\ rows'[d] = NextVersion(w))
  BY <1>1 DEF RecordArtifact, RecordsInv, UploadTypeOK
<1> QED  BY <1>1, Writers

LEMMA CorpusWritten ==
    ASSUME RecordsInv, [UploadNext]_uploadVars, NEW x \in Docs \X Requests
    PROVE  \/ corpus'[x] = corpus[x]
           \/ \E w \in Workers :
                /\ Capture(w) /\ <<TheDoc(w), TheRequest(w)>> = x
                /\ corpus'[x] = corpus[x] + 1
<1>1. ASSUME NEW w \in Workers, Capture(w)
      PROVE  \/ corpus'[x] = corpus[x]
             \/ <<TheDoc(w), TheRequest(w)>> = x /\ corpus'[x] = corpus[x] + 1
  BY <1>1 DEF Capture, RecordsInv, UploadTypeOK
<1> QED  BY <1>1, Writers

LEMMA TimelineGrows ==
    ASSUME RecordsInv, [UploadNext]_uploadVars, NEW j \in JobIds
    PROVE  events[j] \subseteq events'[j]
BY Writers DEF timelineVars, Tell, RecordsInv, UploadTypeOK

LEMMA CommentWritten ==
    ASSUME RecordsInv, [UploadNext]_uploadVars
    PROVE  \/ UNCHANGED commentVars
           \/ \E d \in Docs, r \in Requests :
                /\ Submitted(d)
                /\ docs'[d].request = r
                /\ r = lastRequest + 1
                /\ \A e \in Docs \ {d} : notes'[e] = notes[e]
                /\ \/ UNCHANGED commentVars
                   \/ comments' = comments \cup {<<d, r>>} /\ r \in notes'[d]
<1>1. ASSUME NEW d \in Docs, NEW r \in Requests, Refresh(d, r)
      PROVE  /\ Submitted(d)
             /\ docs'[d].request = r
             /\ r = lastRequest + 1
             /\ \A e \in Docs \ {d} : notes'[e] = notes[e]
             /\ \/ UNCHANGED commentVars
                \/ comments' = comments \cup {<<d, r>>} /\ r \in notes'[d]
  <2>1. Submitted(d) /\ docs'[d].request = r /\ r = lastRequest + 1
    BY <1>1, RecordsAreTyped, UpsertRows
    DEF Refresh, QueueRequest, FreshRequest, JobTypes
  <2>2. notes \in [Docs -> SUBSET Requests]
    BY DEF RecordsInv, UploadTypeOK
  <2>3. CASE Comment(d, r)
    <3>1. PICK old \in drafts[d] : notes' = [notes EXCEPT ![d] = old \cup {r}]
      BY <2>3 DEF Comment
    <3>2. \A e \in Docs \ {d} : notes'[e] = notes[e]
      BY <2>2, <3>1
    <3>3. r \in notes'[d]
      BY <2>2, <3>1
    <3> QED  BY <2>1, <2>3, <3>2, <3>3 DEF Comment
  <2>4. CASE UNCHANGED commentVars
    BY <2>1, <2>4 DEF commentVars
  <2> QED  BY <1>1, <2>3, <2>4 DEF Refresh
<1> QED  BY <1>1, Writers
-----------------------------------------------------------------------------
(* Typing. *)

LEMMA VersionBounds ==
    ASSUME RecordsInv
    PROVE  /\ \A d \in Docs : docs[d].version \in Versions
           /\ \A w \in Workers : base[w] \in Nat /\ NextVersion(w) \in Versions
<1>1. MaxRequests \in Nat
  BY StoreAssumption
<1>2. ASSUME NEW d \in Docs PROVE docs[d].version \in Versions
  BY <1>1, RequestNumbers DEF Versions
<1>3. ASSUME NEW w \in Workers PROVE base[w] \in Nat /\ NextVersion(w) \in Versions
  <2>1. base[w] <= MaxRequests /\ base[w] \in Versions
    BY DEF RecordsInv, UploadTypeOK, UploadWorkerInv, PlaceInv
  <2> QED  BY <1>1, <2>1 DEF NextVersion, Versions
<1> QED  BY <1>2, <1>3

LEMMA WorkerRecordsType ==
    ASSUME RecordsInv, NEW w \in Workers, UploadStep(w)
    PROVE  RecordsTyped'
<1>1. RecordsTyped
  BY RecordsAreTyped
<1>2. ASSUME NEW label \in Steps, Step(w, label) PROVE step' \in [Workers -> Steps]
  BY <1>1, <1>2 DEF Step, RecordsTyped
<1>3. CASE ReadUpload(w)
  <2>1. FirstStep(w) \in Steps
    BY DEF FirstStep, Steps
  <2>2. docs[TheDoc(w)].version \in Versions
    BY <1>3, WithinStep, OnUpload, VersionBounds DEF ReadUpload, ReadDocument
  <2> DEFINE version == docs[TheDoc(w)].version
             first   == FirstStep(w)
  <2>3. /\ base' = [base EXCEPT ![w] = version] /\ used' = used
        /\ step' = [step EXCEPT ![w] = first]
    BY <1>3 DEF ReadUpload, Step
  <2> HIDE DEF version, first
  <2> QED  BY <1>1, <2>1, <2>2, <2>3 DEF RecordsTyped, version, first
<1>4. CASE LoadSource(w) \/ StoreHtml(w) \/ RecordArtifact(w) \/ Capture(w)
             \/ UploadError(w) \/ TellEnd(w)
  <2>1. /\ \E label \in Steps : Step(w, label)
        /\ base' = base /\ used' = used
    BY <1>4
    DEF LoadSource, StoreHtml, RecordArtifact, Capture, UploadError, TellEnd, Steps
  <2> QED  BY <1>1, <1>2, <2>1 DEF RecordsTyped
<1>5. CASE Analyse(w)
  <2>1. notes[TheDoc(w)] \in SUBSET Requests
    BY <1>5, WithinStep, OnUpload DEF Analyse, RecordsInv, UploadTypeOK
  <2>2. Step(w, "store") /\ base' = base /\ used' = [used EXCEPT ![w] = notes[TheDoc(w)]]
    BY <1>5 DEF Analyse
  <2> QED  BY <1>1, <1>2, <2>1, <2>2 DEF RecordsTyped, Steps
<1>6. CASE CommitUpload(w) \/ JudgeUploadError(w)
  <2>1. /\ \E label \in {"capture", "tell", ""} : Step(w, label)
        /\ base' = base /\ used' = used
    BY <1>6 DEF CommitUpload, JudgeUploadError
  <2> QED  BY <1>1, <1>2, <2>1 DEF RecordsTyped, Steps
<1>7. ASSUME Forget(w) PROVE RecordsTyped'
  <2>1. 0 \in Versions
    BY StoreAssumption DEF Versions
  <2> QED  BY <1>1, <1>7, <2>1 DEF Forget, RecordsTyped, Steps
<1>8. CASE RecordUploadError(w)
  <2>1. CASE Step(w, "tell") /\ base' = base /\ used' = used
    BY <1>1, <1>2, <2>1 DEF RecordsTyped, Steps
  <2> QED  BY <1>7, <1>8, <2>1 DEF RecordUploadError
<1>9. CASE CloseUpload(w)
  BY <1>7, <1>9 DEF CloseUpload
<1> QED
  BY <1>3, <1>4, <1>5, <1>6, <1>8, <1>9 DEF UploadStep

LEMMA LocalRecordsType ==
    ASSUME RecordsInv, [UploadNext]_uploadVars
    PROVE  RecordsTyped'
<1>1. RecordsTyped
  BY RecordsAreTyped
<1>2. ASSUME UNCHANGED localVars PROVE RecordsTyped'
  BY <1>1, <1>2 DEF localVars, RecordsTyped
<1>3. ASSUME NEW d \in Docs, NEW r \in Requests,
             \/ CreateUpload(d, r)
             \/ StatusPageRefresh(d, r)
             \/ SubmitTryout(d, r)
             \/ TryoutDies(d, r)
      PROVE  UNCHANGED localVars
  BY <1>3
  DEF CreateUpload, StatusPageRefresh, Refresh, SubmitTryout, TryoutDies, recordVars,
      localVars
<1>4. ASSUME NEW d \in Docs, StoreSource(d) PROVE UNCHANGED localVars
  BY <1>4 DEF StoreSource
<1>5. ASSUME NEW j \in JobIds, TellReceived(j) \/ QueueStep(j) PROVE UNCHANGED localVars
  BY <1>5 DEF TellReceived, QueueStep, recordVars, localVars
<1>6. ASSUME NEW w \in Workers, CrashUpload(w) PROVE RecordsTyped'
  <2>1. 0 \in Versions
    BY StoreAssumption DEF Versions
  <2> QED  BY <1>1, <1>6, <2>1 DEF CrashUpload, Forget, RecordsTyped, Steps
<1>7. ASSUME NEW w \in Workers, ClaimUpload(w) PROVE UNCHANGED localVars
  BY <1>7 DEF ClaimUpload, recordVars, localVars
<1>8. UNCHANGED uploadVars => UNCHANGED localVars
  BY DEF uploadVars, recordVars, localVars
<1> QED
  BY <1>2, <1>3, <1>4, <1>5, <1>6, <1>7, <1>8, WorkerRecordsType DEF UploadNext

LEMMA CommentsType ==
    ASSUME RecordsInv, [UploadNext]_uploadVars
    PROVE  /\ comments' \subseteq Docs \X Requests
           /\ notes' \in [Docs -> SUBSET Requests]
           /\ drafts' \in [Docs -> SUBSET SUBSET Requests]
           /\ received' \subseteq JobIds
<1>1. /\ comments \subseteq Docs \X Requests
      /\ notes \in [Docs -> SUBSET Requests]
      /\ drafts \in [Docs -> SUBSET SUBSET Requests]
      /\ received \subseteq JobIds
  BY DEF RecordsInv, UploadTypeOK
<1>2. ASSUME NEW d \in Docs, NEW r \in Requests, Refresh(d, r)
      PROVE  received' \subseteq JobIds
  BY <1>1, <1>2 DEF Refresh, JobIds, JobTypes
<1>3. ASSUME NEW d \in Docs, NEW r \in Requests, Comment(d, r)
      PROVE  /\ comments' \subseteq Docs \X Requests
             /\ notes' \in [Docs -> SUBSET Requests]
             /\ drafts' \in [Docs -> SUBSET SUBSET Requests]
  <2>1. PICK old \in drafts[d] : notes' = [notes EXCEPT ![d] = old \cup {r}]
    BY <1>3 DEF Comment
  <2>2. old \cup {r} \in SUBSET Requests
    BY <1>1
  <2>3. notes' \in [Docs -> SUBSET Requests]
    BY <1>1, <2>1, <2>2
  <2> QED  BY <1>1, <1>3, <2>3 DEF Comment
<1>4. ASSUME NEW d \in Docs, NEW r \in Requests, Refresh(d, r)
      PROVE  /\ comments' \subseteq Docs \X Requests
             /\ notes' \in [Docs -> SUBSET Requests]
             /\ drafts' \in [Docs -> SUBSET SUBSET Requests]
  BY <1>1, <1>3, <1>4 DEF Refresh, commentVars
<1>5. ASSUME UNCHANGED commentVars
      PROVE  /\ comments' \subseteq Docs \X Requests
             /\ notes' \in [Docs -> SUBSET Requests]
             /\ drafts' \in [Docs -> SUBSET SUBSET Requests]
  BY <1>1, <1>5 DEF commentVars
<1> QED  BY <1>1, <1>2, <1>4, <1>5, Writers

LEMMA StoredType ==
    ASSUME RecordsInv, [UploadNext]_uploadVars
    PROVE  /\ sources' \subseteq Uploads
           /\ files' \in [Docs -> [Versions -> Html \cup {None}]]
           /\ rows' \in [Docs -> Versions]
<1>1. /\ sources \subseteq Uploads
      /\ files \in [Docs -> [Versions -> Html \cup {None}]]
      /\ rows \in [Docs -> Versions]
      /\ used \in [Workers -> SUBSET Requests]
      /\ tryouts \subseteq Docs \X Requests
  BY RecordsAreTyped DEF RecordsInv, UploadTypeOK, TypeOK
<1>2. ASSUME NEW d \in Docs, StoreSource(d) PROVE sources' \subseteq Uploads
  <2>1. d \in Uploads
    BY <1>2 DEF StoreSource, RecordsInv, SafeInv, TablesInv, TryoutsWait
  <2> QED  BY <1>1, <1>2, <2>1 DEF StoreSource
<1>3. ASSUME NEW w \in Workers, StoreHtml(w)
      PROVE  files' \in [Docs -> [Versions -> Html \cup {None}]]
  <2> DEFINE html == [request |-> TheRequest(w), notes |-> used[w]]
             n    == NextVersion(w)
  <2>1. files' = [files EXCEPT ![TheDoc(w)][n] = html]
    BY <1>3 DEF StoreHtml
  <2>2. html \in Html /\ n \in Versions
    BY <1>1, <1>3, WithinStep, OnUpload, VersionBounds DEF StoreHtml, Html
  <2> HIDE DEF html, n
  <2> QED  BY <1>1, <2>1, <2>2
<1>4. ASSUME NEW w \in Workers, RecordArtifact(w) PROVE rows' \in [Docs -> Versions]
  BY <1>1, <1>4, VersionBounds DEF RecordArtifact
<1> QED  BY <1>1, <1>2, <1>3, <1>4, Writers

LEMMA CountsType ==
    ASSUME RecordsInv, [UploadNext]_uploadVars
    PROVE  /\ events' \in [JobIds -> SUBSET Stages]
           /\ last' \in [JobIds -> Stages \cup {None}]
           /\ corpus' \in [Docs \X Requests -> 0..2]
<1>1. /\ events \in [JobIds -> SUBSET Stages]
      /\ last \in [JobIds -> Stages \cup {None}]
      /\ corpus \in [Docs \X Requests -> 0..2]
  BY DEF RecordsInv, UploadTypeOK
<1>2. ASSUME NEW w \in Workers, Capture(w)
      PROVE  corpus' \in [Docs \X Requests -> 0..2]
  <2> DEFINE x == <<TheDoc(w), TheRequest(w)>>
  <2>1. corpus[x] = 0 /\ x \in Docs \X Requests
    BY <1>2, WithinStep, OnUpload
    DEF Capture, RecordsInv, UploadWorkerInv, CaptureInv
  <2>2. corpus' = corpus \/ corpus' = [corpus EXCEPT ![x] = @ + 1]
    BY <1>2 DEF Capture
  <2> HIDE DEF x
  <2> QED  BY <1>1, <2>1, <2>2
<1>3. ASSUME NEW j \in JobIds, NEW stage \in Stages, Tell(j, stage)
      PROVE  /\ events' \in [JobIds -> SUBSET Stages]
             /\ last' \in [JobIds -> Stages \cup {None}]
  BY <1>1, <1>3 DEF Tell
<1> QED  BY <1>1, <1>2, <1>3, Writers DEF timelineVars

LEMMA UploadTypingStep ==
    ASSUME RecordsInv, [UploadNext]_uploadVars
    PROVE  UploadTypeOK'
<1>1. SafeInv'
  BY RecordsAreTyped, SafeUploadStep
<1> QED
  BY <1>1, LocalRecordsType, CommentsType, StoredType, CountsType
  DEF SafeInv, UploadTypeOK, RecordsTyped
-----------------------------------------------------------------------------
(* The jobs and the places of the workers. *)

\* Request ids are handed out by the pages.
LEMMA Submitters ==
    ASSUME RecordsInv, [UploadNext]_uploadVars, lastRequest' # lastRequest
    PROVE  \E d \in Docs, r \in Requests : CreateUpload(d, r) \/ Refresh(d, r)
<1>1. ASSUME NEW w \in Workers, ClaimUpload(w) \/ UploadStep(w) \/ CrashUpload(w)
      PROVE  lastRequest' = lastRequest
  BY <1>1
  DEF ClaimUpload, Claim, CrashUpload, Crash, UploadStep, ReadUpload, LoadSource, Analyse,
      StoreHtml, RecordArtifact, CommitUpload, Capture, UploadError, JudgeUploadError,
      RecordUploadError, TellEnd, CloseUpload, ReadDocument, Process, Commit, KnownError,
      JudgeError, RecordError, Complete, Cancel, FailJob, vars, storeVars
<1>2. ASSUME NEW j \in JobIds, TellReceived(j) \/ QueueStep(j)
      PROVE  lastRequest' = lastRequest
  BY <1>2
  DEF TellReceived, QueueStep, SlowLeaseExpires, AdminRetry, AbandonedLeaseExpires, vars,
      storeVars
<1>3. ASSUME NEW d \in Docs, StoreSource(d) PROVE lastRequest' = lastRequest
  BY <1>3 DEF StoreSource, vars, storeVars
<1>4. UNCHANGED uploadVars => lastRequest' = lastRequest
  BY DEF uploadVars, vars, storeVars
<1>5. ASSUME NEW d \in Docs, NEW r \in Requests, TryoutDies(d, r)
      PROVE  lastRequest' = lastRequest
  BY <1>5 DEF TryoutDies, storeVars
<1> QED
  BY <1>1, <1>2, <1>3, <1>4, <1>5 DEF UploadNext, StatusPageRefresh, SubmitTryout

LEMMA UploadJobsStep ==
    ASSUME RecordsInv, [UploadNext]_uploadVars
    PROVE  UploadJobsInv'
<1> SUFFICES ASSUME NEW j \in JobIds, Known(j)'
             PROVE  DocOf(j) \in Uploads /\ TypeOf(j) = "upsert"
  BY DEF UploadJobsInv
<1>1. CASE Known(j)
  BY <1>1 DEF RecordsInv, UploadJobsInv
<1>2. CASE ~Known(j)
  <2>1. JobAdded(j)
    BY <1>2, UploadJobRows, RecordsAreTyped
    DEF JobChange, JobClaimed, JobClosed, JobRetried, JobExpired, Known
  <2>2. CASE <<DocOf(j), RequestOf(j)>> \in tryouts /\ TypeOf(j) = "upsert"
    BY <2>2 DEF RecordsInv, SafeInv, TablesInv, TryoutsWait
  <2>3. CASE Submitted(DocOf(j))
    <3>1. lastRequest' # lastRequest
      BY <2>3, RequestNumbers DEF Submitted
    <3>2. PICK d \in Docs, r \in Requests : CreateUpload(d, r) \/ Refresh(d, r)
      BY <3>1, Submitters
    <3>3. ~CreateUpload(d, r)
      BY <1>2 DEF CreateUpload, TryoutCreate, Known
    <3>4. d \in Uploads /\ jobs' = Enqueued(<<d, r, "upsert">>)
      BY <3>2, <3>3 DEF Refresh, QueueRequest, UpsertDocumentAndEnqueue
    <3>5. <<d, r, "upsert">> \in JobIds /\ StoreTypeOK
      BY RecordsAreTyped DEF JobIds, JobTypes, TypeOK
    <3>6. j = <<d, r, "upsert">>
      BY <1>2, <3>4, <3>5, EnqueuedRow DEF Known
    <3> QED  BY <3>4, <3>6 DEF DocOf, TypeOf
  <2> QED  BY <2>1, <2>2, <2>3 DEF JobAdded
<1> QED  BY <1>1, <1>2

\* Where each step of a worker leads.
LEMMA WorkerPlaces ==
    ASSUME RecordsInv, NEW w \in Workers, UploadStep(w)
    PROVE  /\ pc'[w] \in {"idle", "claimed", "process", "commit", "complete", "stale",
                          "error", "record_error", "fail_job"}
           /\ step'[w] \in StepsAt(pc'[w])
           /\ base'[w] <= MaxRequests
           /\ pc'[w] # "idle" => job'[w] = job[w] /\ attempt'[w] = attempt[w]
<1>1. /\ TypeOK /\ RecordsTyped /\ HasJob(w) /\ IsUpload(w)
      /\ TheDoc(w) \in Docs
  BY WorkerWrites, OnUpload, RecordsAreTyped
<1>2. base[w] <= MaxRequests /\ MaxRequests \in Nat /\ MaxRequests >= 0
  BY StoreAssumption DEF RecordsInv, UploadWorkerInv, PlaceInv
<1> USE DEF StepsAt, TypeOK, WorkersTypeOK, RecordsTyped
<1>3. CASE ReadUpload(w)
  <2>1. docs[TheDoc(w)].version <= MaxRequests
    BY <1>1, RequestNumbers
  <2>2. /\ pc'[w] = IF docs[TheDoc(w)].processed = TheRequest(w) THEN "complete"
                    ELSE "process"
        /\ job' = job /\ attempt' = attempt
    BY <1>1, <1>3 DEF ReadUpload, ReadDocument
  <2>3. base'[w] = docs[TheDoc(w)].version
    BY <1>1, <1>3 DEF ReadUpload
  <2>4. step'[w] = IF pc'[w] = "complete" THEN "tell" ELSE "source"
    BY <1>1, <1>3 DEF ReadUpload, Step, FirstStep
  <2> QED  BY <2>1, <2>2, <2>3, <2>4
<1>4. CASE LoadSource(w) \/ Analyse(w) \/ StoreHtml(w)
  <2>1. /\ pc[w] = "process" /\ UNCHANGED <<pc, job, attempt, base>>
        /\ \E label \in {"analyse", "store", "row"} : Step(w, label)
    BY <1>4, WithinStep DEF LoadSource, Analyse, StoreHtml, vars, workerVars
  <2>2. step'[w] \in {"analyse", "store", "row"}
    BY <1>1, <2>1 DEF Step
  <2> QED  BY <1>2, <2>1, <2>2
<1>5. CASE Capture(w) \/ TellEnd(w)
  <2>1. /\ pc[w] \in {"complete", "stale", "fail_job"}
        /\ UNCHANGED <<pc, job, attempt, base>>
        /\ \E label \in {"tell", "close"} : Step(w, label)
    BY <1>5, WithinStep DEF Capture, TellEnd, vars, workerVars
  <2>2. step'[w] \in {"tell", "close"}
    BY <1>1, <2>1 DEF Step
  <2> QED  BY <1>2, <2>1, <2>2
<1>6. CASE RecordArtifact(w)
  BY <1>1, <1>2, <1>6 DEF RecordArtifact, Process, Goto, Step
<1>7. CASE CommitUpload(w)
  BY <1>1, <1>2, <1>7 DEF CommitUpload, Commit, Goto, Step
<1>8. CASE UploadError(w) \/ JudgeUploadError(w)
  BY <1>1, <1>2, <1>8
  DEF UploadError, KnownError, JudgeUploadError, JudgeError, Goto, Step
<1>9. CASE RecordUploadError(w)
  <2>1. CASE pc'[w] = "fail_job"
    <3>1. ~Drop(w)
      BY <1>1, <2>1 DEF Drop
    <3> QED  BY <1>1, <1>2, <1>9, <2>1, <3>1 DEF RecordUploadError, RecordError, Goto, Step
  <2>2. CASE pc'[w] # "fail_job"
    <3>1. pc'[w] = "idle" /\ Forget(w)
      BY <1>1, <1>9, <2>2 DEF RecordUploadError, RecordError, Goto, Drop
    <3> QED  BY <1>1, <1>2, <3>1 DEF Forget
  <2> QED  BY <2>1, <2>2
<1>10. CASE CloseUpload(w)
  BY <1>1, <1>2, <1>10 DEF CloseUpload, Complete, Cancel, FailJob, Goto, Drop, Forget
<1> QED
  BY <1>3, <1>4, <1>5, <1>6, <1>7, <1>8, <1>9, <1>10 DEF UploadStep

LEMMA PlaceStep ==
    ASSUME RecordsInv, [UploadNext]_uploadVars, NEW w \in Workers
    PROVE  PlaceInv(w)'
<1>1. TypeOK /\ RecordsTyped /\ PlaceInv(w) /\ MaxRequests \in Nat /\ 0 <= MaxRequests
  BY RecordsAreTyped, StoreAssumption DEF RecordsInv, UploadWorkerInv
<1>2. CASE SameWorker(w)
  BY <1>1, <1>2 DEF SameWorker, SameLocals, PlaceInv, StepsAt
<1>3. CASE ClaimUpload(w)
  BY <1>1, <1>3
  DEF ClaimUpload, Claim, PlaceInv, StepsAt, recordVars, TypeOK, WorkersTypeOK
<1>4. CASE UploadStep(w)
  BY <1>4, WorkerPlaces DEF PlaceInv, StepsAt
<1>5. CASE CrashUpload(w)
  BY <1>1, <1>5
  DEF CrashUpload, Crash, Drop, Forget, PlaceInv, StepsAt, TypeOK, WorkersTypeOK,
      RecordsTyped
<1> QED  BY <1>1, <1>2, <1>3, <1>4, <1>5, OwnSteps
-----------------------------------------------------------------------------
(* The timeline. *)

LEMMA StepNow ==
    ASSUME RecordsInv, NEW w \in Workers, NEW label, Step(w, label)
    PROVE  step'[w] = label
BY RecordsAreTyped DEF Step, RecordsTyped

LEMMA OnlyTellEndCloses ==
    ASSUME RecordsInv, NEW w \in Workers, UploadStep(w), step'[w] = "close"
    PROVE  TellEnd(w)
<1>1. ~ReadUpload(w)
  BY StepNow DEF ReadUpload, FirstStep
<1>2. ~LoadSource(w) /\ ~Analyse(w) /\ ~StoreHtml(w) /\ ~RecordArtifact(w) /\ ~Capture(w)
      /\ ~UploadError(w)
  BY StepNow DEF LoadSource, Analyse, StoreHtml, RecordArtifact, Capture, UploadError
<1>3. ~CommitUpload(w) /\ ~JudgeUploadError(w)
  BY StepNow DEF CommitUpload, JudgeUploadError
<1>4. ~Forget(w)
  BY RecordsAreTyped DEF Forget, RecordsTyped
<1>5. ~RecordUploadError(w) /\ ~CloseUpload(w)
  BY <1>4, StepNow DEF RecordUploadError, CloseUpload
<1> QED  BY <1>1, <1>2, <1>3, <1>5 DEF UploadStep

LEMMA ToldStep ==
    ASSUME RecordsInv, [UploadNext]_uploadVars, NEW w \in Workers
    PROVE  ToldInv(w)'
<1> SUFFICES ASSUME step'[w] = "close"
             PROVE  StageAt(pc'[w]) \in events'[job'[w]]
  BY DEF ToldInv, StageAt
<1>1. TypeOK /\ RecordsTyped
  BY RecordsAreTyped
<1>2. CASE SameWorker(w)
  <2>1. step[w] = "close" /\ pc'[w] = pc[w] /\ job'[w] = job[w]
    BY <1>2 DEF SameWorker, SameLocals
  <2>2. job[w] \in JobIds
    BY <2>1, WithinStep, OnUpload
  <2>3. StageAt(pc[w]) \in events[job[w]]
    BY <2>1 DEF RecordsInv, UploadWorkerInv, ToldInv
  <2> QED  BY <2>1, <2>2, <2>3, TimelineGrows
<1>3. CASE UploadStep(w)
  <2>1. TellEnd(w)
    BY <1>3, OnlyTellEndCloses
  <2>2. job[w] \in JobIds /\ pc' = pc /\ job' = job
    BY <2>1, WithinStep, OnUpload DEF TellEnd, vars, workerVars
  <2>3. events \in [JobIds -> SUBSET Stages]
    BY DEF RecordsInv, UploadTypeOK
  <2> DEFINE stage == StageAt(pc[w])
  <2>4. events' = [events EXCEPT ![job[w]] = @ \cup {stage}]
    BY <2>1 DEF TellEnd, Tell
  <2> HIDE DEF stage
  <2>5. stage \in events'[job[w]]
    BY <2>2, <2>3, <2>4
  <2> QED  BY <2>2, <2>5 DEF stage
<1>4. CASE ClaimUpload(w)
  <2>1. pc[w] = "idle" /\ step' = step
    BY <1>4 DEF ClaimUpload, Claim, recordVars
  <2> QED  BY <2>1, WithinStep DEF HasJob
<1>5. CASE CrashUpload(w)
  BY <1>1, <1>5 DEF CrashUpload, Forget, RecordsTyped
<1> QED  BY <1>1, <1>2, <1>3, <1>4, <1>5, OwnSteps

\* A job is closed by a worker that is at that call, after the event.
LEMMA ClosedBy ==
    ASSUME RecordsInv, [UploadNext]_uploadVars, NEW j \in JobIds, NEW w \in Workers,
           JobClosed(w, j), jobs'[j] # jobs[j]
    PROVE  step[w] = "close"
<1>1. TypeOK /\ RecordsTyped
  BY RecordsAreTyped
<1>2. pc[w] \in {"complete", "stale", "fail_job"} /\ pc'[w] \in {"idle", "report"}
  <2>1. Complete(w) \/ Cancel(w) \/ FailJob(w)
    BY DEF JobClosed
  <2> QED
    BY <1>1, <2>1 DEF Complete, Cancel, FailJob, Drop, Goto, TypeOK, WorkersTypeOK
<1>3. ~SameWorker(w)
  BY <1>2 DEF SameWorker, SameLocals
<1>4. ~ClaimUpload(w) /\ ~CrashUpload(w)
  BY <1>2 DEF ClaimUpload, Claim, CrashUpload, Crash, storeVars
<1>5. UploadStep(w)
  BY <1>1, <1>3, <1>4, OwnSteps
<1>6. CloseUpload(w)
  BY <1>2, <1>5
  DEF UploadStep, ReadUpload, LoadSource, Analyse, StoreHtml, RecordArtifact,
      CommitUpload, Capture, UploadError, JudgeUploadError, RecordUploadError, TellEnd,
      ReadDocument, Process, Commit, KnownError, JudgeError, RecordError, vars, storeVars
<1> QED  BY <1>6 DEF CloseUpload

LEMMA ClosedStep ==
    ASSUME RecordsInv, [UploadNext]_uploadVars
    PROVE  ClosedJobToldItsEnd'
<1> SUFFICES ASSUME NEW j \in JobIds, DocOf(j) \in Uploads
             PROVE  /\ jobs'[j].status = "completed" => "READY" \in events'[j]
                    /\ jobs'[j].status = "failed"    => "FAILED" \in events'[j]
                    /\ jobs'[j].status = "cancelled" => "CANCELLED" \in events'[j]
  BY DEF ClosedJobToldItsEnd
<1>1. events[j] \subseteq events'[j]
  BY TimelineGrows
<1>2. CASE jobs'[j].status = jobs[j].status
  BY <1>1, <1>2 DEF RecordsInv, ClosedJobToldItsEnd
<1>3. ASSUME NEW w \in Workers, JobClosed(w, j), jobs'[j].status # jobs[j].status
      PROVE  /\ jobs'[j].status = "completed" => "READY" \in events'[j]
             /\ jobs'[j].status = "failed"    => "FAILED" \in events'[j]
             /\ jobs'[j].status = "cancelled" => "CANCELLED" \in events'[j]
  <2>1. step[w] = "close" /\ job[w] = j
    BY <1>3, ClosedBy DEF JobClosed
  <2>2. StageAt(pc[w]) \in events[j]
    BY <2>1 DEF RecordsInv, UploadWorkerInv, ToldInv
  <2>3. \/ pc[w] = "complete" /\ jobs'[j].status = "completed"
        \/ pc[w] = "stale" /\ jobs'[j].status = "cancelled"
        \/ pc[w] = "fail_job" /\ jobs'[j].status = "failed"
    BY <1>3 DEF JobClosed, Complete, Cancel, FailJob
  <2> QED  BY <1>1, <2>2, <2>3, StageAtEnds
<1>4. JobChange(j)
  BY UploadJobRows, RecordsAreTyped
<1> QED
  BY <1>2, <1>3, <1>4 DEF JobChange, JobAdded, JobClaimed, JobRetried, JobExpired

LEMMA ReadyStageStep ==
    ASSUME RecordsInv, [UploadNext]_uploadVars
    PROVE  ReadyStageMeansCommitted'
<1> SUFFICES ASSUME NEW j \in JobIds, "READY" \in events'[j]
             PROVE  docs'[DocOf(j)].processed >= RequestOf(j)
  BY DEF ReadyStageMeansCommitted
<1>1. /\ DocOf(j) \in Docs /\ RequestOf(j) \in Nat
      /\ docs[DocOf(j)].processed \in Nat
  BY Numbers, RecordsAreTyped
<1>2. /\ docs[DocOf(j)].processed <= docs'[DocOf(j)].processed
      /\ docs'[DocOf(j)].processed \in Nat
  BY <1>1, UploadRows, RecordsAreTyped
<1>3. CASE "READY" \in events[j]
  BY <1>1, <1>2, <1>3 DEF RecordsInv, ReadyStageMeansCommitted
<1>4. CASE "READY" \notin events[j]
  <2>1. ASSUME NEW k \in JobIds, NEW stage, Tell(k, stage)
        PROVE  k = j /\ stage = "READY"
    BY <1>4, <2>1 DEF Tell, RecordsInv, UploadTypeOK
  <2>2. UNCHANGED timelineVars => FALSE
    BY <1>4 DEF timelineVars
  <2>3. ASSUME NEW w \in Workers, UploadStep(w)
        PROVE  docs[DocOf(j)].processed >= RequestOf(j)
    <3>1. HasJob(w) /\ job[w] \in JobIds
      BY <2>3, WorkerWrites, OnUpload
    <3>2. ~ReadUpload(w) /\ ~LoadSource(w)
      BY <2>1, <3>1 DEF ReadUpload, LoadSource
    <3>3. TellEnd(w)
      BY <2>2, <2>3, <3>2
      DEF UploadStep, Analyse, StoreHtml, RecordArtifact, CommitUpload, Capture,
          UploadError, JudgeUploadError, RecordUploadError, CloseUpload
    <3>4. job[w] = j /\ StageAt(pc[w]) = "READY"
      BY <2>1, <3>1, <3>3 DEF TellEnd
    <3>5. pc[w] = "complete"
      BY <3>3, <3>4, WithinStep, StageAtEnds DEF TellEnd
    <3> QED
      BY <3>4, <3>5
      DEF RecordsInv, SafeInv, WorkerInv, CommittedBeforeComplete, TheDoc, TheRequest
  <2>4. ~(\A w \in Workers : ~UploadStep(w))
    <3>1. UNCHANGED uploadVars => UNCHANGED timelineVars
      BY DEF uploadVars, recordVars, timelineVars
    <3> QED  BY <2>1, <2>2, <3>1, OthersWrite
  <2> QED  BY <1>1, <1>2, <2>3, <2>4
<1> QED  BY <1>3, <1>4
-----------------------------------------------------------------------------
(* Files, rows and versions. *)

LEMMA CommitterWorks ==
    ASSUME RecordsInv, NEW w \in Workers, NEW d \in Docs, CommittedBy(w, d)
    PROVE  /\ Working(w) /\ HasJob(w) /\ pc[w] = "commit"
           /\ docs[d].processed < TheRequest(w)
           /\ docs[d].request = TheRequest(w)
           /\ NextVersion(w) = docs'[d].version
<1>1. pc[w] = "commit"
  BY DEF CommittedBy, CommitUpload, Commit
<1>2. Working(w) /\ HasJob(w)
  BY <1>1 DEF Working, HasJob
<1>3. base[w] = docs[d].version
  BY <1>1 DEF RecordsInv, UploadWorkerInv, BaseInv, CommittedBy
<1> QED  BY <1>1, <1>2, <1>3, MayCommitOnce DEF CommittedBy, NextVersion

LEMMA VersionsStep ==
    ASSUME RecordsInv, [UploadNext]_uploadVars
    PROVE  VersionsInv'
<1> SUFFICES ASSUME NEW d \in Docs PROVE docs'[d].version <= docs'[d].processed
  BY DEF VersionsInv
<1>1. docs[d].version <= docs[d].processed
  BY DEF RecordsInv, VersionsInv
<1>2. ASSUME NEW w \in Workers, CommittedBy(w, d)
      PROVE  docs'[d].version <= docs'[d].processed
  <2>1. docs[d].processed < TheRequest(w) /\ TheRequest(w) \in Nat
    BY <1>2, CommitterWorks, OnUpload
  <2>2. /\ docs'[d].processed = TheRequest(w)
        /\ docs'[d].version = docs[d].version + 1
    BY <1>2 DEF CommittedBy
  <2> QED  BY <1>1, <2>1, <2>2, RequestNumbers
<1> QED  BY <1>1, <1>2, UploadDocRows DEF Submitted, ErrorRecorded

LEMMA RowsStay ==
    ASSUME RecordsInv, [UploadNext]_uploadVars, NEW d \in Docs, rows[d] # 0
    PROVE  rows'[d] # 0
BY RowWritten, VersionBounds DEF NextVersion

LEMMA FilesStay ==
    ASSUME RecordsInv, [UploadNext]_uploadVars, NEW d \in Docs, NEW v \in Versions,
           files[d][v] # None
    PROVE  files'[d][v] # None
<1>1. ASSUME NEW w \in Workers, StoreHtml(w),
             files'[d][v] = [request |-> TheRequest(w), notes |-> used[w]]
      PROVE  files'[d][v] # None
  BY <1>1, HtmlIsStored
<1> QED  BY <1>1, FileWritten

LEMMA FilesStep ==
    ASSUME RecordsInv, [UploadNext]_uploadVars
    PROVE  FilesInv'
<1> SUFFICES ASSUME NEW d \in Docs
             PROVE  /\ rows'[d] # 0 => files'[d][rows'[d]] # None
                    /\ docs'[d].status = "Ready" =>
                         rows'[d] # 0 /\ files'[d][docs'[d].version] # None
  BY DEF FilesInv
<1>1. rows[d] \in Versions /\ docs[d].version \in Versions
  BY VersionBounds DEF RecordsInv, UploadTypeOK
<1>2. rows'[d] # 0 => files'[d][rows'[d]] # None
  <2>1. CASE rows'[d] = rows[d]
    BY <1>1, <2>1, FilesStay DEF RecordsInv, FilesInv
  <2>2. ASSUME NEW w \in Workers, RecordArtifact(w), TheDoc(w) = d,
               rows'[d] = NextVersion(w)
        PROVE  files'[d][rows'[d]] # None
    <3>1. files[d][NextVersion(w)] # None
      BY <2>2 DEF RecordArtifact, RecordsInv, UploadWorkerInv, BaseInv
    <3> QED  BY <2>2, <3>1, VersionBounds, FilesStay
  <2> QED  BY <2>1, <2>2, RowWritten
<1>3. rows[d] # 0 => rows'[d] # 0
  BY RowsStay
<1>4. CASE docs'[d] = docs[d]
  BY <1>1, <1>2, <1>3, <1>4, FilesStay DEF RecordsInv, FilesInv
<1>5. ASSUME NEW w \in Workers, CommittedBy(w, d)
      PROVE  rows'[d] # 0 /\ files'[d][docs'[d].version] # None
  <2>1. NextVersion(w) = docs'[d].version /\ pc[w] = "commit" /\ TheDoc(w) = d
    BY <1>5, CommitterWorks DEF CommittedBy
  <2>2. files[d][NextVersion(w)] # None /\ rows[d] # 0
    BY <2>1 DEF RecordsInv, UploadWorkerInv, BaseInv
  <2> QED  BY <1>3, <2>1, <2>2, VersionBounds, FilesStay
<1>6. Submitted(d) \/ ErrorRecorded(d) => docs'[d].status # "Ready"
  BY DEF Submitted, ErrorRecorded
<1> QED  BY <1>2, <1>4, <1>5, <1>6, UploadDocRows

\* No other commit can come between a worker's read and its own.
LEMMA BaseStays ==
    ASSUME RecordsInv, [UploadNext]_uploadVars, NEW w \in Workers, SameLocals(w),
           Working(w), MayCommit(w)'
    PROVE  MayCommit(w) /\ docs'[TheDoc(w)].version = docs[TheDoc(w)].version
<1> DEFINE d == TheDoc(w)
<1>1. TypeOK /\ SafeInv /\ HasJob(w)
  BY RecordsAreTyped DEF Working, HasJob
<1>2. d \in Docs /\ TheRequest(w) \in Nat /\ TheRequest(w) <= docs[d].request
  BY <1>1, OnUpload
<1>3. docs'[d].request = TheRequest(w) /\ ClaimIsCurrent(w)'
  BY DEF MayCommit, StillCurrent, RequestIsCurrent, SameLocals, TheDoc, TheRequest
<1>4. docs[d].request = TheRequest(w)
  BY <1>1, <1>2, <1>3, UploadRows, RequestNumbers
<1>5. ClaimIsCurrent(w)
  <2>1. CASE [Next]_vars
    BY <1>1, <1>3, <2>1, ClaimsOnlyLost
  <2>2. CASE Dies
    BY <1>3, <2>2, DyingChangesNothing DEF ClaimIsCurrent, JobClaimIsCurrent
  <2> QED  BY <2>1, <2>2, QueueSteps
<1>6. MayCommit(w)
  BY <1>4, <1>5 DEF MayCommit, StillCurrent, RequestIsCurrent
<1>7. ~Submitted(d)
  BY <1>2, <1>3, <1>4, RequestNumbers DEF Submitted
<1>8. ASSUME NEW v \in Workers, CommittedBy(v, d) PROVE FALSE
  <2>1. Working(v) /\ MayCommit(v) /\ TheDoc(v) = d /\ CommitUpload(v)
    BY <1>2, <1>8, CommitterWorks DEF CommittedBy
  <2>2. v = w
    BY <1>6, <2>1, MayCommitOnce
  <2>3. pc[w] = "commit" /\ pc'[w] \in {"complete", "announce"}
    BY <1>1, <2>1, <2>2 DEF CommitUpload, Commit, Goto, TypeOK, WorkersTypeOK
  <2> QED  BY <2>3 DEF SameLocals
<1> QED
  BY <1>2, <1>6, <1>7, <1>8, UploadDocRows DEF ErrorRecorded

LEMMA BaseStep ==
    ASSUME RecordsInv, [UploadNext]_uploadVars, NEW w \in Workers
    PROVE  BaseInv(w)'
<1>1. TypeOK /\ RecordsTyped /\ SafeInv /\ BaseInv(w)
  BY RecordsAreTyped DEF RecordsInv, UploadWorkerInv
<1> DEFINE n == NextVersion(w)
<1>2. ASSUME SameLocals(w) \/ UploadStep(w), base'[w] = base[w], HasJob(w),
             job'[w] = job[w],
             pc'[w] \in {"process", "commit"} =>
               pc[w] \in {"process", "commit"} /\ (MayCommit(w)' =>
                 MayCommit(w) /\ docs'[TheDoc(w)].version = docs[TheDoc(w)].version),
             step'[w] = "row" \/ pc'[w] = "commit" =>
               step[w] = "row" \/ pc[w] = "commit" \/ files'[TheDoc(w)][n] # None,
             pc'[w] = "commit" => pc[w] = "commit" \/ rows'[TheDoc(w)] # 0
      PROVE  BaseInv(w)'
  <2>1. TheDoc(w) \in Docs /\ n \in Versions
    BY <1>2, OnUpload, VersionBounds
  <2>2. /\ pc'[w] \in {"process", "commit"} /\ MayCommit(w)' =>
             base'[w] = docs'[TheDoc(w)].version
        /\ step'[w] = "row" \/ pc'[w] = "commit" => files'[TheDoc(w)][n] # None
        /\ pc'[w] = "commit" => rows'[TheDoc(w)] # 0
    BY <1>1, <1>2, <2>1, FilesStay, RowsStay DEF BaseInv
  <2>3. n = base'[w] + 1
    BY <1>2 DEF NextVersion
  <2> HIDE DEF n
  <2> QED  BY <1>2, <2>2, <2>3 DEF BaseInv, NextVersion, TheDoc
<1>3. CASE SameWorker(w)
  <2>1. CASE HasJob(w)
    <3>1. Working(w) /\ MayCommit(w)' =>
            MayCommit(w) /\ docs'[TheDoc(w)].version = docs[TheDoc(w)].version
      BY <1>3, BaseStays DEF SameWorker
    <3> QED  BY <1>2, <1>3, <2>1, <3>1 DEF SameWorker, SameLocals, Working
  <2>2. CASE ~HasJob(w)
    BY <1>3, <2>2, WithinStep DEF SameWorker, SameLocals, HasJob, BaseInv
  <2> QED  BY <2>1, <2>2
<1>4. CASE ClaimUpload(w) \/ CrashUpload(w)
  BY <1>1, <1>4, WithinStep
  DEF ClaimUpload, Claim, CrashUpload, Crash, Drop, Forget, BaseInv, recordVars,
      TypeOK, WorkersTypeOK, RecordsTyped, HasJob
<1>5. CASE UploadStep(w)
  <2>0. HasJob(w) /\ TheDoc(w) \in Docs /\ n \in Versions /\ IsUpload(w)
    BY <1>5, WorkerWrites, OnUpload, VersionBounds
  <2>1. CASE ReadUpload(w)
    <3>1. /\ base'[w] = docs[TheDoc(w)].version /\ docs' = docs /\ job' = job
          /\ pc'[w] # "commit" /\ step'[w] # "row"
      <4>1. FirstStep(w) # "row"
        BY DEF FirstStep
      <4>2. step'[w] = FirstStep(w)
        BY <2>1, StepNow DEF ReadUpload
      <4> QED
        BY <1>1, <2>0, <2>1, <4>1, <4>2
        DEF ReadUpload, ReadDocument, TypeOK, WorkersTypeOK, RecordsTyped, storeVars
    <3> QED  BY <3>1 DEF BaseInv, TheDoc
  <2>2. CASE LoadSource(w) \/ Analyse(w) \/ Capture(w) \/ TellEnd(w)
    <3>1. step'[w] # "row" /\ UNCHANGED <<docs, jobs, pc, job, attempt, base>>
      BY <2>2, StepNow
      DEF LoadSource, Analyse, Capture, TellEnd, vars, workerVars, storeVars
    <3>2. MayCommit(w)' => MayCommit(w)
      BY <3>1
      DEF MayCommit, StillCurrent, RequestIsCurrent, ClaimIsCurrent, JobClaimIsCurrent,
          TheDoc, TheRequest
    <3> QED  BY <1>2, <1>5, <2>0, <3>1, <3>2
  <2>3. CASE StoreHtml(w)
    <3>1. step[w] = "store" /\ UNCHANGED <<docs, jobs, pc, job, attempt, base>>
      BY <2>3 DEF StoreHtml, vars, workerVars, storeVars
    <3>2. MayCommit(w)' => MayCommit(w)
      BY <3>1
      DEF MayCommit, StillCurrent, RequestIsCurrent, ClaimIsCurrent, JobClaimIsCurrent,
          TheDoc, TheRequest
    <3>3. files'[TheDoc(w)][n] # None
      <4> DEFINE html == [request |-> TheRequest(w), notes |-> used[w]]
      <4>1. files' = [files EXCEPT ![TheDoc(w)][n] = html]
        BY <2>3 DEF StoreHtml
      <4>2. html # None
        BY <2>3, HtmlIsStored
      <4>3. files \in [Docs -> [Versions -> Html \cup {None}]]
        BY DEF RecordsInv, UploadTypeOK
      <4> HIDE DEF html, n
      <4> QED  BY <2>0, <4>1, <4>2, <4>3
    <3> QED  BY <1>2, <1>5, <2>0, <3>1, <3>2, <3>3
  <2>4. CASE RecordArtifact(w)
    <3>1. /\ step[w] = "row" /\ pc[w] = "process" /\ step'[w] = ""
          /\ UNCHANGED <<docs, jobs, job, attempt, base>>
      BY <2>4, StepNow DEF RecordArtifact, Process, Goto, storeVars
    <3>2. MayCommit(w)' => MayCommit(w)
      BY <3>1
      DEF MayCommit, StillCurrent, RequestIsCurrent, ClaimIsCurrent, JobClaimIsCurrent,
          TheDoc, TheRequest
    <3>3. rows'[TheDoc(w)] # 0
      <4>1. rows' = [rows EXCEPT ![TheDoc(w)] = n]
        BY <2>4 DEF RecordArtifact
      <4>2. n # 0
        BY VersionBounds DEF NextVersion
      <4> HIDE DEF n
      <4> QED  BY <2>0, <4>1, <4>2 DEF RecordsInv, UploadTypeOK
    <3> QED  BY <1>2, <1>5, <2>0, <3>1, <3>2, <3>3
  <2>5. CASE \/ CommitUpload(w) \/ UploadError(w) \/ JudgeUploadError(w)
             \/ RecordUploadError(w) \/ CloseUpload(w)
    <3>1. pc'[w] \notin {"process", "commit"}
      BY <1>1, <2>5
      DEF CommitUpload, Commit, UploadError, KnownError, JudgeUploadError, JudgeError,
          RecordUploadError, RecordError, CloseUpload, Complete, Cancel, FailJob, Goto,
          Drop, TypeOK, WorkersTypeOK
    <3>2. step'[w] # "row"
      BY <1>5, <3>1, WorkerPlaces DEF StepsAt
    <3> QED  BY <3>1, <3>2 DEF BaseInv
  <2> QED  BY <1>5, <2>1, <2>2, <2>3, <2>4, <2>5 DEF UploadStep
<1> QED  BY <1>1, <1>3, <1>4, <1>5, OwnSteps
-----------------------------------------------------------------------------
(* Comments. *)

LEMMA IssuedStep ==
    ASSUME RecordsInv, [UploadNext]_uploadVars
    PROVE  IssuedInv'
<1>1. lastRequest \in Nat /\ lastRequest' \in Nat /\ lastRequest <= lastRequest'
  <2>1. lastRequest \in Nat /\ (lastRequest' \in {lastRequest, lastRequest + 1})
    <3>1. ASSUME lastRequest' # lastRequest PROVE lastRequest' = lastRequest + 1
      <4>1. PICK d \in Docs, r \in Requests : CreateUpload(d, r) \/ Refresh(d, r)
        BY <3>1, Submitters
      <4> QED
        BY <4>1 DEF CreateUpload, TryoutCreate, Refresh, QueueRequest, FreshRequest
    <3> QED  BY <3>1, RequestNumbers
  <2> QED  BY <2>1
<1>2. ASSUME NEW x \in comments' PROVE x[2] <= lastRequest'
  <2>1. CASE x \in comments
    <3>1. x[2] \in Nat /\ x[2] <= lastRequest
      BY <2>1 DEF RecordsInv, IssuedInv, UploadTypeOK, Requests
    <3> QED  BY <1>1, <3>1
  <2>2. CASE x \notin comments
    <3>1. PICK d \in Docs, r \in Requests :
                 Submitted(d) /\ r = lastRequest + 1 /\ x = <<d, r>>
      BY <1>2, <2>2, CommentWritten DEF commentVars
    <3> QED  BY <1>1, <3>1 DEF Submitted
  <2> QED  BY <2>1, <2>2
<1>3. ASSUME NEW d \in Docs, NEW v \in Versions, files'[d][v] # None
      PROVE  files'[d][v].request <= lastRequest'
  <2>1. CASE files'[d][v] = files[d][v]
    <3>1. files[d][v] \in Html /\ files[d][v].request <= lastRequest
      BY <1>3, <2>1 DEF RecordsInv, IssuedInv, UploadTypeOK
    <3>2. files[d][v].request \in Nat
      BY <3>1 DEF Html, Requests
    <3> QED  BY <1>1, <2>1, <3>1, <3>2
  <2>2. ASSUME NEW w \in Workers, StoreHtml(w),
               files'[d][v] = [request |-> TheRequest(w), notes |-> used[w]]
        PROVE  files'[d][v].request <= lastRequest'
    <3>1. /\ TheRequest(w) \in Nat /\ TheDoc(w) \in Docs
          /\ TheRequest(w) <= docs[TheDoc(w)].request
          /\ docs[TheDoc(w)].request <= lastRequest
      BY <2>2, WithinStep, OnUpload DEF StoreHtml
    <3>2. files'[d][v].request = TheRequest(w) /\ docs[TheDoc(w)].request \in Nat
      BY <2>2, <3>1, RequestNumbers
    <3> QED  BY <1>1, <3>1, <3>2
  <2> QED  BY <2>1, <2>2, FileWritten
<1> QED  BY <1>2, <1>3 DEF IssuedInv

\* A request that is noted stays noted: a comment comes only with a new request.
LEMMA NotedStays ==
    ASSUME RecordsInv, [UploadNext]_uploadVars, NEW d \in Docs, NEW r \in Nat, NEW N,
           r <= lastRequest, Noted(d, r, N),
           r = docs'[d].request, <<d, r>> \in comments'
    PROVE  r \in N
<1>1. ~Submitted(d)
  BY RequestNumbers DEF Submitted
<1>2. docs[d].request = docs'[d].request
  <2>1. RowChange(d)
    BY UploadRows, RecordsAreTyped
  <2> QED  BY <1>1, <2>1 DEF RowChange, Settled, ErrorRecorded
<1>3. <<d, r>> \in comments
  BY <1>1, CommentWritten DEF commentVars
<1> QED  BY <1>2, <1>3 DEF Noted

LEMMA NotesStep ==
    ASSUME RecordsInv, [UploadNext]_uploadVars
    PROVE  NotesInv'
<1> SUFFICES ASSUME NEW d \in Docs
             PROVE  /\ <<d, docs'[d].request>> \in comments' =>
                         docs'[d].request \in notes'[d]
                    /\ \A v \in Versions :
                         /\ files'[d][v] # None
                         /\ files'[d][v].request = docs'[d].request
                         /\ <<d, files'[d][v].request>> \in comments'
                         => files'[d][v].request \in files'[d][v].notes
  BY DEF NotesInv, Noted
<1>1. ASSUME <<d, docs'[d].request>> \in comments'
      PROVE  docs'[d].request \in notes'[d]
  <2>1. CASE ~Submitted(d)
    <3>1. docs'[d].request = docs[d].request
      <4>1. RowChange(d)
        BY UploadRows, RecordsAreTyped
      <4> QED  BY <2>1, <4>1 DEF RowChange, Settled, ErrorRecorded
    <3>2. <<d, docs[d].request>> \in comments /\ notes'[d] = notes[d]
      BY <1>1, <2>1, <3>1, CommentWritten DEF commentVars
    <3> QED  BY <3>1, <3>2 DEF RecordsInv, NotesInv, Noted
  <2>2. CASE Submitted(d)
    <3>1. docs'[d].request = lastRequest + 1
      BY <2>2 DEF Submitted
    <3>2. <<d, docs'[d].request>> \notin comments
      BY <3>1, RequestNumbers DEF RecordsInv, IssuedInv
    <3> QED  BY <1>1, <3>1, <3>2, CommentWritten DEF commentVars
  <2> QED  BY <2>1, <2>2
<1>2. ASSUME NEW v \in Versions, files'[d][v] # None,
             files'[d][v].request = docs'[d].request,
             <<d, files'[d][v].request>> \in comments'
      PROVE  files'[d][v].request \in files'[d][v].notes
  <2>1. CASE files'[d][v] = files[d][v]
    <3> DEFINE html == files[d][v]
    <3>1. html \in Html /\ html.request <= lastRequest /\ Noted(d, html.request, html.notes)
      BY <1>2, <2>1 DEF RecordsInv, IssuedInv, NotesInv, UploadTypeOK
    <3>2. html.request \in Nat
      BY <3>1 DEF Html, Requests
    <3>3. PICK r \in Nat : r = html.request
      BY <3>2
    <3>4. PICK N : N = html.notes
      OBVIOUS
    <3>5. r <= lastRequest /\ Noted(d, r, N) /\ r = docs'[d].request /\ <<d, r>> \in comments'
      BY <1>2, <2>1, <3>1, <3>3, <3>4
    <3>6. r \in N
      BY <3>5, NotedStays
    <3> QED  BY <2>1, <3>3, <3>4, <3>6
  <2>2. ASSUME NEW w \in Workers, StoreHtml(w), TheDoc(w) = d,
               files'[d][v] = [request |-> TheRequest(w), notes |-> used[w]]
        PROVE  files'[d][v].request \in files'[d][v].notes
    <3>1. step[w] = "store" /\ UNCHANGED <<docs, comments>>
      BY <2>2 DEF StoreHtml, vars, storeVars, commentVars
    <3>2. Noted(d, TheRequest(w), used[w])
      BY <2>2, <3>1 DEF RecordsInv, UploadWorkerInv, UsedInv
    <3>3. files'[d][v].request = TheRequest(w) /\ files'[d][v].notes = used[w]
      BY <2>2
    <3> QED  BY <1>2, <3>1, <3>2, <3>3 DEF Noted
  <2> QED  BY <2>1, <2>2, FileWritten
<1> QED  BY <1>1, <1>2

LEMMA UsedStep ==
    ASSUME RecordsInv, [UploadNext]_uploadVars, NEW w \in Workers
    PROVE  UsedInv(w)'
<1> SUFFICES ASSUME step'[w] \in {"store", "row"},
                    TheRequest(w)' = docs'[TheDoc(w)'].request,
                    <<TheDoc(w)', TheRequest(w)'>> \in comments'
             PROVE  TheRequest(w)' \in used'[w]
  BY DEF UsedInv, Noted
<1>1. TypeOK /\ RecordsTyped
  BY RecordsAreTyped
<1>2. ASSUME step[w] \in {"store", "row"}, job'[w] = job[w], used'[w] = used[w]
      PROVE  TheRequest(w)' \in used'[w]
  <2>1. /\ TheDoc(w) \in Docs /\ TheRequest(w) \in Nat
        /\ TheRequest(w) <= docs[TheDoc(w)].request
        /\ docs[TheDoc(w)].request <= lastRequest
    BY <1>2, WithinStep, OnUpload
  <2>2. TheRequest(w) <= lastRequest
    BY <2>1, RequestNumbers
  <2>3. Noted(TheDoc(w), TheRequest(w), used[w])
    BY <1>2 DEF RecordsInv, UploadWorkerInv, UsedInv
  <2>4. TheDoc(w)' = TheDoc(w) /\ TheRequest(w)' = TheRequest(w)
    BY <1>2 DEF TheDoc, TheRequest
  <2>5. PICK d \in Docs, r \in Nat, N \in {used[w]} : d = TheDoc(w) /\ r = TheRequest(w)
    BY <2>1
  <2>6. /\ r <= lastRequest /\ Noted(d, r, N)
        /\ r = docs'[d].request /\ <<d, r>> \in comments'
    BY <2>2, <2>3, <2>4, <2>5
  <2>7. r \in N
    BY <2>6, NotedStays
  <2> QED  BY <1>2, <2>4, <2>5, <2>7
<1>3. CASE SameWorker(w)
  BY <1>2, <1>3 DEF SameWorker, SameLocals
<1>4. CASE ClaimUpload(w)
  <2>1. pc[w] = "idle" /\ step' = step
    BY <1>4 DEF ClaimUpload, Claim, recordVars
  <2> QED  BY <2>1, WithinStep DEF HasJob
<1>5. CASE CrashUpload(w)
  BY <1>1, <1>5 DEF CrashUpload, Forget, RecordsTyped
<1>6. CASE UploadStep(w)
  <2>1. CASE Analyse(w)
    <3>1. TheDoc(w) \in Docs
      BY <2>1, WithinStep, OnUpload DEF Analyse
    <3>2. /\ UNCHANGED <<docs, job, comments>> /\ used'[w] = notes[TheDoc(w)]
      BY <1>1, <2>1
      DEF Analyse, vars, storeVars, workerVars, commentVars, RecordsTyped
    <3>3. Noted(TheDoc(w), docs[TheDoc(w)].request, notes[TheDoc(w)])
      BY <3>1 DEF RecordsInv, NotesInv
    <3> QED  BY <3>2, <3>3 DEF Noted, TheDoc, TheRequest
  <2>2. CASE StoreHtml(w)
    BY <1>2, <2>2 DEF StoreHtml, vars, workerVars
  <2>3. ~ReadUpload(w)
    BY StepNow DEF ReadUpload, FirstStep
  <2>4. /\ ~LoadSource(w) /\ ~RecordArtifact(w) /\ ~Capture(w)
        /\ ~UploadError(w) /\ ~TellEnd(w)
    BY StepNow DEF LoadSource, RecordArtifact, Capture, UploadError, TellEnd
  <2>5. ~CommitUpload(w) /\ ~JudgeUploadError(w)
    BY StepNow DEF CommitUpload, JudgeUploadError
  <2>6. ~Forget(w)
    BY <1>1 DEF Forget, RecordsTyped
  <2>7. ~RecordUploadError(w) /\ ~CloseUpload(w)
    BY <2>6, StepNow DEF RecordUploadError, CloseUpload
  <2> QED  BY <1>6, <2>1, <2>2, <2>3, <2>4, <2>5, <2>7 DEF UploadStep
<1> QED  BY <1>1, <1>3, <1>4, <1>5, <1>6, OwnSteps

-----------------------------------------------------------------------------
(* The feedback corpus. *)

LEMMA CapturedStep ==
    ASSUME RecordsInv, [UploadNext]_uploadVars
    PROVE  CommentCapturedOnce'
<1> SUFFICES ASSUME NEW x \in Docs \X Requests
             PROVE  /\ corpus'[x] <= 1
                    /\ corpus'[x] = 1 => docs'[x[1]].processed >= x[2]
  BY DEF CommentCapturedOnce
<1>1. /\ docs[x[1]].processed \in Nat /\ docs'[x[1]].processed \in Nat /\ x[2] \in Nat
      /\ docs[x[1]].processed <= docs'[x[1]].processed
  BY UploadRows, RequestNumbers, RecordsAreTyped DEF Requests
<1>2. CASE corpus'[x] = corpus[x]
  BY <1>1, <1>2 DEF RecordsInv, CommentCapturedOnce
<1>3. ASSUME NEW w \in Workers, Capture(w), <<TheDoc(w), TheRequest(w)>> = x,
             corpus'[x] = corpus[x] + 1
      PROVE  corpus'[x] <= 1 /\ docs'[x[1]].processed >= x[2]
  <2>1. step[w] = "capture" /\ pc[w] = "complete"
    BY <1>3, WithinStep DEF Capture
  <2>2. corpus[x] = 0
    BY <1>3, <2>1 DEF RecordsInv, UploadWorkerInv, CaptureInv
  <2>3. docs[TheDoc(w)].processed >= TheRequest(w)
    BY <2>1 DEF RecordsInv, SafeInv, WorkerInv, CommittedBeforeComplete
  <2>4. x[1] = TheDoc(w) /\ x[2] = TheRequest(w)
    BY <1>3
  <2> QED  BY <1>1, <1>3, <2>2, <2>3, <2>4
<1> QED  BY <1>2, <1>3, CorpusWritten

\* Only the commit of a request leads to the capture of its comment.
LEMMA CapturesAfterCommit ==
    ASSUME RecordsInv, NEW w \in Workers, UploadStep(w), step'[w] = "capture"
    PROVE  CommitUpload(w) /\ CommittedBy(w, TheDoc(w))
<1>1. TypeOK /\ RecordsTyped
  BY RecordsAreTyped
<1>2. ~ReadUpload(w)
  BY StepNow DEF ReadUpload, FirstStep
<1>3. /\ ~LoadSource(w) /\ ~Analyse(w) /\ ~StoreHtml(w) /\ ~RecordArtifact(w)
      /\ ~Capture(w) /\ ~UploadError(w) /\ ~TellEnd(w)
  BY StepNow
  DEF LoadSource, Analyse, StoreHtml, RecordArtifact, Capture, UploadError, TellEnd
<1>4. ~JudgeUploadError(w)
  BY StepNow DEF JudgeUploadError
<1>5. ~Forget(w)
  BY <1>1 DEF Forget, RecordsTyped
<1>6. CommitUpload(w)
  BY <1>2, <1>3, <1>4, <1>5, StepNow DEF UploadStep, RecordUploadError, CloseUpload
<1>7. pc'[w] = "complete"
  BY <1>6, StepNow DEF CommitUpload
<1>8. MayCommit(w)
  BY <1>1, <1>6, <1>7 DEF CommitUpload, Commit, Goto, TypeOK, WorkersTypeOK
<1>9. TheDoc(w) \in Docs
  BY <1>6, WithinStep, OnUpload DEF CommitUpload, Commit
<1>10. ASSUME docs'[TheDoc(w)] = docs[TheDoc(w)] PROVE FALSE
  <2>1. ~IsDelete(w)
    BY <1>6, WithinStep, OnUpload DEF CommitUpload, Commit
  <2>2. RecordSuccess(TheDoc(w), TheRequest(w))
    BY <1>6, <1>8, <2>1 DEF CommitUpload, Commit
  <2>3. docs'[TheDoc(w)].version = docs[TheDoc(w)].version + 1
    BY <1>1, <1>9, <2>2 DEF RecordSuccess, TypeOK, StoreTypeOK, Document
  <2> QED  BY <1>9, <1>10, <2>3, RequestNumbers
<1> QED  BY <1>6, <1>9, <1>10, CommitRows

LEMMA CapturingWasCommitted ==
    ASSUME RecordsInv, NEW w \in Workers, step[w] = "capture"
    PROVE  docs[TheDoc(w)].processed >= TheRequest(w)
BY WithinStep DEF RecordsInv, SafeInv, WorkerInv, CommittedBeforeComplete

LEMMA CaptureStays ==
    ASSUME RecordsInv, [UploadNext]_uploadVars, NEW w \in Workers
    PROVE  CaptureInv(w)'
<1> DEFINE Comment1(v) == <<TheDoc(v), TheRequest(v)>>
<1> SUFFICES ASSUME step'[w] = "capture"
             PROVE  /\ corpus'[Comment1(w)'] = 0
                    /\ \A v \in Workers \ {w} :
                         step'[v] = "capture" => Comment1(v)' # Comment1(w)'
  BY DEF CaptureInv
<1>1. TypeOK /\ RecordsTyped
  BY RecordsAreTyped
\* A worker that is to capture was at it before, or has just committed.
<1>2. ASSUME NEW v \in Workers, step'[v] = "capture"
      PROVE  /\ HasJob(v) /\ job'[v] = job[v]
             /\ \/ step[v] = "capture" /\ SameWorker(v)
                \/ CommitUpload(v) /\ CommittedBy(v, TheDoc(v))
  <2>1. CASE SameWorker(v)
    BY <1>2, <2>1, WithinStep DEF SameWorker, SameLocals
  <2>2. CASE UploadStep(v)
    <3>1. CommitUpload(v) /\ CommittedBy(v, TheDoc(v))
      BY <1>2, <2>2, CapturesAfterCommit
    <3> QED  BY <3>1 DEF CommitUpload, Commit, Goto, HasJob
  <2>3. ~ClaimUpload(v)
    <3>1. ClaimUpload(v) => pc[v] = "idle" /\ step' = step
      BY DEF ClaimUpload, Claim, recordVars
    <3> QED  BY <1>2, <3>1, WithinStep
  <2>4. ~CrashUpload(v)
    BY <1>1, <1>2 DEF CrashUpload, Forget, RecordsTyped
  <2> QED  BY <1>1, <2>1, <2>2, <2>3, <2>4, OwnSteps
<1>3. PICK x \in Docs \X Requests : x = Comment1(w)
  BY <1>2, OnUpload
<1>4. Comment1(w)' = x
  BY <1>2, <1>3 DEF TheDoc, TheRequest
\* The one that has just committed is the first to have settled the request.
<1>5. ASSUME NEW v \in Workers, NEW u \in Workers, u # v,
             CommittedBy(v, TheDoc(v)), step'[u] = "capture"
      PROVE  Comment1(u) # Comment1(v)
  <2>1. TheDoc(v) \in Docs /\ docs[TheDoc(v)].processed < TheRequest(v) /\ TheRequest(v) \in Nat
    <3>1. HasJob(v)
      BY <1>5, WithinStep DEF CommittedBy, CommitUpload, Commit
    <3> QED  BY <1>5, <3>1, OnUpload, CommitterWorks
  <2>2. ~CommitUpload(u)
    <3>1. pc'[u] = pc[u] \/ pc'[v] = pc[v]
      BY <1>1, <1>5, StepsOfAnother DEF UploadStep, CommittedBy, SameWorker, SameLocals
    <3>2. ASSUME NEW z \in Workers, CommitUpload(z) PROVE pc'[z] # pc[z]
      BY <1>1, <3>2 DEF CommitUpload, Commit, Goto, TypeOK, WorkersTypeOK
    <3> QED  BY <1>1, <1>5, <3>1, <3>2 DEF CommittedBy
  <2>3. step[u] = "capture"
    BY <1>2, <1>5, <2>2
  <2>4. docs[TheDoc(u)].processed >= TheRequest(u)
    BY <2>3, CapturingWasCommitted
  <2> QED  BY <2>1, <2>4, RequestNumbers
<1>6. ASSUME NEW v \in Workers \ {w}, step'[v] = "capture"
      PROVE  Comment1(v)' # Comment1(w)'
  <2>1. Comment1(v)' = Comment1(v)
    BY <1>2, <1>6 DEF TheDoc, TheRequest
  <2>2. Comment1(v) # Comment1(w)
    <3>1. CASE CommittedBy(w, TheDoc(w)) \/ CommittedBy(v, TheDoc(v))
      BY <1>5, <1>6, <3>1
    <3>2. CASE step[w] = "capture" /\ step[v] = "capture"
      BY <1>6, <3>2 DEF RecordsInv, UploadWorkerInv, CaptureInv
    <3> QED  BY <1>2, <1>6, <3>1, <3>2
  <2> QED  BY <1>3, <1>4, <2>1, <2>2
<1>7. corpus'[x] = 0
  <2>1. corpus[x] = 0
    <3>1. CASE step[w] = "capture"
      BY <1>3, <3>1 DEF RecordsInv, UploadWorkerInv, CaptureInv
    <3>2. CASE CommittedBy(w, TheDoc(w))
      <4>1. TheDoc(w) \in Docs
        BY <1>2, OnUpload
      <4>2. docs[TheDoc(w)].processed < TheRequest(w) /\ TheRequest(w) \in Nat
        BY <1>2, <3>2, <4>1, CommitterWorks, OnUpload
      <4>3. x[1] = TheDoc(w) /\ x[2] = TheRequest(w)
        BY <1>3
      <4>4. corpus[x] <= 1 /\ corpus[x] # 1
        BY <4>1, <4>2, <4>3, RequestNumbers DEF RecordsInv, CommentCapturedOnce
      <4>5. corpus[x] \in 0..2
        BY DEF RecordsInv, UploadTypeOK
      <4> QED  BY <4>4, <4>5
    <3> QED  BY <1>2, <3>1, <3>2
  <2>2. ASSUME NEW v \in Workers, Capture(v), Comment1(v) = x PROVE FALSE
    <3>1. step[v] = "capture" /\ step'[v] = "tell"
      BY <2>2, StepNow DEF Capture
    <3>2. v # w
      BY <3>1
    <3>3. CASE step[w] = "capture"
      BY <1>3, <2>2, <3>1, <3>2, <3>3 DEF RecordsInv, UploadWorkerInv, CaptureInv
    <3>4. CASE CommittedBy(w, TheDoc(w))
      <4>1. docs' = docs
        BY <2>2 DEF Capture, vars, storeVars
      <4>2. TheDoc(w) \in Docs
        BY <1>2, OnUpload
      <4>3. docs'[TheDoc(w)].processed = TheRequest(w) /\ TheRequest(w) \in Nat
        BY <1>2, <3>4, OnUpload DEF CommittedBy
      <4> QED  BY <3>4, <4>1, <4>2, <4>3, CommitterWorks, RequestNumbers
    <3> QED  BY <1>2, <3>3, <3>4
  <2> QED  BY <2>1, <2>2, CorpusWritten
<1> QED  BY <1>4, <1>6, <1>7
-----------------------------------------------------------------------------
(* The invariant, and what it implies. *)

LEMMA RecordsInvInit == UploadInit => RecordsInv
<1> SUFFICES ASSUME UploadInit PROVE RecordsInv
  OBVIOUS
<1>1. Init /\ SafeInv
  BY InvInit DEF UploadInit, Inv
<1>2. 0 \in Versions /\ 0 <= MaxRequests
  BY StoreAssumption DEF Versions
<1>3. UploadTypeOK
  <2>1. /\ step \in [Workers -> Steps] /\ base \in [Workers -> Versions]
        /\ used \in [Workers -> SUBSET Requests]
    BY <1>2 DEF UploadInit, Steps
  <2>2. /\ sources \subseteq Uploads /\ comments \subseteq Docs \X Requests
        /\ received \subseteq JobIds
    BY DEF UploadInit
  <2>3. /\ notes \in [Docs -> SUBSET Requests]
        /\ drafts \in [Docs -> SUBSET SUBSET Requests]
    BY DEF UploadInit
  <2>4. /\ events \in [JobIds -> SUBSET Stages]
        /\ last \in [JobIds -> Stages \cup {None}]
    BY DEF UploadInit
  <2>5. /\ files \in [Docs -> [Versions -> Html \cup {None}]]
        /\ rows \in [Docs -> Versions]
    BY <1>2 DEF UploadInit
  <2>6. corpus \in [Docs \X Requests -> 0..2]
    <3> DEFINE Comments == Docs \X Requests
    <3>1. corpus = [x \in Comments |-> 0]
      BY DEF UploadInit
    <3> HIDE DEF Comments
    <3>2. corpus \in [Comments -> 0..2]
      BY <3>1
    <3> QED  BY <3>2 DEF Comments
  <2> QED
    BY <1>1, <2>1, <2>2, <2>3, <2>4, <2>5, <2>6 DEF UploadTypeOK, SafeInv
<1>4. \A j \in JobIds : jobs[j].status = "absent"
  BY <1>1 DEF Init, StoreInit
<1>5. UploadJobsInv /\ ClosedJobToldItsEnd
  BY <1>4 DEF UploadJobsInv, Known, ClosedJobToldItsEnd
<1>6. VersionsInv
  BY <1>1 DEF Init, StoreInit, VersionsInv, NoRequest
<1>7. FilesInv
  <2>1. \A d \in Docs : docs[d].status = "Absent"
    BY <1>1 DEF Init, StoreInit
  <2>2. \A d \in Docs : rows[d] = 0
    BY DEF UploadInit
  <2> QED  BY <2>1, <2>2 DEF FilesInv
<1>8. IssuedInv /\ NotesInv
  BY DEF UploadInit, IssuedInv, NotesInv, Noted
<1>9. ReadyStageMeansCommitted /\ CommentCapturedOnce
  <2>1. \A j \in JobIds : events[j] = {}
    BY DEF UploadInit
  <2>2. \A x \in Docs \X Requests : corpus[x] = 0
    BY DEF UploadInit
  <2> QED  BY <2>1, <2>2 DEF ReadyStageMeansCommitted, CommentCapturedOnce
<1>10. ASSUME NEW w \in Workers PROVE UploadWorkerInv(w)
  <2>1. pc[w] = "idle" /\ step[w] = "" /\ base[w] = 0
    BY <1>1 DEF UploadInit, Init
  <2> QED
    BY <1>2, <2>1
    DEF UploadWorkerInv, PlaceInv, StepsAt, ToldInv, BaseInv, UsedInv, CaptureInv
<1> QED
  BY <1>1, <1>3, <1>5, <1>6, <1>7, <1>8, <1>9, <1>10 DEF RecordsInv

LEMMA RecordsInvStep == RecordsInv /\ [UploadNext]_uploadVars => RecordsInv'
<1> SUFFICES ASSUME RecordsInv, [UploadNext]_uploadVars PROVE RecordsInv'
  OBVIOUS
<1>1. SafeInv'
  BY RecordsAreTyped, SafeUploadStep
<1>2. UploadTypeOK' /\ UploadJobsInv'
  BY UploadTypingStep, UploadJobsStep
<1>3. VersionsInv' /\ FilesInv' /\ IssuedInv' /\ NotesInv'
  BY VersionsStep, FilesStep, IssuedStep, NotesStep
<1>4. ClosedJobToldItsEnd' /\ ReadyStageMeansCommitted' /\ CommentCapturedOnce'
  BY ClosedStep, ReadyStageStep, CapturedStep
<1>5. ASSUME NEW w \in Workers PROVE UploadWorkerInv(w)'
  BY PlaceStep, ToldStep, BaseStep, UsedStep, CaptureStays DEF UploadWorkerInv
<1> QED  BY <1>1, <1>2, <1>3, <1>4, <1>5 DEF RecordsInv

\* What _process_upload relies on between two of its calls holds, although its
\* events, files, rows and feedback records are written without the claim, and a
\* tryout page may die between its own.
THEOREM UploadInvariant == UploadSpec => []RecordsInv
BY RecordsInvInit, RecordsInvStep, PTL DEF UploadSpec

\* Whoever finds an upload Ready finds the HTML of its version and an artifact row
\* that leads to one, whichever worker died on the way: put_bytes and
\* record_artifact come before record_success.
THEOREM ReadyUploadsHaveFiles == UploadSpec => []ReadyHasItsFiles
<1>1. RecordsInv => ReadyHasItsFiles
  BY QueueAssumption DEF RecordsInv, FilesInv, ReadyHasItsFiles
<1> QED  BY <1>1, UploadInvariant, PTL

\* The comment that asked for a result was in the analysis that made it, although
\* _append_note reads the notes outside of the transaction that writes them.
THEOREM CommentsAreUsed == UploadSpec => []ReadyUsedItsComment
<1>1. RecordsInv => ReadyUsedItsComment
  <2> SUFFICES ASSUME RecordsInv, NEW d \in Uploads, docs[d].status = "Ready",
                      <<d, docs[d].processed>> \in comments,
                      files[d][docs[d].version] # None,
                      files[d][docs[d].version].request = docs[d].processed
               PROVE  docs[d].processed \in files[d][docs[d].version].notes
    BY DEF ReadyUsedItsComment
  <2>1. d \in Docs /\ docs[d].processed = docs[d].request
    BY QueueAssumption DEF RecordsInv, SafeInv, TablesInv, StatusTellsTheOutcome
  <2>2. docs[d].version \in Versions
    BY <2>1, VersionBounds
  <2> QED  BY <2>1, <2>2 DEF RecordsInv, NotesInv, Noted
<1> QED  BY <1>1, UploadInvariant, PTL

\* A closed job has told its end on the timeline the status page polls, also when
\* the worker that closes it is not the one that committed.
THEOREM ClosedJobsTellTheirEnd == UploadSpec => []ClosedJobToldItsEnd
BY UploadInvariant, PTL DEF RecordsInv

\* READY on a timeline is written after record_success, by whichever worker.
THEOREM ReadyStagesAreCommitted == UploadSpec => []ReadyStageMeansCommitted
BY UploadInvariant, PTL DEF RecordsInv

\* _maybe_capture_feedback takes each comment at most once, with its outcome:
\* only the first commit of a request leads to it.
THEOREM CommentsAreCapturedOnce == UploadSpec => []CommentCapturedOnce
BY UploadInvariant, PTL DEF RecordsInv

\* With its timeline, files, notes and the page that may die between its calls, an
\* upload is still processed as the queue promises: whatever is written about a
\* request beside the outcome, the document tells one outcome of the newest request.
THEOREM UploadsRefineOutcome == UploadSpec => RefinesRequestOutcome
<1>1. UploadInit => Init
  BY DEF UploadInit
<1>2. SafeInv /\ [UploadNext]_uploadVars => [Outcome!Next]_(Outcome!vars)
  <2> SUFFICES ASSUME SafeInv, [UploadNext]_uploadVars
               PROVE  Outcome!Next \/ UNCHANGED Outcome!vars
    OBVIOUS
  <2>1. CASE [Next]_vars
    BY <2>1, MappedStep
  <2>2. CASE Dies
    <3>1. docs' = docs
      BY <2>2, DyingChangesNothing
    <3> QED  BY <3>1 DEF Outcome!vars, PhaseOf
  <2> QED  BY <2>1, <2>2, QueueSteps
<1>3. RecordsInv => SafeInv
  BY RecordsAreTyped
<1> QED
  BY <1>1, <1>2, <1>3, MappedInit, UploadInvariant, PTL
  DEF UploadSpec, RefinesRequestOutcome, Outcome!Spec

-----------------------------------------------------------------------------
(* The queue and the uploads, side by side. *)

\* What the run assumes of each part holds of every step, for any number of
\* documents, uploads, workers and requests.
LEMMA JobsStep ==
    ASSUME SafeInv, QueueInv, [JobsNext]_jobsVars
    PROVE  SafeInv' /\ QueueInv'
<1>1. CASE QueuePart
  <2>1. Inv'
    BY <1>1, InvStep DEF QueuePart, QueueInv, Inv
  <2>2. TypeOK'
    BY <2>1 DEF Inv, SafeInv
  <2>3. UploadTypeOK'
    BY <1>1, <2>2 DEF QueuePart, QueueInv, UploadTypeOK, recordVars
  <2> QED  BY <1>1, <2>1, <2>3 DEF QueuePart, QueueInv, Inv
<1>2. CASE UploadPart
  <2>1. RecordsInv'
    BY <1>2, RecordsInvStep DEF UploadPart, QueueInv
  <2> QED  BY <1>2, <2>1 DEF UploadPart, QueueInv, RecordsInv
<1>3. CASE UNCHANGED jobsVars
  <2>1. SafeInv'
    BY <1>3, SafeStep DEF jobsVars, uploadVars
  <2>2. part = "queue" => QueuedHasWork'
    BY <1>3, InvStep DEF jobsVars, uploadVars, QueueInv, Inv
  <2>3. part = "uploads" => RecordsInv'
    BY <1>3, RecordsInvStep DEF jobsVars, QueueInv
  <2>4. UploadTypeOK'
    BY <1>3, <2>1 DEF jobsVars, uploadVars, recordVars, QueueInv, UploadTypeOK, SafeInv
  <2> QED  BY <1>3, <2>1, <2>2, <2>3, <2>4 DEF jobsVars, QueueInv
<1> QED  BY <1>1, <1>2, <1>3 DEF JobsNext

\* What the two invariants say holds of the two models side by side: a waiting
\* document has work, and what is written about an upload agrees with its outcomes,
\* for any documents, uploads, workers and bounds.
THEOREM JobsInvariant == JobsSpec => [](SafeInv /\ QueueInv)
<1>1. JobsInit => SafeInv /\ QueueInv
  BY InvInit, RecordsInvInit DEF JobsInit, UploadInit, Inv, QueueInv, RecordsInv
<1>2. SafeInv /\ QueueInv /\ [JobsNext]_jobsVars => (SafeInv /\ QueueInv)'
  BY JobsStep
<1> QED  BY <1>1, <1>2, PTL DEF JobsSpec

-----------------------------------------------------------------------------
(* The control columns: the steps, as steps of the queue or not. *)

\* The steps that are not steps of JobQueue.
ControlOnly ==
    \/ \E d \in Docs, r \in Requests, type \in JobTypes : ListCommand(d, r, type)
    \/ \E w \in Workers : \E item \in batch[w] : IngestCommand(w, item)
    \/ \E w \in Workers : InvalidControlItem(w) \/ CrashWithControl(w)

LEMMA QueueOrColumns ==
    ASSUME ControlNext
    PROVE  [Next]_vars \/ ControlOnly
<1>1. ASSUME NEW d \in Docs, NEW r \in Requests, NEW type \in JobTypes,
             SpfxRequest(d, r, type) \/ (PortalRequest(d, r, type) /\ UNCHANGED controlVars)
      PROVE  Next
  BY <1>1 DEF SpfxRequest, Next, RequestStep
<1>2. ASSUME NEW m \in merges, BrowserMerge(m) \/ BrowserGivesUp(m)
      PROVE  UNCHANGED vars
  BY <1>2 DEF BrowserMerge, BrowserGivesUp
<1>3. ASSUME NEW w \in Workers, ReadCommands(w)
      PROVE  UNCHANGED vars
  BY <1>3 DEF ReadCommands
<1>4. ASSUME NEW w \in Workers, ClaimAfterIngest(w) \/ ReconcileAfterIngest(w)
      PROVE  Next
  BY <1>4 DEF ClaimAfterIngest, ReconcileAfterIngest, Next
<1>5. ASSUME NEW w \in Workers, WorkWithControl(w), ~InvalidControlItem(w)
      PROVE  Next
  <2>1. WorkOnJob(w)
    BY <1>5 DEF WorkWithControl, ReadControlItem, MarkControl, AnnounceControl, ReportControl,
                SetFailedControl, OtherWork, WorkOnJob
  <2> QED  BY <2>1 DEF Next
<1>6. ASSUME NEW j \in JobIds, AbandonedLeaseExpires(j) \/ SlowLeaseExpires(j) \/ AdminRetry(j)
      PROVE  Next
  BY <1>6 DEF Next, FaultStep
<1> QED
  BY <1>1, <1>2, <1>3, <1>4, <1>5, <1>6 DEF ControlNext, ControlOnly

\* An ingested command is a request of the queue, if an old one.
LEMMA IngestedCommand ==
    ASSUME ControlInv, NEW w \in Workers, NEW item \in batch[w], IngestCommand(w, item)
    PROVE  \E type \in JobTypes :
             /\ item.doc \in Docs /\ item.request \in Requests /\ item.status \in DocStatuses
             /\ UpsertDocumentAndEnqueue(item.doc, item.request, type, item.status)
<1>1. item.request \in Requests /\ item.status \in DocStatuses
  BY DEF ControlInv, DocStatuses
<1>2. item \in Listed
  BY DEF ControlInv, ControlTypeOK
<1>3. item.doc \in Docs
  BY <1>2 DEF Listed
<1>4. (IF item.command = "Enhance" THEN "upsert" ELSE "delete") \in JobTypes
  BY DEF JobTypes
<1> QED  BY <1>1, <1>3, <1>4 DEF IngestCommand

LEMMA ControlOnlyTyping ==
    ASSUME ControlInv, ControlOnly
    PROVE  TypeOK'
<1>0. TypeOK
  BY DEF ControlInv, ControlTypeOK
<1>1. ASSUME NEW d \in Docs, NEW r \in Requests, NEW type \in JobTypes, ListCommand(d, r, type)
      PROVE  TypeOK'
  BY <1>0, <1>1, FreshType, SameLocalsType DEF ListCommand, TypeOK, StoreTypeOK
<1>2. ASSUME NEW w \in Workers, NEW item \in batch[w], IngestCommand(w, item)
      PROVE  TypeOK'
  <2>1. docs' \in [Docs -> Document] /\ jobs' \in [JobIds -> Job]
    BY <1>0, <1>2, IngestedCommand, UpsertType DEF TypeOK
  <2> QED
    BY <1>0, <1>2, <2>1, SameLocalsType DEF IngestCommand, TypeOK, StoreTypeOK
<1>3. ASSUME NEW w \in Workers, InvalidControlItem(w)
      PROVE  TypeOK'
  BY <1>0, <1>3, DropType DEF InvalidControlItem, TypeOK, StoreTypeOK, storeVars
<1>4. ASSUME NEW w \in Workers, CrashWithControl(w)
      PROVE  TypeOK'
  <2>1. CASE Crash(w)
    BY <1>0, <2>1, TimeAndFaultType DEF FaultStep
  <2>2. CASE faults < MaxFaults /\ faults' = faults + 1 /\ UNCHANGED <<storeVars, workerVars, tryouts>>
    BY <1>0, <2>2, SameLocalsType, QueueAssumption DEF TypeOK, StoreTypeOK, storeVars
  <2> QED  BY <1>4, <2>1, <2>2 DEF CrashWithControl
<1> QED  BY <1>1, <1>2, <1>3, <1>4 DEF ControlOnly

\* What the columns and the browsers hold.
ColumnsInv ==
    /\ control \in [Docs -> ControlItem]
    /\ merges \subseteq Docs \X Requests \X {"Queued", "Removing"}
    /\ \A d \in Docs : control[d].command # "" => control[d].request \in Requests

\* What a poll holds.
BatchInv ==
    /\ batch \in [Workers -> SUBSET Listed]
    /\ \A w \in Workers : \A item \in batch[w] :
         item.request \in Requests /\ item.status \in {"Queued", "Removing"}

LEMMA ColumnsKeep ==
    ASSUME ControlInv, ControlNext
    PROVE  ColumnsInv'
<1>0. ColumnsInv /\ TypeOK
  BY DEF ControlInv, ControlTypeOK, ColumnsInv
<1>r. Requests \subseteq RequestIds /\ NoRequest \in RequestIds
  BY StoreAssumption DEF Requests, RequestIds, NoRequest
<1>1. ASSUME NEW d \in Docs, NEW r \in Requests, NEW type \in JobTypes,
             SpfxRequest(d, r, type) \/ ListCommand(d, r, type)
      PROVE  ColumnsInv'
  <2>1. CASE SpfxRequest(d, r, type)
    <3>1. PICK status \in {"Queued", "Removing"} : merges' = merges \cup {<<d, r, status>>}
      BY <2>1 DEF SpfxRequest
    <3>2. <<d, r, status>> \in Docs \X Requests \X {"Queued", "Removing"}
      OBVIOUS
    <3> QED  BY <1>0, <2>1, <3>1, <3>2 DEF SpfxRequest, ColumnsInv
  <2>2. CASE ListCommand(d, r, type)
    <3>1. [command |-> "Enhance", status |-> "Queued", request |-> r] \in ControlItem
      BY <1>r DEF ControlItem, Commands, ColumnStatuses
    <3>2. [command |-> "Remove", status |-> "Removing", request |-> r] \in ControlItem
      BY <1>r DEF ControlItem, Commands, ColumnStatuses
    <3> QED  BY <1>0, <2>2, <3>1, <3>2 DEF ListCommand, ColumnsInv
  <2> QED  BY <1>1, <2>1, <2>2
<1>2. ASSUME NEW m \in merges, BrowserMerge(m)
      PROVE  ColumnsInv'
  <2>1. m[1] \in Docs /\ m[2] \in Requests /\ m[3] \in {"Queued", "Removing"}
    BY <1>0 DEF ColumnsInv
  <2>2. control' = [control EXCEPT ![m[1]].request = m[2], ![m[1]].status = m[3]]
    BY <1>2 DEF BrowserMerge
  <2>3. control' \in [Docs -> ControlItem]
    BY <1>0, <1>r, <2>1, <2>2 DEF ColumnsInv, ControlItem, ColumnStatuses
  <2>4. ASSUME NEW d \in Docs, control'[d].command # "" PROVE control'[d].request \in Requests
    <3>1. CASE d = m[1]
      BY <1>0, <2>1, <2>2, <3>1 DEF ColumnsInv, ControlItem
    <3>2. CASE d # m[1]
      BY <1>0, <2>1, <2>2, <2>4, <3>2 DEF ColumnsInv
    <3> QED  BY <3>1, <3>2
  <2> QED  BY <1>0, <1>2, <2>3, <2>4 DEF BrowserMerge, ColumnsInv
<1>3. ASSUME NEW m \in merges, BrowserGivesUp(m)
      PROVE  ColumnsInv'
  BY <1>0, <1>3 DEF BrowserGivesUp, ColumnsInv
<1>4. ASSUME NEW d \in Docs, NEW status \in ColumnStatuses, SetStatus(d, status)
      PROVE  ColumnsInv'
  BY <1>0, <1>4 DEF SetStatus, ColumnsInv, ControlItem
<1>5. ASSUME NEW w \in Workers, WorkWithControl(w)
      PROVE  ColumnsInv'
  <2>1. CASE UNCHANGED controlVars
    BY <1>0, <2>1 DEF controlVars, ColumnsInv
  <2>2. CASE MarkControl(w) \/ SetFailedControl(w) \/ AnnounceControl(w)
    <3>1. HasJob(w)
      BY <2>2 DEF MarkControl, SetFailedControl, AnnounceControl, Mark, SetFailed, Announce, HasJob
    <3>2. TheDoc(w) \in Docs
      BY <1>0, <3>1 DEF TypeOK, WorkersTypeOK, LocalsSet, TheDoc, DocOf, JobIds
    <3>3. CASE MarkControl(w) \/ SetFailedControl(w)
      BY <1>4, <3>2, <3>3 DEF MarkControl, SetFailedControl, ColumnStatuses
    <3>4. CASE AnnounceControl(w)
      <4>1. PICK status \in ColumnStatuses :
              control' = [control EXCEPT ![TheDoc(w)].command = "", ![TheDoc(w)].status = status]
        BY <3>4 DEF AnnounceControl, ColumnStatuses
      <4>2. control \in [Docs -> ControlItem]
        BY <1>0 DEF ColumnsInv
      <4>3. control' \in [Docs -> ControlItem]
        BY <3>2, <4>1, <4>2 DEF ControlItem, Commands
      <4>4. ASSUME NEW d \in Docs, control'[d].command # ""
            PROVE  control'[d].request \in Requests
        <5>1. CASE d = TheDoc(w)
          BY <4>1, <4>2, <4>4, <5>1 DEF ControlItem
        <5>2. CASE d # TheDoc(w)
          BY <1>0, <4>1, <4>2, <4>4, <5>2 DEF ColumnsInv
        <5> QED  BY <5>1, <5>2
      <4> QED
        BY <1>0, <3>4, <4>3, <4>4 DEF AnnounceControl, ColumnsInv
    <3> QED  BY <2>2, <3>3, <3>4
  <2> QED
    BY <1>5, <2>1, <2>2 DEF WorkWithControl, InvalidControlItem, ReadControlItem, ReportControl,
       OtherWork
<1>6. CASE UNCHANGED <<control, merges>>
  BY <1>0, <1>6 DEF ColumnsInv
<1> QED
  BY <1>1, <1>2, <1>3, <1>5, <1>6
  DEF ControlNext, controlVars, ReadCommands, IngestCommand, ClaimAfterIngest,
      ReconcileAfterIngest, CrashWithControl

LEMMA BatchKeeps ==
    ASSUME ControlInv, ControlNext
    PROVE  BatchInv'
<1>0. BatchInv /\ ColumnsInv
  BY DEF ControlInv, ControlTypeOK, ColumnsInv, BatchInv
<1>1. ASSUME NEW w \in Workers, ReadCommands(w)
      PROVE  BatchInv'
  <2>1. ASSUME NEW item \in ListedCommands
        PROVE  /\ item \in Listed /\ item.request \in Requests
               /\ item.status \in {"Queued", "Removing"}
    <3>1. PICK d \in SharePointDocs :
            /\ control[d].status \in {"Queued", "Removing"} /\ control[d].command # ""
            /\ item = [doc |-> d, command |-> control[d].command, status |-> control[d].status,
                       request |-> control[d].request]
      BY <2>1 DEF ListedCommands
    <3>2. d \in Docs /\ control[d] \in ControlItem
      BY <1>0 DEF SharePointDocs, ColumnsInv
    <3> QED  BY <1>0, <3>1, <3>2 DEF ColumnsInv, Listed, ControlItem
  <2>2. batch' = [batch EXCEPT ![w] = ListedCommands]
    BY <1>1 DEF ReadCommands
  <2> QED  BY <1>0, <2>1, <2>2 DEF BatchInv
<1>2. ASSUME NEW w \in Workers, NEW item \in batch[w], IngestCommand(w, item)
      PROVE  BatchInv'
  BY <1>0, <1>2 DEF IngestCommand, BatchInv
<1>3. ASSUME NEW w \in Workers, CrashWithControl(w)
      PROVE  BatchInv'
  BY <1>0, <1>3 DEF CrashWithControl, BatchInv
<1>4. CASE UNCHANGED batch
  BY <1>0, <1>4 DEF BatchInv
<1> QED
  BY <1>1, <1>2, <1>3, <1>4
  DEF ControlNext, SpfxRequest, ListCommand, BrowserMerge, BrowserGivesUp, ClaimAfterIngest,
      ReconcileAfterIngest, WorkWithControl, controlVars, SetStatus, InvalidControlItem,
      ReadControlItem, MarkControl, AnnounceControl, ReportControl, SetFailedControl, OtherWork

LEMMA ListedIsNat ==
    ASSUME ControlInv, ControlNext
    PROVE  listed' \in Nat
<1>1. listed' = listed \/ listed' = listed + 1
  BY DEF ControlNext, SpfxRequest, ListCommand, BrowserMerge, BrowserGivesUp, ClaimAfterIngest,
      ReconcileAfterIngest, WorkWithControl, controlVars, SetStatus, InvalidControlItem,
      ReadControlItem, MarkControl, AnnounceControl, ReportControl, SetFailedControl, OtherWork,
      ReadCommands, IngestCommand, CrashWithControl
<1>2. listed \in Nat
  BY DEF ControlInv, ControlTypeOK
<1> QED  BY <1>1, <1>2

LEMMA ControlKeeps ==
    ASSUME ControlInv, [ControlNext]_allVars
    PROVE  ControlInv'
<1>0. TypeOK
  BY DEF ControlInv, ControlTypeOK
<1>1. CASE ControlNext
  <2>1. TypeOK'
    BY <1>0, <1>1, QueueOrColumns, TypingStep, ControlOnlyTyping
  <2>2. ColumnsInv' /\ BatchInv' /\ listed' \in Nat
    BY <1>1, ColumnsKeep, BatchKeeps, ListedIsNat
  <2> QED  BY <2>1, <2>2 DEF ControlInv, ControlTypeOK, ColumnsInv, BatchInv
<1>2. CASE UNCHANGED allVars
  <2>1. TypeOK'
    BY <1>0, <1>2, TypingStep DEF allVars
  <2> QED  BY <1>2, <2>1 DEF allVars, controlVars, ControlInv, ControlTypeOK
<1> QED  BY <1>1, <1>2

\* Only record_success makes a version, and it looks at the request and the claim.
LEMMA QueueVersions ==
    ASSUME TypeOK, [Next]_vars, NEW d \in Docs, docs'[d].version # docs[d].version
    PROVE  \E w \in Workers : Commit(w) /\ MayCommit(w) /\ ~IsDelete(w) /\ TheDoc(w) = d
<1> USE DEF TypeOK, StoreTypeOK, Document
<1>0. docs' # docs
  OBVIOUS
<1>1. ASSUME NEW e \in Docs, NEW r, NEW type, NEW status, UpsertDocumentAndEnqueue(e, r, type, status)
      PROVE  FALSE
  <2> DEFINE wanted == (type = "upsert")
  <2>1. docs' = [docs EXCEPT ![e].desired = wanted, ![e].status = status, ![e].request = r]
    BY <1>1 DEF UpsertDocumentAndEnqueue
  <2> HIDE DEF wanted
  <2> QED  BY <2>1
<1>2. ASSUME NEW e \in Docs, NEW r, RecordRemoved(e, r) \/ RecordDocumentError(e)
      PROVE  FALSE
  BY <1>2 DEF RecordRemoved, RecordDocumentError
<1>3. CASE RequestStep
  <2>1. ASSUME NEW e \in Docs, NEW r \in Requests, TryoutCreate(e, r)
        PROVE  FALSE
    <3> DEFINE wanted == TRUE
    <3>1. docs' = [docs EXCEPT ![e].desired = wanted, ![e].status = "Queued", ![e].request = r]
      BY <2>1 DEF TryoutCreate
    <3> HIDE DEF wanted
    <3> QED  BY <3>1
  <2> QED
    BY <1>0, <1>1, <1>3, <2>1 DEF RequestStep, ApiRequest, PortalRequest, QueueRequest, TryoutEnqueue
<1>4. ASSUME NEW w \in Workers, ReconcileStep(w)
      PROVE  FALSE
  <2>1. pc[w] = "reconcile" => seen[w][1] \in Docs
    BY DEF WorkersTypeOK, LocalsSet
  <2> QED
    BY <1>0, <1>1, <1>2, <1>4, <2>1
    DEF ReconcileStep, ReconcileRead, ReconcileSourceMissing, ReconcileRefresh, ReconcileSkip,
        QueueRefreshIfCurrent, storeVars
<1>5. ASSUME NEW w \in Workers, WorkOnJob(w)
      PROVE  Commit(w) /\ MayCommit(w) /\ ~IsDelete(w) /\ TheDoc(w) = d
  <2>1. HasJob(w) => TheDoc(w) \in Docs
    BY DEF WorkersTypeOK, LocalsSet, TheDoc, DocOf, JobIds
  <2>2. CASE Commit(w)
    <3>1. HasJob(w)
      BY <2>2 DEF Commit, HasJob
    <3>2. MayCommit(w) /\ ~IsDelete(w) /\ RecordSuccess(TheDoc(w), TheRequest(w))
      BY <1>0, <1>2, <2>1, <2>2, <3>1 DEF Commit
    <3>3. TheDoc(w) = d
      BY <3>2, <2>1, <3>1 DEF RecordSuccess
    <3> QED  BY <2>2, <3>2, <3>3
  <2>3. CASE RecordError(w)
    BY <1>0, <1>2, <2>1, <2>3 DEF RecordError, HasJob
  <2> QED
    BY <1>0, <1>5, <2>2, <2>3 DEF WorkOnJob, ReadDocument, ReadControl, Start, Mark, Process,
       Publish, Verify, Announce, Complete, Cancel, KnownError, JudgeError, FailJob, Report,
       SetFailed, storeVars
<1> QED
  BY <1>0, <1>3, <1>4, <1>5 DEF Next, FaultStep, Claim, Crash, SlowLeaseExpires, AdminRetry,
     AbandonedLeaseExpires, vars, storeVars

LEMMA ColumnVersions ==
    ASSUME ControlInv, ControlOnly, NEW d \in Docs
    PROVE  docs'[d].version = docs[d].version
<1>0. docs \in [Docs -> Document]
  BY DEF ControlInv, ControlTypeOK, TypeOK, StoreTypeOK
<1>1. ASSUME NEW w \in Workers, NEW item \in batch[w], IngestCommand(w, item)
      PROVE  docs'[d].version = docs[d].version
  <2>1. PICK type \in JobTypes :
          /\ item.doc \in Docs
          /\ UpsertDocumentAndEnqueue(item.doc, item.request, type, item.status)
    BY <1>1, IngestedCommand
  <2> DEFINE wanted == (type = "upsert")
  <2>2. docs' = [docs EXCEPT ![item.doc].desired = wanted, ![item.doc].status = item.status,
                             ![item.doc].request = item.request]
    BY <2>1 DEF UpsertDocumentAndEnqueue
  <2> HIDE DEF wanted
  <2> QED  BY <1>0, <2>2 DEF Document
<1>2. CASE UNCHANGED docs
  BY <1>2
<1> QED
  BY <1>1, <1>2 DEF ControlOnly, ListCommand, InvalidControlItem, CrashWithControl, Crash, storeVars

LEMMA EnhancedStep ==
    ASSUME ControlInv, [ControlNext]_allVars, NEW d \in Docs,
           docs'[d].version # docs[d].version
    PROVE  \E w \in Workers : /\ job[w] = <<d, docs[d].request, "upsert">>
                              /\ ClaimIsCurrent(w)
<1>0. TypeOK
  BY DEF ControlInv, ControlTypeOK
<1>1. [Next]_vars
  BY QueueOrColumns, ColumnVersions DEF allVars, vars, storeVars
<1>2. PICK w \in Workers : Commit(w) /\ MayCommit(w) /\ ~IsDelete(w) /\ TheDoc(w) = d
  BY <1>0, <1>1, QueueVersions
<1>3. job[w] \in JobIds
  BY <1>0, <1>2 DEF Commit, HasJob, TypeOK, WorkersTypeOK, LocalsSet
<1>4. job[w] = <<DocOf(job[w]), RequestOf(job[w]), TypeOf(job[w])>>
      /\ TypeOf(job[w]) \in {"upsert", "delete"}
  BY <1>3 DEF JobIds, JobTypes, DocOf, RequestOf, TypeOf
<1> QED
  BY <1>2, <1>4 DEF MayCommit, StillCurrent, RequestIsCurrent, TheDoc, TheRequest, IsDelete

LEMMA ControlStart == ControlInit => ControlInv
<1> SUFFICES ASSUME ControlInit PROVE ControlInv
  OBVIOUS
<1>1. TypeOK
  BY TypingInit DEF ControlInit
<1>2. [command |-> "", status |-> "", request |-> NoRequest] \in ControlItem
  BY StoreAssumption DEF ControlItem, Commands, ColumnStatuses, RequestIds, NoRequest
<1> QED
  BY <1>1, <1>2 DEF ControlInit, ControlInv, ControlTypeOK

\* Whatever the columns say and whenever they are read, an enhancement is only
\* committed for the document's request at that moment, by a worker whose claim of
\* that request's job is current, also after a poll that put the document back to
\* an older request.
THEOREM EnhancementsAreClaimed == ControlSpec => []ControlInv /\ EnhancedByCurrentClaim
<1>1. ControlInv /\ [ControlNext]_allVars =>
        [\A d \in Docs :
           docs'[d].version # docs[d].version =>
             \E w \in Workers : /\ job[w] = <<d, docs[d].request, "upsert">>
                                /\ ClaimIsCurrent(w)]_allVars
  BY EnhancedStep
<1>2. ControlInv /\ [ControlNext]_allVars => ControlInv'
  BY ControlKeeps
<1> QED  BY ControlStart, <1>1, <1>2, PTL DEF ControlSpec, EnhancedByCurrentClaim
=============================================================================
