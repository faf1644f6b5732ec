------------------------------ MODULE JobQueue ------------------------------
(***************************************************************************)
(* The queue of the search enhancement service at work: web requests and   *)
(* portals enqueue, several workers claim jobs under leases, process them  *)
(* and commit outcomes behind a fence; workers crash, leases run out under *)
(* slow workers, administrators retry, and the reconciliation pass         *)
(* withdraws and refreshes.                                                *)
(*                                                                         *)
(* Covered: every step of run_once and _process_job between two reads or   *)
(* writes that other actors can see.  Abstracted: the pipeline (download,  *)
(* decrypt, analyse, render) is one step that succeeds or raises one of    *)
(* KNOWN_PROCESSING_ERRORS, and the writes to the publication targets are  *)
(* one step between the checks before and after them, with the publication *)
(* transition at rest (status "active").  The SharePoint control columns   *)
(* are not state here: SharePointControl adds them to these actions.       *)
(***************************************************************************)
EXTENDS EnhancementStore

CONSTANTS
    Uploads,           \* the documents whose source_kind is "upload"
    MaxFaults          \* bound: crashes, leases lost to slowness and retries

ASSUME QueueAssumption ==
    /\ Uploads \subseteq Docs
    /\ MaxFaults \in Nat

VARIABLES
    pc,          \* where each worker is in _process_job, or "idle"
    job,         \* the job it claimed
    attempt,     \* job.attempts as the claim returned it
    seen,        \* the DocumentRecord it read: document and request id
    tryouts,     \* uploads whose document row exists and whose job does not
    faults       \* how many faults have happened

workerVars == <<pc, job, attempt, seen>>
vars       == <<storeVars, workerVars, tryouts, faults>>

SharePointDocs == Docs \ Uploads

Labels ==
    {"idle", "reconcile", "claimed", "control", "start", "mark",
     "process", "publish", "verify", "commit", "announce", "complete",
     "stale", "error", "record_error", "fail_job", "report", "set_failed"}

HasJob(w) == pc[w] \notin {"idle", "reconcile"}

\* The locals that are in scope where each worker is.
LocalsSet(w) ==
    /\ HasJob(w) => job[w] \in JobIds
    /\ pc[w] \in {"reconcile", "control"} => seen[w] \in Docs \X RequestIds

WorkersTypeOK ==
    /\ pc \in [Workers -> Labels]
    /\ job \in [Workers -> JobIds \cup {None}]
    /\ attempt \in [Workers -> 0..MaxAttempts]
    /\ seen \in [Workers -> (Docs \X RequestIds) \cup {None}]
    /\ \A w \in Workers : LocalsSet(w)

TypeOK ==
    /\ StoreTypeOK
    /\ WorkersTypeOK
    /\ tryouts \subseteq Docs \X Requests
    /\ faults \in 0..MaxFaults

Init ==
    /\ StoreInit
    /\ pc = [w \in Workers |-> "idle"]
    /\ job = [w \in Workers |-> None]
    /\ attempt = [w \in Workers |-> 0]
    /\ seen = [w \in Workers |-> None]
    /\ tryouts = {}
    /\ faults = 0

Goto(w, label) ==
    /\ pc' = [pc EXCEPT ![w] = label]
    /\ UNCHANGED <<job, attempt, seen>>

\* Back to the claim loop: the locals of _process_job are gone.
Drop(w) ==
    /\ pc' = [pc EXCEPT ![w] = "idle"]
    /\ job' = [job EXCEPT ![w] = None]
    /\ attempt' = [attempt EXCEPT ![w] = 0]
    /\ seen' = [seen EXCEPT ![w] = None]

TheDoc(w)     == DocOf(job[w])
TheRequest(w) == RequestOf(job[w])
IsDelete(w)   == TypeOf(job[w]) = "delete"
IsUpload(w)   == TheDoc(w) \in Uploads

StillCurrent(w)   == RequestIsCurrent(TheDoc(w), TheRequest(w))
ClaimIsCurrent(w) == JobClaimIsCurrent(w, job[w], attempt[w])

-----------------------------------------------------------------------------
(* Requests: the ingest API, the portals, the tryout page. *)

ApiRequest(d, r, type) ==
    /\ d \in SharePointDocs
    /\ FreshRequest(r)
    /\ UpsertDocumentAndEnqueue(d, r, type, "Queued")
    /\ UNCHANGED <<workerVars, tryouts, faults>>

PortalRequest(d, r, type) ==
    /\ type = "delete" => d \in SharePointDocs
    /\ QueueRequest(d, r, type)
    /\ UNCHANGED <<workerVars, tryouts, faults>>

TryoutCreate(d, r) ==
    /\ d \in Uploads
    /\ ~Exists(d)
    /\ FreshRequest(r)
    /\ docs' = [docs EXCEPT ![d].desired = TRUE, ![d].status = "Queued",
                            ![d].request = r]
    /\ tryouts' = tryouts \cup {<<d, r>>}
    /\ UNCHANGED <<jobs, workerVars, faults>>

\* After the source was stored: enqueue, or queue_refresh when there is a note.
TryoutEnqueue(d, r) ==
    /\ <<d, r>> \in tryouts
    /\ \/ /\ jobs' = Enqueued(<<d, r, "upsert">>)
          /\ UNCHANGED <<docs, lastRequest>>
       \/ \E next \in Requests : QueueRequest(d, next, "upsert")
    /\ tryouts' = tryouts \ {<<d, r>>}
    /\ UNCHANGED <<workerVars, faults>>

-----------------------------------------------------------------------------
(* The worker's loop: claim jobs, reconcile. *)

Claim(w) ==
    /\ pc[w] = "idle"
    /\ \E j \in JobIds :
         /\ ClaimJob(w, j)
         /\ job' = [job EXCEPT ![w] = j]
         /\ attempt' = [attempt EXCEPT ![w] = NextAttempt(j)]
    /\ pc' = [pc EXCEPT ![w] = "claimed"]
    /\ UNCHANGED <<docs, lastRequest, seen, tryouts, faults>>

\* list_enabled_documents: what the pass knows of a document from here on.
ReconcileRead(w, d) ==
    /\ pc[w] = "idle"
    /\ d \in SharePointDocs
    /\ docs[d].desired
    /\ docs[d].status = "Ready"
    /\ seen' = [seen EXCEPT ![w] = <<d, docs[d].request>>]
    /\ pc' = [pc EXCEPT ![w] = "reconcile"]
    /\ UNCHANGED <<storeVars, job, attempt, tryouts, faults>>

\* The source is gone: no fence but the request id that was read.
ReconcileSourceMissing(w) ==
    /\ pc[w] = "reconcile"
    /\ IF RequestIsCurrent(seen[w][1], seen[w][2])
       THEN RecordRemoved(seen[w][1], seen[w][2])
       ELSE UNCHANGED docs
    /\ Drop(w)
    /\ UNCHANGED <<jobs, lastRequest, tryouts, faults>>

ReconcileRefresh(w, r) ==
    /\ pc[w] = "reconcile"
    /\ QueueRefreshIfCurrent(seen[w][1], seen[w][2], r)
    /\ Drop(w)
    /\ UNCHANGED <<tryouts, faults>>

\* Nothing to do, or the document moved on since it was read.
ReconcileSkip(w) ==
    /\ pc[w] = "reconcile"
    /\ Drop(w)
    /\ UNCHANGED <<storeVars, tryouts, faults>>

-----------------------------------------------------------------------------
(* The worker: one job. *)

\* Mutant: no recovery of a job whose outcome is committed.
ReadDocumentWithoutRecovery(w) ==
    /\ pc[w] = "claimed"
    /\ seen' = [seen EXCEPT ![w] = <<TheDoc(w), docs[TheDoc(w)].request>>]
    /\ pc' = [pc EXCEPT ![w] = IF IsUpload(w) THEN "process" ELSE "control"]
    /\ UNCHANGED <<storeVars, job, attempt, tryouts, faults>>

\* get_document: a job whose outcome is committed already is only completed.
ReadDocument(w) ==
    /\ pc[w] = "claimed"
    /\ LET d == TheDoc(w) IN
         /\ seen' = [seen EXCEPT ![w] = <<d, docs[d].request>>]
         /\ pc' = [pc EXCEPT ![w] =
                     CASE docs[d].processed = TheRequest(w) -> "complete"
                       [] docs[d].processed # TheRequest(w) /\ IsUpload(w) -> "process"
                       [] OTHER -> "control"]
    /\ UNCHANGED <<storeVars, job, attempt, tryouts, faults>>

\* get_control_item, then the comparison with the document read before it.
ReadControl(w) ==
    /\ pc[w] = "control"
    /\ pc' = [pc EXCEPT ![w] = IF seen[w][2] # TheRequest(w) THEN "stale" ELSE "start"]
    /\ seen' = [seen EXCEPT ![w] = None]
    /\ UNCHANGED <<storeVars, job, attempt, tryouts, faults>>

Start(w) ==
    /\ pc[w] = "start"
    /\ Goto(w, IF StillCurrent(w) /\ (IsDelete(w) => ClaimIsCurrent(w))
               THEN "mark" ELSE "stale")
    /\ UNCHANGED <<storeVars, tryouts, faults>>

\* set_processing, set_removing.
Mark(w) ==
    /\ pc[w] = "mark"
    /\ Goto(w, IF IsDelete(w) THEN "publish" ELSE "process")
    /\ UNCHANGED <<storeVars, tryouts, faults>>

Process(w) ==
    /\ pc[w] = "process"
    /\ Goto(w, IF IsUpload(w) THEN "commit" ELSE "publish")
    /\ UNCHANGED <<storeVars, tryouts, faults>>

\* The checks before the remote writes of an upsert or the remote deletions of
\* a delete, and those writes.
Publish(w) ==
    /\ pc[w] = "publish"
    /\ Goto(w, IF StillCurrent(w) /\ ClaimIsCurrent(w) THEN "verify" ELSE "stale")
    /\ UNCHANGED <<storeVars, tryouts, faults>>

\* The checks after them.
Verify(w) ==
    /\ pc[w] = "verify"
    /\ Goto(w, IF StillCurrent(w) /\ ClaimIsCurrent(w) THEN "commit" ELSE "stale")
    /\ UNCHANGED <<storeVars, tryouts, faults>>

\* Mutants: one half of the fence of record_success and record_removed is missing.
MayCommitUnclaimed(w)  == StillCurrent(w)
MayCommitSuperseded(w) == ClaimIsCurrent(w)

MayCommit(w) == StillCurrent(w) /\ ClaimIsCurrent(w)

\* Mutant: the refusal of record_success is not looked at.
CommitIgnoringRefusal(w) ==
    /\ pc[w] = "commit"
    /\ IF ~MayCommit(w) THEN UNCHANGED docs
       ELSE IF IsDelete(w) THEN RecordRemoved(TheDoc(w), TheRequest(w))
       ELSE RecordSuccess(TheDoc(w), TheRequest(w))
    /\ Goto(w, IF IsUpload(w) THEN "complete" ELSE "announce")
    /\ UNCHANGED <<jobs, lastRequest, tryouts, faults>>

\* record_success and record_removed.
Commit(w) ==
    /\ pc[w] = "commit"
    /\ IF MayCommit(w)
       THEN /\ IF IsDelete(w) THEN RecordRemoved(TheDoc(w), TheRequest(w))
                              ELSE RecordSuccess(TheDoc(w), TheRequest(w))
            /\ Goto(w, IF IsUpload(w) THEN "complete" ELSE "announce")
       ELSE UNCHANGED docs /\ Goto(w, "stale")
    /\ UNCHANGED <<jobs, lastRequest, tryouts, faults>>

\* set_ready, set_not_enabled.
Announce(w) ==
    /\ pc[w] = "announce"
    /\ Goto(w, "complete")
    /\ UNCHANGED <<storeVars, tryouts, faults>>

Complete(w) ==
    /\ pc[w] = "complete"
    /\ CloseJob(w, job[w], attempt[w], "completed")
    /\ Drop(w)
    /\ UNCHANGED <<docs, lastRequest, tryouts, faults>>

\* Mutant: a worker that lost its claim asks for the job again by its id.
CancelByAnyClaim(w) ==
    /\ pc[w] = "stale"
    /\ CloseJob(jobs[job[w]].owner, job[w], jobs[job[w]].attempts, "cancelled")
    /\ Drop(w)
    /\ UNCHANGED <<docs, lastRequest, tryouts, faults>>

Cancel(w) ==
    /\ pc[w] = "stale"
    /\ CloseJob(w, job[w], attempt[w], "cancelled")
    /\ Drop(w)
    /\ UNCHANGED <<docs, lastRequest, tryouts, faults>>

\* One of KNOWN_PROCESSING_ERRORS, at any call that may raise one.
KnownError(w) ==
    /\ pc[w] \in {"control", "mark", "process", "publish", "announce"}
    /\ Goto(w, "error")
    /\ UNCHANGED <<storeVars, tryouts, faults>>

JudgeError(w) ==
    /\ pc[w] = "error"
    /\ Goto(w, IF StillCurrent(w) THEN "record_error" ELSE "stale")
    /\ UNCHANGED <<storeVars, tryouts, faults>>

\* When the error may not be recorded the worker leaves the job as it is.
RecordError(w) ==
    /\ pc[w] = "record_error"
    /\ IF MayRecordError(TheDoc(w), TheRequest(w)) /\ ClaimIsCurrent(w)
       THEN RecordDocumentError(TheDoc(w)) /\ Goto(w, "fail_job")
       ELSE UNCHANGED docs /\ Drop(w)
    /\ UNCHANGED <<jobs, lastRequest, tryouts, faults>>

FailJob(w) ==
    /\ pc[w] = "fail_job"
    /\ CloseJob(w, job[w], attempt[w], "failed")
    /\ IF IsUpload(w) THEN Drop(w) ELSE Goto(w, "report")
    /\ UNCHANGED <<docs, lastRequest, tryouts, faults>>

\* get_control_item, then set_failed if the columns still show the request.
\* A GraphRequestError here is logged: the job is closed already.
Report(w) ==
    /\ pc[w] = "report"
    /\ Goto(w, "set_failed") \/ Drop(w)
    /\ UNCHANGED <<storeVars, tryouts, faults>>

SetFailed(w) ==
    /\ pc[w] = "set_failed"
    /\ Drop(w)
    /\ UNCHANGED <<storeVars, tryouts, faults>>

WorkOnJob(w) ==
    \/ ReadDocument(w)
    \/ ReadControl(w)
    \/ Start(w)
    \/ Mark(w)
    \/ Process(w)
    \/ Publish(w)
    \/ Verify(w)
    \/ Commit(w)
    \/ Announce(w)
    \/ Complete(w)
    \/ Cancel(w)
    \/ KnownError(w)
    \/ JudgeError(w)
    \/ RecordError(w)
    \/ FailJob(w)
    \/ Report(w)
    \/ SetFailed(w)

-----------------------------------------------------------------------------
(* Faults and time. *)

\* The process is killed, or an error run_forever does not keep in the job
\* (a database outage, an unexpected exception) unwinds it.
Crash(w) ==
    /\ faults < MaxFaults
    /\ pc[w] # "idle"
    /\ Drop(w)
    /\ faults' = faults + 1
    /\ UNCHANGED <<storeVars, tryouts>>

ExpireLease(j) ==
    /\ jobs[j].status = "processing"
    /\ jobs[j].leased
    /\ jobs' = [jobs EXCEPT ![j].leased = FALSE]

HeldBySomeone(j) == \E w \in Workers : job[w] = j /\ ClaimIsCurrent(w)

\* A lease nobody works under runs out.
AbandonedLeaseExpires(j) ==
    /\ ~HeldBySomeone(j)
    /\ ExpireLease(j)
    /\ UNCHANGED <<docs, lastRequest, workerVars, tryouts, faults>>

\* A lease runs out while its worker is still at work.
SlowLeaseExpires(j) ==
    /\ faults < MaxFaults
    /\ HeldBySomeone(j)
    /\ ExpireLease(j)
    /\ faults' = faults + 1
    /\ UNCHANGED <<docs, lastRequest, workerVars, tryouts>>

AdminRetry(j) ==
    /\ faults < MaxFaults
    /\ RetryJob(j)
    /\ faults' = faults + 1
    /\ UNCHANGED <<docs, lastRequest, workerVars, tryouts>>

-----------------------------------------------------------------------------

RequestStep ==
    \/ \E d \in Docs, r \in Requests, type \in JobTypes :
         \/ ApiRequest(d, r, type)
         \/ PortalRequest(d, r, type)
    \/ \E d \in Docs, r \in Requests : TryoutCreate(d, r) \/ TryoutEnqueue(d, r)

ReconcileStep(w) ==
    \/ \E d \in Docs : ReconcileRead(w, d)
    \/ ReconcileSourceMissing(w)
    \/ \E r \in Requests : ReconcileRefresh(w, r)
    \/ ReconcileSkip(w)

FaultStep ==
    \/ \E w \in Workers : Crash(w)
    \/ \E j \in JobIds : SlowLeaseExpires(j) \/ AdminRetry(j)

Next ==
    \/ RequestStep
    \/ \E w \in Workers : Claim(w) \/ WorkOnJob(w) \/ ReconcileStep(w)
    \/ \E j \in JobIds : AbandonedLeaseExpires(j)
    \/ FaultStep

Spec == Init /\ [][Next]_vars

-----------------------------------------------------------------------------
(* Fairness.  A worker that runs takes its next step; its loop comes back  *)
(* to the claim after every pass, so a claim that is possible again and    *)
(* again is made; time passes; a tryout request runs to its end.           *)

WorkerFairness ==
    /\ \A w \in Workers :
         /\ WF_vars(WorkOnJob(w))
         /\ SF_vars(Claim(w))
         /\ WF_vars(pc[w] = "reconcile" /\ ReconcileStep(w))
    /\ \A j \in JobIds : WF_vars(AbandonedLeaseExpires(j))
    /\ \A d \in Docs, r \in Requests : WF_vars(TryoutEnqueue(d, r))

FairSpec == Spec /\ WorkerFairness

-----------------------------------------------------------------------------
(* Properties. *)

\* A document that waits is waiting for something: the job of its current
\* request is queued or claimed (or the tryout page is about to enqueue it).
\* Cancelling or failing a job after its claim was lost would strand it.
QueuedHasWork ==
    \A d \in Docs :
        docs[d].status \in {"Queued", "Removing"} =>
            HasPendingJob(d) \/ <<d, docs[d].request>> \in tryouts

\* The status a document shows is the outcome of its newest request: Ready and
\* NotEnabled only when that request was committed as what it asked for, Failed
\* and Queued only while it was not (record_success against a late error).
StatusTellsTheOutcome ==
    \A d \in Docs :
        /\ docs[d].status \in {"Ready", "NotEnabled"} =>
             /\ docs[d].processed = docs[d].request
             /\ docs[d].desired <=> docs[d].status = "Ready"
        /\ docs[d].status \in {"Queued", "Removing", "Failed"} =>
             docs[d].processed # docs[d].request

\* complete_job is never reached without the outcome: the document of a
\* completed job carries the outcome of that request or of a newer one.
CompletedMeansCommitted ==
    \A j \in JobIds :
        jobs[j].status = "completed" => docs[DocOf(j)].processed >= RequestOf(j)

\* A job is cancelled only when a newer request superseded it, which is what
\* StaleRequestError says: losing a lease to another worker cancels nothing.
CancelledOnlyIfSuperseded ==
    [][\A j \in JobIds :
         jobs[j].status # "cancelled" /\ jobs'[j].status = "cancelled" =>
             docs[DocOf(j)].request # RequestOf(j)]_vars

\* Every outcome is written by the worker that holds the claim of the job of
\* the document's request (record_success, record_removed), whatever
\* happened to the queue since it was claimed.
OutcomeByCurrentClaim ==
    [][\A d \in Docs :
         docs'[d].processed # docs[d].processed =>
             \E w \in Workers :
                 /\ job[w] \in JobIds
                 /\ TheDoc(w) = d
                 /\ ClaimIsCurrent(w)
                 /\ docs'[d].processed = TheRequest(w)
                 /\ docs[d].request = TheRequest(w)]_vars

\* A document that waits reaches an outcome or an error, through crashes,
\* lost leases and retries.
EveryRequestSettles ==
    \A d \in Docs :
        docs[d].status \in {"Queued", "Removing"}
            ~> docs[d].status \in {"Ready", "NotEnabled", "Failed"}

\* The queue implements RequestOutcome: at most one outcome for each request,
\* none for a superseded one, each of the kind that was asked for.
PhaseOf(d) ==
    CASE docs[d].status = "Absent" -> "new"
      [] docs[d].status \in {"Queued", "Removing"} -> "pending"
      [] docs[d].status \in {"Ready", "NotEnabled"} -> "settled"
      [] docs[d].status = "Failed" -> "failed"

Outcome == INSTANCE RequestOutcome WITH
    latest  <- [d \in Docs |-> docs[d].request],
    settled <- [d \in Docs |-> docs[d].processed],
    enhance <- [d \in Docs |-> docs[d].desired],
    phase   <- [d \in Docs |-> PhaseOf(d)],
    version <- [d \in Docs |-> docs[d].version]

RefinesRequestOutcome == Outcome!Spec
=============================================================================
