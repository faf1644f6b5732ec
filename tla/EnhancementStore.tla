-------------------------- MODULE EnhancementStore --------------------------
(***************************************************************************)
(* The documents and jobs tables of the search enhancement database and    *)
(* the transactions of SearchEnhancementRepository that change them.  Each *)
(* operator below is one database transaction: it is applied atomically by *)
(* whichever actor (web request, worker, reconciliation pass) calls it.    *)
(*                                                                         *)
(* A request id (uuid4) is a number: ids are handed out in order, so that  *)
(* "newer" can be said.  Columns that no decision of the code reads (names,*)
(* sizes, hashes, timings) are left out, and so is the clock: a lease is a *)
(* flag that a time step clears.                                           *)
(***************************************************************************)
EXTENDS Naturals, FiniteSets

CONSTANTS
    Docs,          \* the documents (DocumentKey)
    Workers,       \* the worker processes
    None,          \* the NULL of a column or of a local variable
    MaxRequests,   \* bound: how many request ids are handed out
    MaxAttempts    \* bound: where the attempts counter saturates

ASSUME StoreAssumption ==
    /\ IsFiniteSet(Docs)
    /\ MaxRequests \in Nat \ {0}
    /\ MaxAttempts \in Nat \ {0}
    /\ None \notin Workers

VARIABLES
    docs,          \* the documents table
    jobs,          \* the jobs table
    lastRequest    \* the newest request id handed out so far

storeVars == <<docs, jobs, lastRequest>>

NoRequest  == 0
Requests   == 1..MaxRequests
RequestIds == 0..MaxRequests
JobTypes   == {"upsert", "delete"}

\* The unique index of the jobs table: document, request and type name a job.
JobIds      == Docs \X Requests \X JobTypes
DocOf(j)     == j[1]
RequestOf(j) == j[2]
TypeOf(j)    == j[3]

DocStatuses == {"Absent", "Queued", "Removing", "Ready", "Failed", "NotEnabled"}
JobStatuses == {"absent", "queued", "processing", "completed", "failed", "cancelled"}

Document ==
    [desired   : BOOLEAN,
     status    : DocStatuses,
     request   : RequestIds,
     processed : RequestIds,
     version   : Nat]

Job ==
    [status   : JobStatuses,
     attempts : 0..MaxAttempts,
     owner    : Workers \cup {None},
     leased   : BOOLEAN,
     queuedAt : Nat]

StoreTypeOK ==
    /\ docs \in [Docs -> Document]
    /\ jobs \in [JobIds -> Job]
    /\ lastRequest \in RequestIds

StoreInit ==
    /\ docs = [d \in Docs |->
                 [desired |-> FALSE, status |-> "Absent", request |-> NoRequest,
                  processed |-> NoRequest, version |-> 0]]
    /\ jobs = [j \in JobIds |->
                 [status |-> "absent", attempts |-> 0, owner |-> None,
                  leased |-> FALSE, queuedAt |-> 0]]
    /\ lastRequest = NoRequest

Exists(d) == docs[d].status # "Absent"

-----------------------------------------------------------------------------
(* The jobs table. *)

\* Mutant: the conflict is on the document, so that a pending job swallows the
\* job of the next request.
EnqueuedOncePerDocument(j) ==
    IF \E k \in JobIds : DocOf(k) = DocOf(j) /\ jobs[k].status = "queued" THEN jobs
    ELSE [jobs EXCEPT ![j] =
            [status |-> "queued", attempts |-> 0, owner |-> None, leased |-> FALSE,
             queuedAt |-> 1]]

\* INSERT ... ON CONFLICT DO NOTHING: a job that exists keeps its row, whatever
\* its status.
Enqueued(j) ==
    IF jobs[j].status # "absent" THEN jobs
    ELSE [jobs EXCEPT ![j] =
            [status |-> "queued", attempts |-> 0, owner |-> None, leased |-> FALSE,
             queuedAt |-> 1 + Cardinality({k \in JobIds : jobs[k].status # "absent"})]]

HasPendingJob(d) ==
    \E t \in JobTypes :
        /\ docs[d].request \in Requests
        /\ jobs[<<d, docs[d].request, t>>].status \in {"queued", "processing"}

\* Mutant: jobs of workers that died are never claimed again.
ClaimableQueuedOnly == {j \in JobIds : jobs[j].status = "queued"}

Claimable ==
    {j \in JobIds : \/ jobs[j].status = "queued"
                    \/ jobs[j].status = "processing" /\ ~jobs[j].leased}

\* The claimable jobs that were queued first (queued_at is never rewritten).
Oldest(S) == {j \in S : \A k \in S : jobs[j].queuedAt <= jobs[k].queuedAt}

NextAttempt(j) ==
    IF jobs[j].attempts < MaxAttempts THEN jobs[j].attempts + 1 ELSE MaxAttempts

ClaimJob(w, j) ==
    /\ j \in Oldest(Claimable)
    /\ jobs' = [jobs EXCEPT ![j].status = "processing",
                            ![j].attempts = NextAttempt(j),
                            ![j].owner = w,
                            ![j].leased = TRUE]

\* The fence of every write a worker makes for a job.
JobClaimIsCurrent(w, j, attempt) ==
    /\ jobs[j].status = "processing"
    /\ jobs[j].attempts = attempt
    /\ jobs[j].owner = w

\* complete_job, fail_job and cancel_job: the row moves to a terminal status if
\* the claim is still current, and stays as it is otherwise.
CloseJob(w, j, attempt, status) ==
    jobs' = IF JobClaimIsCurrent(w, j, attempt)
            THEN [jobs EXCEPT ![j].status = status, ![j].owner = None,
                              ![j].leased = FALSE]
            ELSE jobs

\* The administrator's retry is not conditional on the job's status.
RetryJob(j) ==
    /\ jobs[j].status # "absent"
    /\ jobs' = [jobs EXCEPT ![j].status = "queued", ![j].owner = None,
                            ![j].leased = FALSE]

-----------------------------------------------------------------------------
(* The documents table: requests. *)

\* upsert_document_and_enqueue: the row takes the caller's request and status
\* even when the job of that request exists already.
UpsertDocumentAndEnqueue(d, r, type, status) ==
    /\ docs' = [docs EXCEPT ![d].desired = (type = "upsert"),
                            ![d].status = status,
                            ![d].request = r]
    /\ jobs' = Enqueued(<<d, r, type>>)

FreshRequest(r) ==
    /\ r \in Requests
    /\ r = lastRequest + 1
    /\ lastRequest' = r

\* queue_refresh and queue_removal: rerun, comment and remove in the portals.
QueueRequest(d, r, type) ==
    /\ Exists(d)
    /\ FreshRequest(r)
    /\ UpsertDocumentAndEnqueue(d, r, type, "Queued")

\* queue_refresh_if_current: only while the inspected outcome is still current.
StillReady(d, expected) ==
    /\ docs[d].request = expected
    /\ docs[d].processed = expected
    /\ docs[d].desired
    /\ docs[d].status = "Ready"

QueueRefreshIfCurrent(d, expected, r) ==
    /\ StillReady(d, expected)
    /\ FreshRequest(r)
    /\ UpsertDocumentAndEnqueue(d, r, "upsert", "Queued")

-----------------------------------------------------------------------------
(* The documents table: outcomes. *)

RequestIsCurrent(d, r) == docs[d].request = r

RecordSuccess(d, r) ==
    docs' = [docs EXCEPT ![d].desired = TRUE,
                         ![d].status = "Ready",
                         ![d].processed = r,
                         ![d].version = @ + 1]

RecordRemoved(d, r) ==
    docs' = [docs EXCEPT ![d].desired = FALSE,
                         ![d].status = "NotEnabled",
                         ![d].processed = r]

\* Mutant: an error is recorded over an outcome.
MayRecordLateError(d, r) == RequestIsCurrent(d, r)

MayRecordError(d, r) == RequestIsCurrent(d, r) /\ docs[d].processed # r

RecordDocumentError(d) == docs' = [docs EXCEPT ![d].status = "Failed"]
=============================================================================
