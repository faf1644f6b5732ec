-------------------------- MODULE JobQueueInvariant --------------------------
(***************************************************************************)
(* Why the queue is safe: an inductive invariant of JobQueue that implies  *)
(* its safety properties.  The worker's part says what each place in       *)
(* _process_job may rely on although the tables move under it.             *)
(***************************************************************************)
EXTENDS JobQueue

Known(j) == jobs[j].status # "absent"

-----------------------------------------------------------------------------
(* The tables. *)

\* Outcomes lag behind requests, and both behind the ids handed out.
RequestsInOrder ==
    \A d \in Docs : /\ docs[d].processed <= docs[d].request
                    /\ docs[d].request <= lastRequest

\* A job belongs to its document's request or to an older one.
JobsBelong == \A j \in JobIds : Known(j) => RequestOf(j) <= docs[DocOf(j)].request

\* No request is both an upsert and a delete.
OneTypePerRequest ==
    \A j, k \in JobIds :
        /\ Known(j) /\ Known(k)
        /\ DocOf(j) = DocOf(k) /\ RequestOf(j) = RequestOf(k)
        => j = k

\* The intent column agrees with the open request's job.
DesiredTellsTheType ==
    \A j \in JobIds :
        /\ Known(j)
        /\ RequestOf(j) = docs[DocOf(j)].request
        /\ docs[DocOf(j)].processed # RequestOf(j)
        => (docs[DocOf(j)].desired <=> TypeOf(j) = "upsert")

\* What the tryout page relies on between its two transactions.
TryoutsWait ==
    \A p \in tryouts :
        /\ p[1] \in Uploads
        /\ p[2] <= docs[p[1]].request
        /\ \A j \in JobIds : DocOf(j) = p[1] /\ RequestOf(j) = p[2] => ~Known(j)
        /\ docs[p[1]].request = p[2] =>
             docs[p[1]].desired /\ docs[p[1]].processed # p[2]

TablesInv ==
    /\ RequestsInOrder
    /\ JobsBelong
    /\ OneTypePerRequest
    /\ DesiredTellsTheType
    /\ TryoutsWait
    /\ StatusTellsTheOutcome
    /\ CompletedMeansCommitted

-----------------------------------------------------------------------------
(* The workers. *)

Working(w) ==
    pc[w] \in {"control", "start", "mark", "process", "publish", "verify", "commit"}

\* Nobody else has settled the request of a worker whose claim is current.
NotSettledYet(w) ==
    Working(w) /\ ClaimIsCurrent(w) => docs[TheDoc(w)].processed # TheRequest(w)

\* A worker that gives its job up as superseded is right, if it still has it.
RightlyStale(w) ==
    pc[w] = "stale" /\ ClaimIsCurrent(w) => docs[TheDoc(w)].request # TheRequest(w)

\* After the commit the outcome stays, whatever happens to the claim.
CommittedBeforeComplete(w) ==
    pc[w] \in {"announce", "complete"} => docs[TheDoc(w)].processed >= TheRequest(w)

\* After the error was recorded only a newer request makes the document wait.
NotWaitingAfterError(w) ==
    pc[w] = "fail_job" /\ StillCurrent(w) =>
        docs[TheDoc(w)].status \notin {"Queued", "Removing"}

\* What was read before the control item is not older than the job.
ReadIsRecent(w) ==
    pc[w] = "control" =>
        /\ TheRequest(w) <= seen[w][2]
        /\ seen[w][2] <= docs[TheDoc(w)].request

\* What the reconciliation pass read was settled, and is unless it moved on.
ReconcilesSettled(w) ==
    pc[w] = "reconcile" =>
        /\ seen[w][1] \in SharePointDocs
        /\ Exists(seen[w][1])
        /\ seen[w][2] <= docs[seen[w][1]].request
        /\ docs[seen[w][1]].request = seen[w][2] =>
             docs[seen[w][1]].processed = seen[w][2]

WorkerInv(w) ==
    /\ HasJob(w) => Known(job[w])
    /\ NotSettledYet(w)
    /\ RightlyStale(w)
    /\ CommittedBeforeComplete(w)
    /\ NotWaitingAfterError(w)
    /\ ReadIsRecent(w)
    /\ ReconcilesSettled(w)

\* The part of the invariant that is about outcomes alone, inductive by itself.
OutcomeInv ==
    /\ TypeOK
    /\ RequestsInOrder
    /\ StatusTellsTheOutcome
    /\ CompletedMeansCommitted
    /\ \A w \in Workers : CommittedBeforeComplete(w) /\ ReconcilesSettled(w)

\* The inductive invariant: nothing a worker does behind its fence (_still_current,
\* _job_claim_exists) can contradict what the tables say, at any interleaving.
SafeInv == TypeOK /\ TablesInv /\ \A w \in Workers : WorkerInv(w)

\* It holds of a tryout page that dies between its calls as well; that a waiting
\* document has work only does where the page finishes what it began.
Inv == SafeInv /\ QueuedHasWork
=============================================================================
