---------------------------- MODULE UploadRecords ----------------------------
(***************************************************************************)
(* What a run leaves beside the documents and jobs tables, followed on the *)
(* uploads of the tryout page: the timeline of events the status page      *)
(* polls, the comments and the notes made of them, the stored files and    *)
(* their rows, and the feedback corpus.  None of these writes is fenced by *)
(* the claim, and none is in the transaction it belongs to.                *)
(*                                                                         *)
(* step refines pc where JobQueue takes _process_upload in one step.       *)
(* A stored HTML is told apart by the request it was made for and the      *)
(* notes the analysis was given; a note is named by its comment's request. *)
(***************************************************************************)
EXTENDS JobQueue

VARIABLES
    step,       \* where a worker is within a step of JobQueue
    base,       \* the enhancement_version of the document it read
    used,       \* the correction notes its analysis was given
    sources,    \* uploads whose original is stored and recorded
    comments,   \* requests that carry a comment (jobs.feedback)
    notes,      \* the document's correction_notes
    drafts,     \* the notes as queue_refresh may have read them
    received,   \* jobs whose RECEIVED event is still to be written
    events,     \* the stages on a job's timeline
    last,       \* the newest of them
    files,      \* the stored HTML of each version
    rows,       \* the version of the newest "html" artifact row
    corpus      \* how many feedback records a comment has

recordVars == <<step, base, used, sources, comments, notes, drafts, received,
                events, last, files, rows, corpus>>
uploadVars == <<vars, recordVars>>

Stages    == {"RECEIVED", "CLAIMED", "DOWNLOADING", "READY", "FAILED", "CANCELLED"}
Terminal  == {"READY", "FAILED", "CANCELLED"}
Versions  == 0..MaxRequests + 1
Html      == [request : Requests, notes : SUBSET Requests]
Steps     == {"", "source", "analyse", "store", "row", "capture", "tell", "close"}

\* NULL is not a file.
ASSUME HtmlAssumption == None \notin Html

UploadTypeOK ==
    /\ TypeOK
    /\ step \in [Workers -> Steps]
    /\ base \in [Workers -> Versions]
    /\ used \in [Workers -> SUBSET Requests]
    /\ sources \subseteq Uploads
    /\ comments \subseteq Docs \X Requests
    /\ notes \in [Docs -> SUBSET Requests]
    /\ drafts \in [Docs -> SUBSET SUBSET Requests]
    /\ received \subseteq JobIds
    /\ events \in [JobIds -> SUBSET Stages]
    /\ last \in [JobIds -> Stages \cup {None}]
    /\ files \in [Docs -> [Versions -> Html \cup {None}]]
    /\ rows \in [Docs -> Versions]
    /\ corpus \in [Docs \X Requests -> 0..2]

UploadInit ==
    /\ Init
    /\ step = [w \in Workers |-> ""]
    /\ base = [w \in Workers |-> 0]
    /\ used = [w \in Workers |-> {}]
    /\ sources = {} /\ comments = {} /\ received = {}
    /\ notes = [d \in Docs |-> {}]
    /\ drafts = [d \in Docs |-> {{}}]
    /\ events = [j \in JobIds |-> {}]
    /\ last = [j \in JobIds |-> None]
    /\ files = [d \in Docs |-> [v \in Versions |-> None]]
    /\ rows = [d \in Docs |-> 0]
    /\ corpus = [x \in Docs \X Requests |-> 0]

Tell(j, stage) ==
    /\ events' = [events EXCEPT ![j] = @ \cup {stage}]
    /\ last' = [last EXCEPT ![j] = stage]

Step(w, label) == step' = [step EXCEPT ![w] = label]

Forget(w) ==
    /\ step' = [step EXCEPT ![w] = ""]
    /\ base' = [base EXCEPT ![w] = 0]
    /\ used' = [used EXCEPT ![w] = {}]

localVars    == <<step, base, used>>
timelineVars == <<events, last>>
commentVars  == <<comments, notes, drafts>>
storedVars   == <<sources, files, rows>>

-----------------------------------------------------------------------------
(* The tryout page and the status page. *)

CreateUpload(d, r) ==
    /\ TryoutCreate(d, r)
    /\ UNCHANGED recordVars

StoreSource(d) ==
    /\ \E r \in Requests : <<d, r>> \in tryouts
    /\ sources' = sources \cup {d}
    /\ UNCHANGED <<vars, localVars, commentVars, received, timelineVars, files, rows, corpus>>

\* Mutant: the note is left to a later call.
CommentUnnoted(d, r) ==
    /\ comments' = comments \cup {<<d, r>>}
    /\ UNCHANGED <<notes, drafts>>

\* _append_note reads the notes before the transaction that writes them, so the
\* list it extends may be any the column held since the page was asked.
Comment(d, r) ==
    /\ comments' = comments \cup {<<d, r>>}
    /\ \E old \in drafts[d] : notes' = [notes EXCEPT ![d] = old \cup {r}]
    /\ drafts' = [drafts EXCEPT ![d] = @ \cup {notes'[d]}]

\* queue_refresh: its RECEIVED event comes after its transaction.
Refresh(d, r) ==
    /\ d \in Uploads
    /\ QueueRequest(d, r, "upsert")
    /\ Comment(d, r) \/ UNCHANGED commentVars
    /\ received' = received \cup {<<d, r, "upsert">>}
    /\ UNCHANGED <<workerVars, faults, localVars, timelineVars, storedVars, corpus>>

StatusPageRefresh(d, r) ==
    /\ Refresh(d, r)
    /\ UNCHANGED tryouts

TellReceived(j) ==
    /\ j \in received
    /\ received' = received \ {j}
    /\ Tell(j, "RECEIVED")
    /\ UNCHANGED <<vars, localVars, commentVars, storedVars, corpus>>

\* The last call of the tryout page: enqueue_job, or queue_refresh with the note.
SubmitTryout(d, r) ==
    /\ <<d, r>> \in tryouts
    /\ d \in sources
    /\ \/ /\ jobs' = Enqueued(<<d, r, "upsert">>)
          /\ UNCHANGED <<docs, lastRequest, workerVars, faults, recordVars>>
       \/ \E next \in Requests : Refresh(d, next)
    /\ tryouts' = tryouts \ {<<d, r>>}

\* The page dies on its way: the document row waits for a job nobody enqueues.
TryoutDies(d, r) ==
    /\ faults < MaxFaults
    /\ <<d, r>> \in tryouts
    /\ tryouts' = tryouts \ {<<d, r>>}
    /\ faults' = faults + 1
    /\ UNCHANGED <<storeVars, workerVars, recordVars>>

-----------------------------------------------------------------------------
(* The worker: _process_job with _process_upload. *)

ClaimUpload(w) ==
    /\ Claim(w)
    /\ UNCHANGED recordVars

\* Mutants: a recovered job is closed without a word, or captured again.
RecoveredStepSilent(w)  == IF pc'[w] = "complete" THEN "close" ELSE "source"
RecoveredStepCapture(w) == IF pc'[w] = "complete" THEN "capture" ELSE "source"

FirstStep(w) == IF pc'[w] = "complete" THEN "tell" ELSE "source"

ReadUpload(w) ==
    /\ ReadDocument(w)
    /\ Tell(job[w], "CLAIMED")
    /\ Step(w, FirstStep(w))
    /\ base' = [base EXCEPT ![w] = docs[TheDoc(w)].version]
    /\ UNCHANGED <<used, commentVars, received, storedVars, corpus>>

LoadSource(w) ==
    /\ step[w] = "source"
    /\ TheDoc(w) \in sources
    /\ Tell(job[w], "DOWNLOADING")
    /\ Step(w, "analyse")
    /\ UNCHANGED <<vars, base, used, commentVars, received, storedVars, corpus>>

Analyse(w) ==
    /\ step[w] = "analyse"
    /\ used' = [used EXCEPT ![w] = notes[TheDoc(w)]]
    /\ Step(w, "store")
    /\ UNCHANGED <<vars, base, commentVars, received, timelineVars, storedVars, corpus>>

\* Mutant: the version the document has, and not the one it will have.
OldVersion(w) == base[w]

NextVersion(w) == base[w] + 1

\* put_bytes at a path made of the document and the version: it replaces.
StoreHtml(w) ==
    /\ step[w] = "store"
    /\ files' = [files EXCEPT ![TheDoc(w)][NextVersion(w)] =
                   [request |-> TheRequest(w), notes |-> used[w]]]
    /\ Step(w, "row")
    /\ UNCHANGED <<vars, base, used, commentVars, received, timelineVars, sources, rows, corpus>>

\* record_artifact appends; get_latest_artifact takes the newest row.
RecordArtifact(w) ==
    /\ step[w] = "row"
    /\ Process(w)
    /\ rows' = [rows EXCEPT ![TheDoc(w)] = NextVersion(w)]
    /\ Step(w, "")
    /\ UNCHANGED <<base, used, commentVars, received, timelineVars, sources, files, corpus>>

CommitUpload(w) ==
    /\ Commit(w)
    /\ Step(w, IF pc'[w] = "complete" THEN "capture" ELSE "tell")
    /\ UNCHANGED <<base, used, commentVars, received, timelineVars, storedVars, corpus>>

\* _maybe_capture_feedback.
Capture(w) ==
    /\ step[w] = "capture"
    /\ LET comment == <<TheDoc(w), TheRequest(w)>> IN
         corpus' = IF comment \in comments THEN [corpus EXCEPT ![comment] = @ + 1]
                                           ELSE corpus
    /\ Step(w, "tell")
    /\ UNCHANGED <<vars, base, used, commentVars, received, timelineVars, storedVars>>

\* KNOWN_PROCESSING_ERRORS: no source, decryption, the processor.
UploadError(w) ==
    /\ step[w] \in {"source", "analyse"}
    /\ KnownError(w)
    /\ Step(w, "")
    /\ UNCHANGED <<base, used, commentVars, received, timelineVars, storedVars, corpus>>

JudgeUploadError(w) ==
    /\ JudgeError(w)
    /\ Step(w, IF pc'[w] = "stale" THEN "tell" ELSE "")
    /\ UNCHANGED <<base, used, commentVars, received, timelineVars, storedVars, corpus>>

RecordUploadError(w) ==
    /\ RecordError(w)
    /\ IF pc'[w] = "fail_job" THEN Step(w, "tell") /\ UNCHANGED <<base, used>> ELSE Forget(w)
    /\ UNCHANGED <<commentVars, received, timelineVars, storedVars, corpus>>

StageAt(label) ==
    CASE label = "complete" -> "READY"
      [] label = "stale" -> "CANCELLED"
      [] label = "fail_job" -> "FAILED"

\* The last event comes before the job is closed, and knows nothing of the claim.
TellEnd(w) ==
    /\ step[w] = "tell"
    /\ Tell(job[w], StageAt(pc[w]))
    /\ Step(w, "close")
    /\ UNCHANGED <<vars, base, used, commentVars, received, storedVars, corpus>>

CloseUpload(w) ==
    /\ step[w] = "close"
    /\ Complete(w) \/ Cancel(w) \/ FailJob(w)
    /\ Forget(w)
    /\ UNCHANGED <<commentVars, received, timelineVars, storedVars, corpus>>

UploadStep(w) ==
    \/ ReadUpload(w)
    \/ LoadSource(w)
    \/ Analyse(w)
    \/ StoreHtml(w)
    \/ RecordArtifact(w)
    \/ CommitUpload(w)
    \/ Capture(w)
    \/ UploadError(w)
    \/ JudgeUploadError(w)
    \/ RecordUploadError(w)
    \/ TellEnd(w)
    \/ CloseUpload(w)

CrashUpload(w) ==
    /\ Crash(w)
    /\ Forget(w)
    /\ UNCHANGED <<commentVars, received, timelineVars, storedVars, corpus>>

QueueStep(j) ==
    /\ AbandonedLeaseExpires(j) \/ SlowLeaseExpires(j) \/ AdminRetry(j)
    /\ UNCHANGED recordVars

-----------------------------------------------------------------------------

UploadNext ==
    \/ \E d \in Docs, r \in Requests :
         \/ CreateUpload(d, r)
         \/ StatusPageRefresh(d, r)
         \/ SubmitTryout(d, r)
         \/ TryoutDies(d, r)
    \/ \E d \in Docs : StoreSource(d)
    \/ \E j \in JobIds : TellReceived(j) \/ QueueStep(j)
    \/ \E w \in Workers : ClaimUpload(w) \/ UploadStep(w) \/ CrashUpload(w)

UploadSpec == UploadInit /\ [][UploadNext]_uploadVars

-----------------------------------------------------------------------------
(* Properties. *)

\* Whoever finds a document Ready finds the HTML of its version and a row that
\* leads to some HTML, whenever the worker died: the files come before the outcome.
ReadyHasItsFiles ==
    \A d \in Uploads :
        docs[d].status = "Ready" =>
            /\ files[d][docs[d].version] # None
            /\ files[d][rows[d]] # None

\* A comment shapes the result it asked for: the HTML made for a request that
\* carried one, once it is the document's outcome, was analysed with its note,
\* although other comments may have replaced the column meanwhile.
ReadyUsedItsComment ==
    \A d \in Uploads :
        LET html == files[d][docs[d].version] IN
        /\ docs[d].status = "Ready"
        /\ <<d, docs[d].processed>> \in comments
        /\ html # None /\ html.request = docs[d].processed
        => docs[d].processed \in html.notes

\* A job that is closed said how it ended: the page does not wait for an event
\* that nobody will write, also when another worker closes a recovered job.
ClosedJobToldItsEnd ==
    \A j \in {k \in JobIds : DocOf(k) \in Uploads} :
        /\ jobs[j].status = "completed" => "READY" \in events[j]
        /\ jobs[j].status = "failed"    => "FAILED" \in events[j]
        /\ jobs[j].status = "cancelled" => "CANCELLED" \in events[j]

\* READY on a timeline is never a promise: the outcome of that request, or of
\* a newer one, is committed, whichever worker wrote it.
ReadyStageMeansCommitted ==
    \A j \in JobIds :
        "READY" \in events[j] => docs[DocOf(j)].processed >= RequestOf(j)

\* A comment enters the feedback corpus once at most, and only with a committed
\* result: the corpus is not told of runs that were superseded or repeated.
CommentCapturedOnce ==
    \A x \in Docs \X Requests :
        /\ corpus[x] <= 1
        /\ corpus[x] = 1 => docs[x[1]].processed >= x[2]

\* build_status_view: the preview is shown unless the latest job is in flight.
LatestJob(d) ==
    {j \in JobIds : /\ DocOf(j) = d /\ jobs[j].status # "absent"
                    /\ \A k \in JobIds : DocOf(k) = d => jobs[k].queuedAt <= jobs[j].queuedAt}

RunInFlight(d) == \E j \in LatestJob(d) : last[j] \notin Terminal

\* What the page says of the preview: once the current job has finished, the
\* HTML it surfaces is that run's, and not an earlier one's.
PreviewIsOfTheFinishedRun ==
    \A d \in Uploads :
        /\ docs[d].status = "Ready"
        /\ ~RunInFlight(d)
        /\ rows[d] # 0
        => files[d][rows[d]].request = docs[d].processed
=============================================================================
