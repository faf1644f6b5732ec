--------------------------- MODULE UploadInvariant ---------------------------
(***************************************************************************)
(* Why the records of an upload are right although nothing fences them: an *)
(* inductive invariant of UploadRecords.  It stands on the invariant of    *)
(* the queue, which every step keeps, a tryout page that dies included,    *)
(* and says what a worker's locals and its step still mean when the        *)
(* tables have moved on under it.                                          *)
(***************************************************************************)
EXTENDS JobQueueInvariant, UploadRecords

-----------------------------------------------------------------------------
(* Places. *)

\* Where a worker is in JobQueue while it is at a step within.
StepsAt(label) ==
    CASE label = "process"  -> {"source", "analyse", "store", "row"}
      [] label = "complete" -> {"capture", "tell", "close"}
      [] label \in {"stale", "fail_job"} -> {"tell", "close"}
      [] OTHER -> {""}

\* Only the labels an upload reaches, and no job but the refresh of an upload.
PlaceInv(w) ==
    /\ pc[w] \in {"idle", "claimed", "process", "commit", "complete", "stale", "error",
                  "record_error", "fail_job"}
    /\ step[w] \in StepsAt(pc[w])
    /\ base[w] <= MaxRequests

UploadJobsInv ==
    \A j \in JobIds : Known(j) => DocOf(j) \in Uploads /\ TypeOf(j) = "upsert"

-----------------------------------------------------------------------------
(* The timeline. *)

\* An end that was told is on the timeline when the job is closed.
ToldInv(w) == step[w] = "close" => StageAt(pc[w]) \in events[job[w]]

-----------------------------------------------------------------------------
(* Files, rows and versions. *)

\* Each commit is of a newer request, so versions do not outrun requests.
VersionsInv == \A d \in Docs : docs[d].version <= docs[d].processed

\* A row leads to a stored HTML, and so does the version of a result.
FilesInv ==
    \A d \in Docs :
        /\ rows[d] # 0 => files[d][rows[d]] # None
        /\ docs[d].status = "Ready" => rows[d] # 0 /\ files[d][docs[d].version] # None

\* What a worker read is the version still, as long as its outcome may be recorded;
\* what it stored stays stored, whether or not it may.
BaseInv(w) ==
    /\ pc[w] \in {"process", "commit"} /\ MayCommit(w) => base[w] = docs[TheDoc(w)].version
    /\ step[w] = "row" \/ pc[w] = "commit" => files[TheDoc(w)][NextVersion(w)] # None
    /\ pc[w] = "commit" => rows[TheDoc(w)] # 0

-----------------------------------------------------------------------------
(* Comments. *)

\* Nothing was commented on, stored or captured for a request not handed out.
IssuedInv ==
    /\ \A x \in comments : x[2] <= lastRequest
    /\ \A d \in Docs, v \in Versions :
         files[d][v] # None => files[d][v].request <= lastRequest

\* The note of the newest request's comment is in the column, in what an analysis of
\* that request was given and in the HTML made of it.  An older one may be gone.
Noted(d, r, N) == r = docs[d].request /\ <<d, r>> \in comments => r \in N

NotesInv ==
    \A d \in Docs :
        /\ Noted(d, docs[d].request, notes[d])
        /\ \A v \in Versions :
             files[d][v] # None => Noted(d, files[d][v].request, files[d][v].notes)

UsedInv(w) == step[w] \in {"store", "row"} => Noted(TheDoc(w), TheRequest(w), used[w])

\* One worker at most is about to capture a comment, and none has.
CaptureInv(w) ==
    step[w] = "capture" =>
        /\ corpus[<<TheDoc(w), TheRequest(w)>>] = 0
        /\ \A v \in Workers \ {w} : step[v] = "capture" =>
             <<TheDoc(v), TheRequest(v)>> # <<TheDoc(w), TheRequest(w)>>

-----------------------------------------------------------------------------

UploadWorkerInv(w) ==
    /\ PlaceInv(w)
    /\ ToldInv(w)
    /\ BaseInv(w)
    /\ UsedInv(w)
    /\ CaptureInv(w)

\* The inductive invariant, with the five properties among its conjuncts or implied.
RecordsInv ==
    /\ SafeInv
    /\ UploadTypeOK
    /\ UploadJobsInv
    /\ VersionsInv
    /\ FilesInv
    /\ IssuedInv
    /\ NotesInv
    /\ ClosedJobToldItsEnd
    /\ ReadyStageMeansCommitted
    /\ CommentCapturedOnce
    /\ \A w \in Workers : UploadWorkerInv(w)
=============================================================================
