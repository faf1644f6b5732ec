-------------------------------- MODULE Jobs --------------------------------
(***************************************************************************)
(* JobQueue and UploadRecords side by side.  A behaviour is of one part:   *)
(* the queue with its SharePoint documents, or uploads with their records. *)
(***************************************************************************)
EXTENDS UploadInvariant

VARIABLE part

\* The other documents, and their jobs, stay as they are.
Only(some) ==
    /\ \A d \in Docs \ some : docs'[d] = docs[d]
    /\ \A j \in JobIds : DocOf(j) \notin some => jobs'[j] = jobs[j]
    /\ tryouts' \subseteq some \X Requests

QueuePart ==
    /\ part = "queue"
    /\ Next
    /\ Only(SharePointDocs)
    /\ UNCHANGED <<part, recordVars>>

UploadPart ==
    /\ part = "uploads"
    /\ UploadNext
    /\ Only(Uploads)
    /\ UNCHANGED part

JobsInit == UploadInit /\ part \in {"queue", "uploads"}

jobsVars == <<uploadVars, part>>

JobsNext == QueuePart \/ UploadPart

JobsSpec == JobsInit /\ [][JobsNext]_jobsVars

-----------------------------------------------------------------------------
\* What SafeInv leaves out: that a waiting document has work (_still_current and the
\* claim), unless its tryout page dies between its calls (UploadRecords: TryoutDies),
\* and the inductive invariant of an upload's records.
QueueInv ==
    /\ UploadTypeOK
    /\ part = "queue" => QueuedHasWork
    /\ part = "uploads" => RecordsInv
=============================================================================
