--------------------------- MODULE Reconciliation ---------------------------
(***************************************************************************)
(* reconcile_once on one document of the Copilot connector: a pass compares*)
(* the row it listed with the source and with the external item, repairs   *)
(* permissions and properties in place and requests the document again for *)
(* anything else, while the source changes and a job may publish it.       *)
(*                                                                         *)
(* The operation lock is one for the document and the target.  Of a        *)
(* source the model knows its content (the fingerprint), its permissions   *)
(* and the properties that are copied.                                     *)
(***************************************************************************)
EXTENDS Naturals

CONSTANTS
    Overlap,       \* whether another worker than that of the pass runs the jobs
    TornPass,      \* whether a pass may end between an update and its record
    Gone,          \* a source that was deleted, an item that is not indexed
    MaxEdits,      \* bound: changes of the source
    MaxAsks,       \* bound: requests
    MaxPassBreaks  \* bound: errors that end a worker in the middle of a pass

VARIABLES
    source,     \* the drive item: its content, permissions and properties
    item,       \* the external item
    row,        \* the documents row: what was recorded of the last result
    standing,   \* its status
    request,    \* its request_id, counted
    published,  \* the publication row is ready
    job,        \* the job under way, and what it has read
    pass,       \* the pass under way, and what it has read
    edits,
    syncBreaks

syncVars == <<source, item, row, standing, request, published, job, pass, edits, syncBreaks>>

Permissions == {"narrow", "wide"}
Described   == [content : 0..MaxEdits, acl : Permissions, meta : 0..MaxEdits]
Recorded    == [content : 0..MaxEdits, acl : Permissions \cup {Gone}, meta : 0..MaxEdits]

JobSteps  == {"idle", "drive", "content", "acl", "publish", "commit"}
PassSteps == {"idle", "drive", "content", "enter", "acl", "updateAcl", "updateMeta",
              "recordAcl", "recordMeta", "forget"}
PassHolds == {"acl", "updateAcl", "updateMeta", "recordAcl"}

ASSUME SyncAssumption == MaxEdits \in Nat /\ Gone \notin Described

SyncTypeOK ==
    /\ source \in Described \cup {Gone}
    /\ item \in Described \cup {Gone}
    /\ row \in Recorded
    /\ standing \in {"Queued", "Ready", "Failed", "NotEnabled"}
    /\ request \in Nat
    /\ published \in BOOLEAN
    /\ job \in [at : JobSteps, request : Nat, read : Described]
    /\ pass \in [at : PassSteps, request : Nat, seen : Recorded, read : Described]
    /\ edits \in 0..MaxEdits

Nowhere == [content |-> 0, acl |-> "narrow", meta |-> 0]

SyncInit ==
    /\ source = Nowhere
    /\ item = Gone
    /\ row = [Nowhere EXCEPT !.acl = Gone]
    /\ standing = "Queued"
    /\ request = 1
    /\ published = FALSE
    /\ job = [at |-> "idle", request |-> 1, read |-> Nowhere]
    /\ pass = [at |-> "idle", request |-> 1, seen |-> Nowhere, read |-> Nowhere]
    /\ edits = 0 /\ syncBreaks = 0

-----------------------------------------------------------------------------
(* The source and its users. *)

EditSource ==
    /\ edits < MaxEdits
    /\ source # Gone
    /\ source' \in {[source EXCEPT !.content = edits + 1, !.meta = edits + 1],
                    [source EXCEPT !.meta = edits + 1],
                    [source EXCEPT !.acl = IF @ = "wide" THEN "narrow" ELSE "wide"],
                    Gone}
    /\ edits' = edits + 1
    /\ UNCHANGED <<item, row, standing, request, published, job, pass, syncBreaks>>

\* Somebody else removes the external item.
LoseItem ==
    /\ edits < MaxEdits
    /\ item # Gone
    /\ item' = Gone
    /\ edits' = edits + 1
    /\ UNCHANGED <<source, row, standing, request, published, job, pass, syncBreaks>>

AskAgain ==
    /\ request <= MaxAsks
    /\ standing # "NotEnabled"
    /\ request' = request + 1
    /\ standing' = "Queued"
    /\ UNCHANGED <<source, item, row, published, job, pass, edits, syncBreaks>>

-----------------------------------------------------------------------------
(* A job: _process_upsert with the connector as its target. *)

jobOther == <<source, request, pass, edits, syncBreaks>>

BeginUpsert ==
    /\ job.at = "idle"
    /\ standing = "Queued"
    /\ Overlap \/ pass.at = "idle"
    /\ job' = [job EXCEPT !.at = "drive", !.request = request]
    /\ UNCHANGED <<item, row, standing, published, jobOther>>

\* A newer request, or a source that is gone: Stale or, in the end, Failed.
GiveUp ==
    /\ job.at \in {"drive", "content", "acl", "publish", "commit"}
    /\ \/ job.request # request /\ UNCHANGED standing
       \/ /\ job.at \in {"drive", "content", "acl"}
          /\ job.request = request
          /\ source = Gone
          /\ standing' = "Failed"
    /\ job' = [job EXCEPT !.at = "idle"]
    /\ UNCHANGED <<item, row, published, jobOther>>

ReadSource(at, next, read) ==
    /\ job.at = at
    /\ source # Gone
    /\ job' = [job EXCEPT !.at = next, !.read = read]
    /\ UNCHANGED <<item, row, standing, published, jobOther>>

JobReadsDriveItem == ReadSource("drive", "content", [job.read EXCEPT !.meta = source.meta])
JobReadsContent   == ReadSource("content", "acl", [job.read EXCEPT !.content = source.content])
JobReadsAcl       == ReadSource("acl", "publish", [job.read EXCEPT !.acl = source.acl])

\* Under the lock, and not when a newer request is known.
PublishItem ==
    /\ job.at = "publish"
    /\ job.request = request
    /\ pass.at \notin PassHolds
    /\ item' = job.read
    /\ published' = TRUE
    /\ job' = [job EXCEPT !.at = "commit"]
    /\ UNCHANGED <<row, standing, jobOther>>

RecordSuccess ==
    /\ job.at = "commit"
    /\ job.request = request
    /\ row' = job.read
    /\ standing' = "Ready"
    /\ job' = [job EXCEPT !.at = "idle"]
    /\ UNCHANGED <<item, published, jobOther>>

-----------------------------------------------------------------------------
(* A pass of reconcile_once. *)

passOther == <<source, published, job, edits, syncBreaks>>

PassGoes(at) == pass' = [pass EXCEPT !.at = at]

\* list_enabled_documents.
ListDocument ==
    /\ pass.at = "idle"
    /\ standing = "Ready"
    /\ Overlap \/ job.at = "idle"
    /\ pass' = [pass EXCEPT !.at = "drive", !.request = request, !.seen = row]
    /\ UNCHANGED <<item, row, standing, request, passOther>>

PassReadsDriveItem ==
    /\ pass.at = "drive"
    /\ pass' = IF source = Gone THEN [pass EXCEPT !.at = "forget"]
                                ELSE [pass EXCEPT !.at = "content", !.read.meta = source.meta]
    /\ UNCHANGED <<item, row, standing, request, passOther>>

\* claim_publication_removal, delete, remove_publication_record under the lock,
\* and record_removed for the listed request.
ForgetSource ==
    /\ pass.at = "forget"
    /\ item' = Gone
    /\ published' = FALSE
    /\ row' = [row EXCEPT !.acl = Gone]
    /\ standing' = IF pass.request = request THEN "NotEnabled" ELSE standing
    /\ PassGoes("idle")
    /\ UNCHANGED <<source, request, job, edits, syncBreaks>>

\* queue_refresh_if_current.
QueueRefreshIfCurrent ==
    IF standing = "Ready" /\ pass.request = request
    THEN standing' = "Queued" /\ request' = request + 1
    ELSE UNCHANGED <<standing, request>>

PassReadsContent ==
    /\ pass.at = "content"
    /\ source # Gone
    /\ IF source.content # pass.seen.content
       THEN QueueRefreshIfCurrent /\ PassGoes("idle")
       ELSE PassGoes("enter") /\ UNCHANGED <<standing, request>>
    /\ UNCHANGED <<item, row, passOther>>

EnterOperation ==
    /\ pass.at = "enter"
    /\ IF published
       THEN PassGoes("acl") /\ UNCHANGED <<standing, request>>
       ELSE QueueRefreshIfCurrent /\ PassGoes("recordMeta")
    /\ UNCHANGED <<item, row, passOther>>

PassReadsAcl ==
    /\ pass.at = "acl"
    /\ source # Gone
    /\ pass' = [pass EXCEPT !.at = "updateAcl", !.read.acl = source.acl]
    /\ UNCHANGED <<item, row, standing, request, passOther>>

\* Mutant: the permissions are sent alone, and Graph empties the rest.
WithAclAlone(acl) == [Nowhere EXCEPT !.acl = acl]

\* update_acl sends what the item holds along with the new permissions.
WithAcl(acl) == [item EXCEPT !.acl = acl]

\* publisher.reconcile: a missing item is requested again; permissions that
\* differ from the listed row's are replaced, with all the item holds else.
UpdateAcl ==
    /\ pass.at = "updateAcl"
    /\ IF item = Gone
       THEN /\ QueueRefreshIfCurrent
            /\ PassGoes("recordMeta")
            /\ UNCHANGED item
       ELSE /\ item' = IF pass.read.acl # pass.seen.acl
                       THEN WithAcl(pass.read.acl) ELSE item
            /\ PassGoes("updateMeta")
            /\ UNCHANGED <<standing, request>>
    /\ UNCHANGED <<row, passOther>>

UpdateProperties ==
    /\ pass.at = "updateMeta"
    /\ item # Gone
    /\ item' = IF pass.read.meta # pass.seen.meta
               THEN [item EXCEPT !.meta = pass.read.meta] ELSE item
    /\ PassGoes("recordAcl")
    /\ UNCHANGED <<row, standing, request, passOther>>

\* record_acl_update: no fence.
RecordAclUpdate ==
    /\ pass.at = "recordAcl"
    /\ row' = IF pass.read.acl # pass.seen.acl THEN [row EXCEPT !.acl = pass.read.acl] ELSE row
    /\ PassGoes("recordMeta")
    /\ UNCHANGED <<item, standing, request, passOther>>

\* record_source_metadata: no fence either.
RecordSourceMetadata ==
    /\ pass.at = "recordMeta"
    /\ row' = IF pass.read.meta # pass.seen.meta THEN [row EXCEPT !.meta = pass.read.meta]
                                                 ELSE row
    /\ PassGoes("idle")
    /\ UNCHANGED <<item, standing, request, passOther>>

\* An error of Graph, or a source or an item that went away under it, ends the worker
\* and releases its lock; the platform starts it again.
PassBreaks ==
    /\ pass.at # "idle"
    /\ \/ /\ syncBreaks < MaxPassBreaks
          /\ TornPass \/ pass.at \notin {"updateMeta", "recordAcl", "recordMeta"}
          /\ syncBreaks' = syncBreaks + 1
       \/ /\ \/ pass.at \in {"content", "acl"} /\ source = Gone
             \/ pass.at = "updateMeta" /\ item = Gone
          /\ UNCHANGED syncBreaks
    /\ PassGoes("idle")
    /\ UNCHANGED <<source, item, row, standing, request, published, job, edits>>

JobStep ==
    \/ BeginUpsert
    \/ GiveUp
    \/ JobReadsDriveItem \/ JobReadsContent \/ JobReadsAcl
    \/ PublishItem
    \/ RecordSuccess

PassStep ==
    \/ ListDocument
    \/ PassReadsDriveItem
    \/ ForgetSource
    \/ PassReadsContent
    \/ EnterOperation
    \/ PassReadsAcl
    \/ UpdateAcl
    \/ UpdateProperties
    \/ RecordAclUpdate
    \/ RecordSourceMetadata

SyncNext == EditSource \/ LoseItem \/ AskAgain \/ JobStep \/ PassStep \/ PassBreaks

\* Workers run, and passes come round again (reconciliation_interval_seconds).
SyncFairness == WF_syncVars(JobStep) /\ WF_syncVars(PassStep) /\ WF_syncVars(PassBreaks)

SyncSpec == SyncInit /\ [][SyncNext]_syncVars /\ SyncFairness

-----------------------------------------------------------------------------
(* Properties. *)

Follows ==
    CASE source = Gone        -> item = Gone \/ standing = "Failed"
      [] item = Gone          -> FALSE
      [] OTHER                -> item = source

\* Once the source is left alone, the external item becomes and stays what the
\* source is: its text, those who may read it, and its properties; it goes when
\* the source goes, except under a request that failed on the missing source.
ItemFollowsSource == <>[]Follows

\* The same of the permissions alone: a change of them reaches the item.
AclFollowsSource == <>[](source # Gone /\ item # Gone => item.acl = source.acl)
=============================================================================
