-------------------------- MODULE SharePointControl --------------------------
(***************************************************************************)
(* The queue together with the SharePoint list columns: the SPFx command   *)
(* posts to the ingest API and then writes the columns from the browser,   *)
(* lists that carry a command are polled by the workers, and workers show  *)
(* progress in the columns.  Every action of JobQueue is taken here with   *)
(* what it does to the columns; nothing locks a list item, and no write to *)
(* one is conditional.                                                     *)
(*                                                                         *)
(* CrewmealSearchCommand is read by list_commands and cleared by set_ready *)
(* and set_not_enabled; who sets it is outside the code (ListCommand).     *)
(***************************************************************************)
EXTENDS JobQueue

CONSTANT MaxListCommands     \* bound: commands written into the list

VARIABLES
    control,     \* the columns of each document's list item
    merges,      \* column writes a browser has still to send
    batch,       \* what list_commands returned to a worker and it has to ingest
    listed       \* how many commands were written into the list

controlVars == <<control, merges, batch, listed>>
allVars     == <<vars, controlVars>>

ColumnStatuses ==
    {"", "Queued", "Removing", "Processing", "Ready", "Failed", "NotEnabled"}
Commands == {"", "Enhance", "Remove"}

\* CrewmealSearchRequestId is empty until somebody writes it.
ControlItem == [command : Commands, status : ColumnStatuses, request : RequestIds]
Listed      == [doc : Docs, command : Commands, status : ColumnStatuses,
                request : RequestIds]

ControlTypeOK ==
    /\ TypeOK
    /\ control \in [Docs -> ControlItem]
    /\ merges \subseteq Docs \X Requests \X {"Queued", "Removing"}
    /\ batch \in [Workers -> SUBSET Listed]
    /\ listed \in Nat

ControlInit ==
    /\ Init
    /\ control = [d \in Docs |-> [command |-> "", status |-> "", request |-> NoRequest]]
    /\ merges = {}
    /\ batch = [w \in Workers |-> {}]
    /\ listed = 0

SetStatus(d, status) ==
    /\ control' = [control EXCEPT ![d].status = status]
    /\ UNCHANGED <<merges, batch, listed>>

-----------------------------------------------------------------------------
(* The browser and the list. *)

\* _submitCommand: the API first, the columns when it has answered.
SpfxRequest(d, r, type) ==
    /\ ApiRequest(d, r, type)
    /\ merges' = merges \cup {<<d, r, IF type = "upsert" THEN "Queued" ELSE "Removing">>}
    /\ UNCHANGED <<control, batch, listed>>

BrowserMerge(m) ==
    /\ m \in merges
    /\ control' = [control EXCEPT ![m[1]].request = m[2], ![m[1]].status = m[3]]
    /\ merges' = merges \ {m}
    /\ UNCHANGED <<vars, batch, listed>>

\* The page is closed or the write is refused.
BrowserGivesUp(m) ==
    /\ m \in merges
    /\ merges' = merges \ {m}
    /\ UNCHANGED <<vars, control, batch, listed>>

ListCommand(d, r, type) ==
    /\ d \in SharePointDocs
    /\ listed < MaxListCommands
    /\ FreshRequest(r)
    /\ control' = [control EXCEPT ![d] =
                     IF type = "upsert"
                     THEN [command |-> "Enhance", status |-> "Queued", request |-> r]
                     ELSE [command |-> "Remove", status |-> "Removing", request |-> r]]
    /\ listed' = listed + 1
    /\ UNCHANGED <<docs, jobs, workerVars, tryouts, faults, merges, batch>>

-----------------------------------------------------------------------------
(* Polling: list_commands, then one upsert_document_and_enqueue per item. *)

ListedCommands ==
    {[doc |-> d, command |-> control[d].command, status |-> control[d].status,
      request |-> control[d].request] :
        d \in {e \in SharePointDocs : /\ control[e].status \in {"Queued", "Removing"}
                                      /\ control[e].command # ""}}

ReadCommands(w) ==
    /\ pc[w] = "idle"
    /\ batch[w] = {}
    /\ ListedCommands # {}
    /\ batch' = [batch EXCEPT ![w] = ListedCommands]
    /\ UNCHANGED <<vars, control, merges, listed>>

\* Mutant: the command is stored as the status.
IngestCommandAsStatus(w, item) ==
    /\ item \in batch[w]
    /\ UpsertDocumentAndEnqueue(item.doc, item.request,
                                IF item.command = "Enhance" THEN "upsert" ELSE "delete",
                                item.command)
    /\ batch' = [batch EXCEPT ![w] = @ \ {item}]
    /\ UNCHANGED <<lastRequest, workerVars, tryouts, faults, control, merges, listed>>

IngestCommand(w, item) ==
    /\ item \in batch[w]
    /\ UpsertDocumentAndEnqueue(item.doc, item.request,
                                IF item.command = "Enhance" THEN "upsert" ELSE "delete",
                                item.status)
    /\ batch' = [batch EXCEPT ![w] = @ \ {item}]
    /\ UNCHANGED <<lastRequest, workerVars, tryouts, faults, control, merges, listed>>

-----------------------------------------------------------------------------
(* Workers. *)

\* _parse_list_item raises a ValueError, which is not a known processing error:
\* the worker process ends and the job stays claimed.
InvalidControlItem(w) ==
    /\ pc[w] = "control"
    /\ control[TheDoc(w)].request = NoRequest
    /\ Drop(w)
    /\ UNCHANGED <<storeVars, tryouts, faults, controlVars>>

ReadControlItem(w) ==
    /\ ReadControl(w)
    /\ control[TheDoc(w)].request # NoRequest
    /\ UNCHANGED controlVars

MarkControl(w) ==
    /\ Mark(w)
    /\ SetStatus(TheDoc(w), IF IsDelete(w) THEN "Removing" ELSE "Processing")

\* set_ready and set_not_enabled clear the command, whichever it is by now.
AnnounceControl(w) ==
    /\ Announce(w)
    /\ control' = [control EXCEPT
                     ![TheDoc(w)].command = "",
                     ![TheDoc(w)].status = IF IsDelete(w) THEN "NotEnabled" ELSE "Ready"]
    /\ UNCHANGED <<merges, batch, listed>>

\* The columns are read, compared, and written in a second call.
ReportControl(w) ==
    /\ Report(w)
    /\ pc'[w] = "set_failed" => control[TheDoc(w)].request = TheRequest(w)
    /\ UNCHANGED controlVars

SetFailedControl(w) ==
    /\ SetFailed(w)
    /\ SetStatus(TheDoc(w), "Failed")

OtherWork(w) ==
    /\ \/ ReadDocument(w)
       \/ Start(w)
       \/ Process(w)
       \/ Publish(w)
       \/ Verify(w)
       \/ Commit(w)
       \/ Complete(w)
       \/ Cancel(w)
       \/ KnownError(w)
       \/ JudgeError(w)
       \/ RecordError(w)
       \/ FailJob(w)
    /\ UNCHANGED controlVars

WorkWithControl(w) ==
    \/ InvalidControlItem(w)
    \/ ReadControlItem(w)
    \/ MarkControl(w)
    \/ AnnounceControl(w)
    \/ ReportControl(w)
    \/ SetFailedControl(w)
    \/ OtherWork(w)

\* Commands are ingested before jobs are claimed, documents reconciled after.
ClaimAfterIngest(w) ==
    /\ batch[w] = {}
    /\ Claim(w)
    /\ UNCHANGED controlVars

ReconcileAfterIngest(w) ==
    /\ batch[w] = {}
    /\ ReconcileStep(w)
    /\ UNCHANGED controlVars

CrashWithControl(w) ==
    /\ \/ Crash(w)
       \/ /\ batch[w] # {}
          /\ faults < MaxFaults
          /\ faults' = faults + 1
          /\ UNCHANGED <<storeVars, workerVars, tryouts>>
    /\ batch' = [batch EXCEPT ![w] = {}]
    /\ UNCHANGED <<control, merges, listed>>

ControlNext ==
    \/ \E d \in Docs, r \in Requests, type \in JobTypes :
         \/ SpfxRequest(d, r, type)
         \/ PortalRequest(d, r, type) /\ UNCHANGED controlVars
         \/ ListCommand(d, r, type)
    \/ \E m \in merges : BrowserMerge(m) \/ BrowserGivesUp(m)
    \/ \E w \in Workers :
         \/ ReadCommands(w)
         \/ \E item \in batch[w] : IngestCommand(w, item)
         \/ ClaimAfterIngest(w)
         \/ ReconcileAfterIngest(w)
         \/ WorkWithControl(w)
         \/ CrashWithControl(w)
    \/ \E j \in JobIds :
         /\ AbandonedLeaseExpires(j) \/ SlowLeaseExpires(j) \/ AdminRetry(j)
         /\ UNCHANGED controlVars

ControlSpec == ControlInit /\ [][ControlNext]_allVars

\* As in JobQueue; a worker that polls goes on to ingest what it read.
ControlFairness ==
    /\ \A w \in Workers :
         /\ WF_allVars(WorkWithControl(w))
         /\ WF_allVars(\E item \in batch[w] : IngestCommand(w, item))
         /\ WF_allVars(pc[w] = "reconcile" /\ ReconcileAfterIngest(w))
         /\ SF_allVars(ClaimAfterIngest(w))
    /\ \A j \in JobIds : WF_allVars(AbandonedLeaseExpires(j) /\ UNCHANGED controlVars)

\* Whether a browser gets to its second write is its own affair.
FairControlSpec == ControlSpec /\ ControlFairness

-----------------------------------------------------------------------------
(* Properties. *)

\* The database is the source of truth: a document never goes back to an older
\* request than the one it has (upsert_document_and_enqueue from a poll).
NewerRequestWins ==
    [][\A d \in Docs : docs'[d].request >= docs[d].request]_allVars

\* Whatever the columns say and whenever they are read, an enhancement is only
\* committed for the document's request at that moment, by a worker whose claim
\* of that request's job is current (record_success after a poll that went back).
EnhancedByCurrentClaim ==
    [][\A d \in Docs :
         docs'[d].version # docs[d].version =>
             \E w \in Workers :
                 /\ job[w] = <<d, docs[d].request, "upsert">>
                 /\ ClaimIsCurrent(w)]_allVars

\* Inductive: columns with a command carry a request, since
\* whoever writes the one writes the other, and so does what a poll read from them.
ControlInv ==
    /\ ControlTypeOK
    /\ \A d \in Docs : control[d].command # "" => control[d].request \in Requests
    /\ \A w \in Workers : \A item \in batch[w] :
         item.request \in Requests /\ item.status \in {"Queued", "Removing"}

\* "Processing" in the columns is followed by an outcome or an error.
ProcessingColumnIsFollowedUp ==
    \A d \in Docs :
        control[d].status = "Processing" ~> control[d].status # "Processing"
=============================================================================
