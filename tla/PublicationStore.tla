--------------------------- MODULE PublicationStore ---------------------------
(***************************************************************************)
(* The document_publications table: one row for a document and a           *)
(* publication target, with the repository transactions that change it.    *)
(* Rows are written by jobs (pending, ready, failed), by requests (a       *)
(* removal is announced, an enhancement takes it back) and by clean-ups    *)
(* (removing, then deleted).                                               *)
(*                                                                         *)
(* "content" stands for content_hash: the request whose text was stored.   *)
(* updated_at is only ever compared for equality, with the value of a row  *)
(* read before; "fresh" holds the reads that would still compare equal.    *)
(***************************************************************************)
EXTENDS EnhancementStore, TransitionStore

VARIABLES
    rows,          \* the document_publications table
    fresh          \* <<w, p>>: what w read of row p has its updated_at still

publicationVars == <<rows, fresh>>

PublishedTargets == Targets \ {"unset"}
Pairs            == Docs \X PublishedTargets
RowDoc(p)        == p[1]
RowTarget(p)     == p[2]

RowStatuses == {"none", "pending", "ready", "failed", "removing"}

NoOperation  == [kind |-> "none", request |-> NoRequest, attempt |-> 0, worker |-> None]
OperationIds ==
    [kind : {"none", "publish", "remove", "cleanup"}, request : RequestIds,
     attempt : 0..MaxAttempts, worker : Workers \cup {None}]

Publication ==
    [status : RowStatuses, generation : 0..MaxGeneration, operation : OperationIds,
     content : RequestIds]

NoRow == [status |-> "none", generation |-> 0, operation |-> NoOperation,
          content |-> NoRequest]

PublicationTypeOK ==
    /\ StoreTypeOK
    /\ TransitionTypeOK
    /\ rows \in [Pairs -> Publication]
    /\ fresh \subseteq Workers \X Pairs

HasRow(p)       == rows[p].status # "none"
RowsOf(d)       == {p \in Pairs : RowDoc(p) = d /\ HasRow(p)}
RowsAt(target)  == {p \in Pairs : RowTarget(p) = target /\ HasRow(p)}

Unread(P) == {f \in fresh : f[2] \notin P}

\* _publication_operation_id: job, attempt and worker.
PublishOperation(w, j, attempt) ==
    [kind |-> "publish", request |-> RequestOf(j), attempt |-> attempt, worker |-> w]
\* The request id of a removal, and the uuid of a clean-up.
RemoveOperation(r)  ==
    [kind |-> "remove", request |-> r, attempt |-> 0, worker |-> None]
CleanupOperation(w) ==
    [kind |-> "cleanup", request |-> NoRequest, attempt |-> 0, worker |-> w]

-----------------------------------------------------------------------------
(* Requests. *)

\* _set_publication_request_intent, in the transaction of every request.
SetRequestIntent(d, r, type) ==
    LET touched == {p \in RowsOf(d) : type = "delete" \/ rows[p].status = "removing"} IN
      /\ rows' = [p \in Pairs |->
                    IF p \notin touched THEN rows[p]
                    ELSE IF type = "delete"
                    THEN [rows[p] EXCEPT !.status = "removing",
                                         !.operation = RemoveOperation(r)]
                    ELSE [rows[p] EXCEPT !.status = "failed", !.operation = NoOperation]]
      /\ fresh' = Unread(touched)

-----------------------------------------------------------------------------
(* A job's publication. *)

\* The transition with the status it was read with, and the fence of the job.
MayRecordPending(w, j, attempt, seen, p) ==
    /\ RequestIsCurrent(RowDoc(p), RequestOf(j))
    /\ docs[RowDoc(p)].desired
    /\ JobClaimIsCurrent(w, j, attempt)
    /\ Matches(seen, seen.status)
    /\ HasRow(p) => /\ rows[p].generation <= seen.generation
                    /\ rows[p].status # "removing"

RecordPublicationPending(p, generation, operation) ==
    /\ rows' = [rows EXCEPT ![p] = [status |-> "pending", generation |-> generation,
                                    operation |-> operation,
                                    content |-> rows[p].content]]
    /\ fresh' = Unread({p})

\* The condition of record_publication_success and record_publication_error.
OperationIsPending(p, generation, operation) ==
    /\ rows[p].status = "pending"
    /\ rows[p].generation = generation
    /\ rows[p].operation = operation

RecordPublicationSuccess(p, generation, r) ==
    /\ rows' = [rows EXCEPT ![p] = [status |-> "ready", generation |-> generation,
                                    operation |-> NoOperation, content |-> r]]
    /\ fresh' = Unread({p})

FailRow(row) == [row EXCEPT !.status = "failed", !.operation = NoOperation]

RecordPublicationError(p, generation, operation) ==
    IF OperationIsPending(p, generation, operation)
    THEN rows' = [rows EXCEPT ![p] = FailRow(@)] /\ fresh' = Unread({p})
    ELSE UNCHANGED publicationVars

\* fail_pending_publications_for_operation.
FailPendingForOperation(operation) ==
    LET pending == {p \in Pairs : /\ rows[p].status = "pending"
                                  /\ rows[p].operation = operation} IN
      /\ rows' = [p \in Pairs |-> IF p \in pending THEN FailRow(rows[p]) ELSE rows[p]]
      /\ fresh' = Unread(pending)

-----------------------------------------------------------------------------
(* Removals. *)

\* get_publication: what the caller knows of the row from here on.
ReadRow(w, p) == fresh' = fresh \cup {<<w, p>>}

MayClaimRemoval(w, p) ==
    /\ <<w, p>> \in fresh
    /\ rows[p].status \notin {"none", "pending"}

ClaimPublicationRemoval(p, operation) ==
    /\ rows' = [rows EXCEPT ![p].status = "removing", ![p].operation = operation]
    /\ fresh' = Unread({p})

RemovalIsClaimed(p, operation) ==
    /\ rows[p].status = "removing"
    /\ rows[p].operation = operation

RemovePublicationRecord(p) ==
    /\ rows' = [rows EXCEPT ![p] = NoRow]
    /\ fresh' = Unread({p})

-----------------------------------------------------------------------------
(* The activation of a target reads the other tables. *)

AllDesiredReady ==
    \A d \in Docs : Exists(d) /\ docs[d].desired => docs[d].status = "Ready"

NonePendingIn(generation) ==
    \A p \in Pairs : rows[p].generation = generation => rows[p].status # "pending"

\* Mutant: a document that is being worked on does not hold the activation back.
ActivateRegardless(seen) == Matches(seen, "cleaning")

MayActivate(seen) ==
    /\ Matches(seen, "cleaning")
    /\ NonePendingIn(seen.generation)
    /\ AllDesiredReady
=============================================================================
