--------------------------- MODULE PublicationFlow ---------------------------
(***************************************************************************)
(* Publishing while everything moves: jobs that publish and remove under   *)
(* the advisory lock of a document and a target, requests that supersede   *)
(* them, the administrator who switches the target, and the workers'       *)
(* passes of _advance_publication_transition that queue missing documents, *)
(* clean the previous target up and activate the new one.                  *)
(*                                                                         *)
(* Covered: every step of _process_upsert, _process_delete and the pass    *)
(* between two reads or writes that others can see, the remote stores      *)
(* included.  Abstracted: the pipeline (one step), list columns (module    *)
(* SharePointControl), stale forms (PublicationTransition), reconciliation *)
(* (JobQueue).  A pass queues one document and ends, where the code queues *)
(* all of them and ends: the next pass is another one here.  Setting the    *)
(* status to cleaning and listing what is to be cleaned make one step.     *)
(***************************************************************************)
EXTENDS PublicationStore, FiniteSetsExt

CONSTANT MaxFaults     \* bound: crashes, lost leases, remote calls that fail

ASSUME FaultsAssumption == MaxFaults \in Nat

\* NULL is no job and no row.
ASSUME NullAssumption ==
    None \notin JobIds /\ None \notin Pairs /\ None \notin Transition

VARIABLES
    work,          \* the locals of each worker
    lock,          \* publication_operation_lock: the pair a worker is in
    remote,        \* what the connector and the column hold: the request of the text
    republish,     \* documents _queue_publication_republish has still to look at
    faults

flowVars == <<work, lock, remote, republish, faults>>
vars     == <<storeVars, transition, publicationVars, flowVars>>

Labels ==
    {"idle", "claimed", "process", "targets", "guard", "write", "verify", "record",
     "commit", "fence", "claim", "claimed_row", "remote_remove", "forget", "conflict",
     "complete", "stale", "cancel", "error", "record_error", "fail_job",
     "advance", "rows", "clean", "activate"}

\* The pass works without a job; bare: no row was found, the target is a guess.
Locals ==
    [pc : Labels, job : JobIds \cup {None}, attempt : 0..MaxAttempts,
     seen : Transition \cup {None}, listed : [Docs -> Document] \cup {None},
     todo : SUBSET Pairs, bare : BOOLEAN]

Idle == [pc |-> "idle", job |-> None, attempt |-> 0, seen |-> None, listed |-> None,
         todo |-> {}, bare |-> FALSE]

TypeOK ==
    /\ PublicationTypeOK
    /\ work \in [Workers -> Locals]
    /\ lock \in [Workers -> Pairs \cup {None}]
    /\ remote \in [Pairs -> RequestIds]
    /\ republish \subseteq Pairs \X (0..MaxGeneration)
    /\ faults \in 0..MaxFaults

\* A fresh installation, and one whose documents are published to the connector.
FreshStore ==
    /\ StoreInit
    /\ TransitionInit
    /\ rows = [p \in Pairs |-> NoRow]
    /\ remote = [p \in Pairs |-> NoRequest]

PublishedStore ==
    /\ docs = [d \in Docs |-> [desired |-> TRUE, status |-> "Ready", request |-> 1,
                               processed |-> 1, version |-> 1]]
    /\ jobs = [j \in JobIds |->
                 [status |-> IF RequestOf(j) = 1 /\ TypeOf(j) = "upsert"
                             THEN "completed" ELSE "absent",
                  attempts |-> IF RequestOf(j) = 1 /\ TypeOf(j) = "upsert" THEN 1 ELSE 0,
                  owner |-> None, leased |-> FALSE,
                  queuedAt |-> IF RequestOf(j) = 1 /\ TypeOf(j) = "upsert" THEN 1 ELSE 0]]
    /\ lastRequest = 1
    /\ TransitionInit /\ transition.active = "copilot_connector"
    /\ rows = [p \in Pairs |-> IF RowTarget(p) = "copilot_connector"
                               THEN [NoRow EXCEPT !.status = "ready", !.content = 1]
                               ELSE NoRow]
    /\ remote = [p \in Pairs |-> IF RowTarget(p) = "copilot_connector" THEN 1 ELSE 0]

WorkersIdle ==
    /\ work = [w \in Workers |-> Idle]
    /\ lock = [w \in Workers |-> None]
    /\ fresh = {}
    /\ republish = {}
    /\ faults = 0

Init == (FreshStore \/ PublishedStore) /\ WorkersIdle

At(w, label)   == work[w].pc = label
Goto(w, label) == work' = [work EXCEPT ![w].pc = label]
Release(w)     == lock' = [lock EXCEPT ![w] = None]
ThePair(w)     == lock[w]

\* The end of a job or of a pass: the locals and the lock are gone.
Drop(w) == work' = [work EXCEPT ![w] = Idle] /\ Release(w)

TheDoc(w)     == DocOf(work[w].job)
TheRequest(w) == RequestOf(work[w].job)
IsDelete(w)   == TypeOf(work[w].job) = "delete"
IsPass(w)     == work[w].job = None

StillCurrent(w)   == RequestIsCurrent(TheDoc(w), TheRequest(w))
ClaimIsCurrent(w) == JobClaimIsCurrent(w, work[w].job, work[w].attempt)

Operation(w) ==
    IF IsPass(w) THEN CleanupOperation(w)
    ELSE IF IsDelete(w) THEN RemoveOperation(TheRequest(w))
    ELSE PublishOperation(w, work[w].job, work[w].attempt)

\* _publication_targets: the active target as well until the clean-up begins.
PublicationTargets(t) ==
    IF EffectiveTarget(t) = "unset" THEN {}
    ELSE {EffectiveTarget(t)} \cup
         (IF t.status \in {"active", "cleaning"} THEN {} ELSE {t.active} \ {"unset"})

-----------------------------------------------------------------------------
(* Requests and the administrator. *)

\* queue_refresh and the ingest API: the row, the intent and the job in one.
Submit(d, r, type) ==
    /\ FreshRequest(r)
    /\ UpsertDocumentAndEnqueue(d, r, type, "Queued")
    /\ SetRequestIntent(d, r, type)

UserRequest(d, r, type) ==
    /\ Submit(d, r, type)
    /\ UNCHANGED <<transition, flowVars>>

\* What _queue_publication_republish sets out to look at.
ToRepublish(t) ==
    {<<<<d, EffectiveTarget(t)>>, t.generation>> :
        d \in {e \in Docs : Exists(e) /\ docs[e].desired}}

\* A form sent again while the transition is open republishes as well.
AdminRequestsTarget(target) ==
    /\ target # "unset"
    /\ \/ RequestTarget(target)
       \/ /\ target = transition.desired
          /\ transition.status \notin {"active", "failed"}
          /\ UNCHANGED transition
    /\ republish' = IF EffectiveTarget(transition') = target
                    THEN ToRepublish(transition') ELSE republish
    /\ UNCHANGED <<storeVars, publicationVars, work, lock, remote, faults>>

CurrentForm == [generation |-> transition.generation, desired |-> transition.desired]

AdminProvisions ==
    /\ SetColumnProvisioned(CurrentForm)
    /\ republish' = IF transition'.status # "active"
                    THEN ToRepublish(transition') ELSE republish
    /\ UNCHANGED <<storeVars, publicationVars, work, lock, remote, faults>>

AdminConfirms ==
    /\ \/ SetReindexRequested(CurrentForm)
       \/ SetSearchVerified(CurrentForm)
       \/ SetCopilotVerified(CurrentForm)
    /\ UNCHANGED <<storeVars, publicationVars, flowVars>>

AdminRepublishes(item, r) ==
    /\ item \in republish
    /\ republish' = republish \ {item}
    /\ IF rows[item[1]].status = "ready" /\ rows[item[1]].generation = item[2]
       THEN UNCHANGED <<storeVars, publicationVars>>
       ELSE Submit(RowDoc(item[1]), r, "upsert")
    /\ UNCHANGED <<transition, work, lock, remote, faults>>

-----------------------------------------------------------------------------
(* A job that publishes. *)

Claim(w) ==
    /\ At(w, "idle")
    /\ \E j \in JobIds :
         /\ ClaimJob(w, j)
         /\ work' = [work EXCEPT ![w] = [Idle EXCEPT !.pc = "claimed", !.job = j,
                                                     !.attempt = NextAttempt(j)]]
    /\ UNCHANGED <<docs, lastRequest, transition, publicationVars, lock, remote,
                   republish, faults>>

\* get_document, get_publication_transition, _current_control.
BeginJob(w) ==
    /\ At(w, "claimed")
    /\ work' = [work EXCEPT
         ![w].pc = IF docs[TheDoc(w)].processed = TheRequest(w) THEN "complete"
                   ELSE IF ~StillCurrent(w) THEN "stale"
                   ELSE IF ~IsDelete(w) THEN "process"
                   ELSE IF ClaimIsCurrent(w) THEN "targets" ELSE "stale",
         ![w].seen = IF IsDelete(w) THEN None ELSE transition,
         ![w].bare = IsDelete(w) /\ RowsOf(TheDoc(w)) = {},
         ![w].todo = IF ~IsDelete(w) THEN {}
                     ELSE IF RowsOf(TheDoc(w)) # {} THEN RowsOf(TheDoc(w))
                     ELSE {<<TheDoc(w), EffectiveTarget(transition)>>} \cap Pairs]
    /\ UNCHANGED <<storeVars, transition, publicationVars, lock, remote, republish, faults>>

\* The pipeline, the checks after it, and the targets of the transition seen.
Process(w) ==
    /\ At(w, "process")
    /\ work' = [work EXCEPT
         ![w].pc = IF EffectiveTarget(work[w].seen) = "unset" THEN "error"
                   ELSE IF StillCurrent(w) /\ Matches(work[w].seen, work[w].seen.status)
                   THEN "targets" ELSE "stale",
         ![w].todo = {<<TheDoc(w), t>> : t \in PublicationTargets(work[w].seen)}]
    /\ UNCHANGED <<storeVars, transition, publicationVars, lock, remote, republish, faults>>

\* An upsert publishes to the active target before the desired one.
NextPairs(w) ==
    IF IsPass(w) \/ IsDelete(w) \/ <<TheDoc(w), work[w].seen.active>> \notin work[w].todo
    THEN work[w].todo
    ELSE {<<TheDoc(w), work[w].seen.active>>}

\* Mutant: the advisory lock is not taken.
EnterWithoutLock(w, p) ==
    /\ p \in NextPairs(w)
    /\ lock' = [lock EXCEPT ![w] = p]

\* publication_operation_lock.
EnterLock(w, p) ==
    /\ p \in NextPairs(w)
    /\ \A v \in Workers : lock[v] # p
    /\ lock' = [lock EXCEPT ![w] = p]

Lock(w) ==
    /\ At(w, "targets") \/ At(w, "clean")
    /\ \E p \in Pairs : EnterLock(w, p)
    /\ \/ At(w, "targets") /\ Goto(w, IF IsDelete(w) THEN "fence" ELSE "guard")
       \/ At(w, "clean") /\ Goto(w, "fence")
    /\ UNCHANGED <<storeVars, transition, publicationVars, remote, republish, faults>>

\* A pair is done: its lock is released and the next one follows.
NextPair(w, label) ==
    /\ work' = [work EXCEPT ![w].pc = label, ![w].todo = @ \ {ThePair(w)}]
    /\ Release(w)

\* The checks under the lock, then record_publication_pending.
Guard(w) ==
    /\ At(w, "guard")
    /\ IF MayRecordPending(w, work[w].job, work[w].attempt, work[w].seen, ThePair(w))
       THEN /\ RecordPublicationPending(ThePair(w), work[w].seen.generation, Operation(w))
            /\ Goto(w, "write")
            /\ UNCHANGED lock
       ELSE Goto(w, "stale") /\ Release(w) /\ UNCHANGED publicationVars
    /\ UNCHANGED <<storeVars, transition, remote, republish, faults>>

Publish(w) ==
    /\ At(w, "write")
    /\ remote' = [remote EXCEPT ![ThePair(w)] = TheRequest(w)]
    /\ Goto(w, "verify")
    /\ UNCHANGED <<storeVars, transition, publicationVars, lock, republish, faults>>

\* publisher.publish raises, whether the text was stored or not.
PublishFails(w) ==
    /\ At(w, "write")
    /\ faults < MaxFaults
    /\ faults' = faults + 1
    /\ remote' \in {remote, [remote EXCEPT ![ThePair(w)] = TheRequest(w)]}
    /\ RecordPublicationError(ThePair(w), work[w].seen.generation, Operation(w))
    /\ Goto(w, "error")
    /\ Release(w)
    /\ UNCHANGED <<storeVars, transition, republish>>

Verify(w) ==
    /\ At(w, "verify")
    /\ IF /\ StillCurrent(w) /\ ClaimIsCurrent(w)
          /\ Matches(work[w].seen, work[w].seen.status)
       THEN Goto(w, "record") /\ UNCHANGED <<publicationVars, lock>>
       ELSE /\ RecordPublicationError(ThePair(w), work[w].seen.generation, Operation(w))
            /\ Goto(w, "stale")
            /\ Release(w)
    /\ UNCHANGED <<storeVars, transition, remote, republish, faults>>

RecordPublished(w) ==
    /\ At(w, "record")
    /\ IF OperationIsPending(ThePair(w), work[w].seen.generation, Operation(w))
       THEN /\ RecordPublicationSuccess(ThePair(w), work[w].seen.generation, TheRequest(w))
            /\ NextPair(w, "targets")
       ELSE Goto(w, "stale") /\ Release(w) /\ UNCHANGED publicationVars
    /\ UNCHANGED <<storeVars, transition, remote, republish, faults>>

\* record_success and record_removed: nothing is left to publish or to remove.
Commit(w) ==
    /\ At(w, "targets")
    /\ work[w].todo = {}
    /\ IF StillCurrent(w) /\ ClaimIsCurrent(w)
       THEN /\ IF IsDelete(w) THEN RecordRemoved(TheDoc(w), TheRequest(w))
                              ELSE RecordSuccess(TheDoc(w), TheRequest(w))
            /\ Goto(w, "complete")
       ELSE Goto(w, "stale") /\ UNCHANGED docs
    /\ UNCHANGED <<jobs, lastRequest, transition, publicationVars, lock, remote,
                   republish, faults>>

Complete(w) ==
    /\ At(w, "complete")
    /\ CloseJob(w, work[w].job, work[w].attempt, "completed")
    /\ Drop(w)
    /\ UNCHANGED <<docs, lastRequest, transition, publicationVars, remote, republish, faults>>

-----------------------------------------------------------------------------
(* A removal under the lock, of a job or of the clean-up of a pass. *)

\* Mutant: the row is removed without looking at the transition again.
PassMayRemoveAnyway(w) == TRUE

\* What _process_delete and _cleanup_previous_target ask under the lock.
MayRemove(w) ==
    IF IsPass(w) THEN Matches(work[w].seen, "cleaning")
    ELSE StillCurrent(w) /\ ClaimIsCurrent(w)

\* Where a removal that may not go on ends.
Stop(w) ==
    /\ IF IsPass(w) THEN Drop(w) ELSE Goto(w, "stale") /\ Release(w)
    /\ UNCHANGED publicationVars

Fence(w) ==
    /\ At(w, "fence")
    /\ IF ~MayRemove(w) \/ (IsPass(w) /\ rows[ThePair(w)].status = "pending")
       THEN Stop(w)
       ELSE IF HasRow(ThePair(w))
       THEN ReadRow(w, ThePair(w)) /\ Goto(w, "claim") /\ UNCHANGED <<rows, lock>>
       ELSE IF work[w].bare
       THEN Goto(w, "remote_remove") /\ UNCHANGED <<publicationVars, lock>>
       ELSE /\ NextPair(w, IF IsPass(w) THEN "clean" ELSE "targets")
            /\ UNCHANGED publicationVars
    /\ UNCHANGED <<storeVars, transition, remote, republish, faults>>

ClaimRemoval(w) ==
    /\ At(w, "claim")
    /\ IF MayClaimRemoval(w, ThePair(w))
       THEN ClaimPublicationRemoval(ThePair(w), Operation(w)) /\ Goto(w, "claimed_row")
       ELSE Goto(w, "conflict") /\ UNCHANGED publicationVars
    /\ UNCHANGED <<storeVars, transition, lock, remote, republish, faults>>

CheckRemovalClaim(w) ==
    /\ At(w, "claimed_row")
    /\ Goto(w, IF RemovalIsClaimed(ThePair(w), Operation(w))
               THEN "remote_remove" ELSE "conflict")
    /\ UNCHANGED <<storeVars, transition, publicationVars, lock, remote, republish, faults>>

RemoteRemove(w) ==
    /\ At(w, "remote_remove")
    /\ remote' = [remote EXCEPT ![ThePair(w)] = NoRequest]
    /\ IF work[w].bare /\ ~HasRow(ThePair(w))
       THEN NextPair(w, "targets")
       ELSE Goto(w, "forget") /\ UNCHANGED lock
    /\ UNCHANGED <<storeVars, transition, publicationVars, republish, faults>>

\* The deletion raises: a job records the error, a pass fails the transition.
RemoteRemoveFails(w) ==
    /\ At(w, "remote_remove")
    /\ faults < MaxFaults
    /\ faults' = faults + 1
    /\ remote' \in {remote, [remote EXCEPT ![ThePair(w)] = NoRequest]}
    /\ IF IsPass(w)
       THEN /\ Drop(w)
            /\ transition' = IF Matches(work[w].seen, "cleaning")
                             THEN [transition EXCEPT !.status = "failed", !.error = "cleanup"]
                             ELSE transition
       ELSE Goto(w, "error") /\ Release(w) /\ UNCHANGED transition
    /\ UNCHANGED <<storeVars, publicationVars, republish>>

ForgetRow(w) ==
    /\ At(w, "forget")
    /\ IF RemovalIsClaimed(ThePair(w), Operation(w))
       THEN /\ RemovePublicationRecord(ThePair(w))
            /\ NextPair(w, IF IsPass(w) THEN "clean" ELSE "targets")
       ELSE Goto(w, "conflict") /\ UNCHANGED <<publicationVars, lock>>
    /\ UNCHANGED <<storeVars, transition, remote, republish, faults>>

\* _claim_and_remove_publication returned False.
Conflict(w) ==
    /\ At(w, "conflict")
    /\ IF IsPass(w) THEN Drop(w)
       ELSE /\ Goto(w, IF StillCurrent(w) /\ ClaimIsCurrent(w) THEN "error" ELSE "stale")
            /\ Release(w)
    /\ UNCHANGED <<storeVars, transition, publicationVars, remote, republish, faults>>

-----------------------------------------------------------------------------
(* The handlers of StaleRequestError and of KNOWN_PROCESSING_ERRORS. *)

Stale(w) ==
    /\ At(w, "stale")
    /\ FailPendingForOperation(PublishOperation(w, work[w].job, work[w].attempt))
    /\ Goto(w, "cancel")
    /\ UNCHANGED <<storeVars, transition, lock, remote, republish, faults>>

Cancel(w) ==
    /\ At(w, "cancel")
    /\ CloseJob(w, work[w].job, work[w].attempt, "cancelled")
    /\ Drop(w)
    /\ UNCHANGED <<docs, lastRequest, transition, publicationVars, remote, republish, faults>>

JudgeError(w) ==
    /\ At(w, "error")
    /\ Goto(w, IF /\ StillCurrent(w)
                  /\ ~IsDelete(w) => Matches(work[w].seen, work[w].seen.status)
               THEN "record_error" ELSE "stale")
    /\ UNCHANGED <<storeVars, transition, publicationVars, lock, remote, republish, faults>>

RecordError(w) ==
    /\ At(w, "record_error")
    /\ IF MayRecordError(TheDoc(w), TheRequest(w)) /\ ClaimIsCurrent(w)
       THEN RecordDocumentError(TheDoc(w)) /\ Goto(w, "fail_job") /\ UNCHANGED lock
       ELSE UNCHANGED docs /\ Drop(w)
    /\ UNCHANGED <<jobs, lastRequest, transition, publicationVars, remote, republish, faults>>

\* fail_job; record_publication_error changes nothing: its row failed before.
FailJob(w) ==
    /\ At(w, "fail_job")
    /\ CloseJob(w, work[w].job, work[w].attempt, "failed")
    /\ Drop(w)
    /\ UNCHANGED <<docs, lastRequest, transition, publicationVars, remote, republish, faults>>

-----------------------------------------------------------------------------
(* A pass of _advance_publication_transition. *)

BeginPass(w) ==
    /\ At(w, "idle")
    /\ Claimable = {}
    /\ transition.status # "active"
    /\ work' = [work EXCEPT ![w] = [Idle EXCEPT !.pc = "advance", !.seen = transition]]
    /\ UNCHANGED <<storeVars, transition, publicationVars, lock, remote, republish, faults>>

NeedsColumn(t) == t.desired = "sharepoint_column" /\ ~t.provisioned

\* set_transition_status, conditional on the row the pass began with.
SetStatus(w, status, error) ==
    \/ SetTransitionStatus(work[w].seen, status, error)
    \/ ~Matches(work[w].seen, work[w].seen.status) /\ UNCHANGED transition

ColumnMissing(w) ==
    /\ At(w, "advance")
    /\ NeedsColumn(work[w].seen)
    /\ SetStatus(w, "failed", "not_provisioned")
    /\ Drop(w)
    /\ UNCHANGED <<storeVars, publicationVars, remote, republish, faults>>

\* list_desired_sharepoint_documents.
ListDocuments(w) ==
    /\ At(w, "advance")
    /\ ~NeedsColumn(work[w].seen)
    /\ work' = [work EXCEPT ![w].pc = "rows", ![w].listed = docs]
    /\ UNCHANGED <<storeVars, transition, publicationVars, lock, remote, republish, faults>>

ListedDesired(w) == {d \in Docs : work[w].listed[d].desired
                                    /\ work[w].listed[d].status # "Absent"}
Waiting(w)       == {d \in ListedDesired(w) : work[w].listed[d].status # "Ready"}

\* Mutant: a document that is queued is taken to have a job.
QueuedHasJob(w, d) == TRUE

\* has_pending_job, for the request the list showed.
HasListedJob(w, d) ==
    \E t \in JobTypes :
        jobs[<<d, work[w].listed[d].request, t>>].status \in {"queued", "processing"}

WaitForDocuments(w) ==
    /\ At(w, "rows")
    /\ Waiting(w) # {}
    /\ \/ \E d \in Waiting(w), r \in Requests :
            /\ work[w].listed[d].status = "Queued"
            /\ ~HasListedJob(w, d)
            /\ Submit(d, r, "upsert")
       \/ /\ \A d \in Waiting(w) : work[w].listed[d].status = "Queued" => HasListedJob(w, d)
          /\ UNCHANGED <<storeVars, publicationVars>>
    /\ Drop(w)
    /\ UNCHANGED <<transition, remote, republish, faults>>

PublishedNow(w, d) ==
    LET row == rows[<<d, work[w].seen.desired>>] IN
        row.status = "ready" /\ row.generation = work[w].seen.generation

\* Documents whose row is missing or of an older generation, one that failed excepted.
RequeueMissing(w) ==
    /\ At(w, "rows")
    /\ Waiting(w) = {}
    /\ \E d \in ListedDesired(w) : ~PublishedNow(w, d)
    /\ \/ \E d \in ListedDesired(w), r \in Requests :
            /\ ~PublishedNow(w, d)
            /\ rows[<<d, work[w].seen.desired>>].status # "failed"
            /\ Submit(d, r, "upsert")
       \/ /\ \A d \in ListedDesired(w) :
               PublishedNow(w, d) \/ rows[<<d, work[w].seen.desired>>].status = "failed"
          /\ UNCHANGED <<storeVars, publicationVars>>
    /\ Drop(w)
    /\ UNCHANGED <<transition, remote, republish, faults>>

IsRollback(t) == t.status = "cleaning" /\ t.desired = t.active

\* Mutant: the Copilot answer is not waited for.
AwaitedButCopilot(t) ==
    IF t.desired # "sharepoint_column" THEN {}
    ELSE IF ~t.reindexed THEN {"awaiting_reindex"}
    ELSE IF ~t.searched THEN {"awaiting_search"}
    ELSE {}

\* The manual step of the column that comes next, if any.
Awaited(t) ==
    IF t.desired # "sharepoint_column" THEN {}
    ELSE IF ~t.reindexed THEN {"awaiting_reindex"}
    ELSE IF ~t.searched THEN {"awaiting_search"}
    ELSE IF ~t.asked THEN {"awaiting_copilot"}
    ELSE {}

AllPublished(w) == Waiting(w) = {} /\ \A d \in ListedDesired(w) : PublishedNow(w, d)

AwaitStep(w) ==
    /\ At(w, "rows")
    /\ AllPublished(w)
    /\ ~IsRollback(work[w].seen)
    /\ \E status \in Awaited(work[w].seen) : SetStatus(w, status, "")
    /\ Drop(w)
    /\ UNCHANGED <<storeVars, publicationVars, remote, republish, faults>>

\* The targets whose publications the pass removes.
ToClean(t) ==
    IF IsRollback(t) THEN PublishedTargets \ {t.active} ELSE {t.active} \ {"unset"}

\* list_publications: the pass ends when one of them is pending.
ListToClean(w) ==
    /\ At(w, "rows")
    /\ AllPublished(w)
    /\ IsRollback(work[w].seen) \/ Awaited(work[w].seen) = {}
    /\ LET found == UNION {RowsAt(t) : t \in ToClean(work[w].seen)} IN
         IF /\ IsRollback(work[w].seen) \/ Matches(work[w].seen, work[w].seen.status)
            /\ \A p \in found : rows[p].status # "pending"
            /\ work[w].seen.desired \notin ToClean(work[w].seen)
         THEN work' = [work EXCEPT ![w].pc = "clean", ![w].todo = found] /\ UNCHANGED lock
         ELSE Drop(w)
    /\ IF IsRollback(work[w].seen) THEN UNCHANGED transition ELSE SetStatus(w, "cleaning", "")
    /\ UNCHANGED <<storeVars, publicationVars, remote, republish, faults>>

CleanedUp(w) ==
    /\ At(w, "clean")
    /\ work[w].todo = {}
    /\ IF Matches(work[w].seen, "cleaning") THEN Goto(w, "activate") /\ UNCHANGED lock
                                            ELSE Drop(w)
    /\ UNCHANGED <<storeVars, transition, publicationVars, remote, republish, faults>>

Activate(w) ==
    /\ At(w, "activate")
    /\ IF MayActivate(work[w].seen) THEN ActivateTarget(work[w].seen)
                                    ELSE UNCHANGED transition
    /\ Drop(w)
    /\ UNCHANGED <<storeVars, publicationVars, remote, republish, faults>>

-----------------------------------------------------------------------------

\* The process dies: its database session and the advisory lock are gone.
Crash(w) ==
    /\ ~At(w, "idle")
    /\ faults < MaxFaults
    /\ faults' = faults + 1
    /\ fresh' = {f \in fresh : f[1] # w}
    /\ Drop(w)
    /\ UNCHANGED <<storeVars, transition, rows, remote, republish>>

HeldBySomeone(j) == \E w \in Workers : work[w].job = j /\ ClaimIsCurrent(w)

LeaseExpires(j) ==
    /\ jobs[j].status = "processing" /\ jobs[j].leased
    /\ jobs' = [jobs EXCEPT ![j].leased = FALSE]
    /\ \/ ~HeldBySomeone(j) /\ UNCHANGED faults
       \/ HeldBySomeone(j) /\ faults < MaxFaults /\ faults' = faults + 1
    /\ UNCHANGED <<docs, lastRequest, transition, publicationVars, work, lock, remote,
                   republish>>

AbandonedLeaseExpires(j) == ~HeldBySomeone(j) /\ LeaseExpires(j)

PublishStep(w) ==
    \/ Process(w)
    \/ Guard(w)
    \/ Publish(w)
    \/ Verify(w)
    \/ RecordPublished(w)

RemoveStep(w) ==
    \/ Fence(w)
    \/ ClaimRemoval(w)
    \/ CheckRemovalClaim(w)
    \/ RemoteRemove(w)
    \/ ForgetRow(w)
    \/ Conflict(w)

OutcomeStep(w) ==
    \/ BeginJob(w)
    \/ Commit(w)
    \/ Complete(w)
    \/ Stale(w)
    \/ Cancel(w)
    \/ JudgeError(w)
    \/ RecordError(w)
    \/ FailJob(w)

PassStep(w) ==
    \/ ColumnMissing(w)
    \/ ListDocuments(w)
    \/ WaitForDocuments(w)
    \/ RequeueMissing(w)
    \/ AwaitStep(w)
    \/ ListToClean(w)
    \/ CleanedUp(w)
    \/ Activate(w)

Step(w) == PublishStep(w) \/ RemoveStep(w) \/ OutcomeStep(w) \/ PassStep(w)

AdminStep ==
    \/ AdminProvisions
    \/ AdminConfirms
    \/ \E item \in republish, r \in Requests : AdminRepublishes(item, r)

Next ==
    \/ \E d \in Docs, r \in Requests, type \in JobTypes : UserRequest(d, r, type)
    \/ \E target \in Targets : AdminRequestsTarget(target)
    \/ AdminStep
    \/ \E w \in Workers :
         \/ Claim(w)
         \/ Lock(w)
         \/ Step(w)
         \/ BeginPass(w)
         \/ PublishFails(w)
         \/ RemoteRemoveFails(w)
         \/ Crash(w)
    \/ \E j \in JobIds : LeaseExpires(j)

Spec == Init /\ [][Next]_vars

\* From a target that documents are published to.
SwitchSpec == PublishedStore /\ WorkersIdle /\ [][Next]_vars

-----------------------------------------------------------------------------
(* Safety. *)

\* A row that says ready describes what the target holds: nobody writes the
\* remote store of a pair under a row that is settled.
ReadyRowsArePublished ==
    \A p \in Pairs : rows[p].status = "ready" => remote[p] = rows[p].content

\* Nothing is left in a target without a row to find it by.
PublishedHasRow ==
    \A p \in Pairs : remote[p] # NoRequest => HasRow(p)

\* A document the control calls removed is in no target.
WithdrawnLeavesNothing ==
    \A d \in Docs : docs[d].status = "NotEnabled" =>
        \A p \in Pairs : RowDoc(p) = d => remote[p] = NoRequest

\* Targets and tables agree, whichever worker wrote last (publication_operation_lock):
\* nothing is left in a target without a row to find it by, a row that says ready
\* describes what the target holds, and a document the control calls removed
\* (record_removed) is in no target.
TargetsMatchTheirRows ==
    /\ PublishedHasRow
    /\ ReadyRowsArePublished
    /\ WithdrawnLeavesNothing

\* What a document the control calls ready was made for is found in a target, however
\* often the switch is begun, rolled back and cleaned up while requests are carried
\* out; while no transition is open, in the active one.
ReadyIsServed ==
    \A d \in Docs : docs[d].status = "Ready" =>
        \E p \in Pairs : /\ RowDoc(p) = d
                         /\ remote[p] = docs[d].request
                         /\ transition.status = "active" => RowTarget(p) = transition.active

\* The step that activates a target finds every document that is wanted in it.
ActivatedWhenServed ==
    [][(transition.status # "active" /\ transition'.status = "active") =>
           \A d \in Docs : (Exists(d) /\ docs[d].desired) =>
               /\ docs[d].status = "Ready"
               /\ \E p \in Pairs : /\ RowDoc(p) = d
                                    /\ RowTarget(p) = transition'.active
                                    /\ remote[p] = docs[d].request
      ]_vars

\* While no transition is open, the other target holds nothing: a switch cleans the
\* previous target up (README.md:505-508).
OtherTargetIsEmpty ==
    transition.status = "active" =>
        \A p \in Pairs : RowTarget(p) # transition.active => remote[p] = NoRequest

-----------------------------------------------------------------------------
(* Liveness. *)

\* Workers poll for ever, a waiting advisory lock is granted in its turn, an
\* abandoned lease runs out, and the administrator finishes what he began.
Fairness ==
    /\ \A w \in Workers :
         /\ WF_vars(Claim(w) \/ BeginPass(w) \/ Step(w))
         /\ SF_vars(Lock(w))
    /\ \A j \in JobIds : WF_vars(AbandonedLeaseExpires(j))
    /\ WF_vars(AdminProvisions)
    /\ WF_vars(AdminConfirms)
    /\ WF_vars(\E item \in republish, r \in Requests : AdminRepublishes(item, r))

FairSpec == SwitchSpec /\ Fairness

\* Bound: a pass that has no request id left stays where it is.
OutOfRequests == lastRequest = MaxRequests

\* A failure that the portal shows, for the administrator to act on.
FailureShown == transition.status = "failed" \/ \E d \in Docs : docs[d].status = "Failed"

\* A switch that the administrator confirms reaches its end, whichever of its
\* workers die on the way.
EveryTransitionEnds ==
    transition.status # "active" ~>
        transition.status = "active" \/ FailureShown \/ OutOfRequests
=============================================================================
