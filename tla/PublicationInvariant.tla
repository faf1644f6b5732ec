------------------------- MODULE PublicationInvariant -------------------------
(***************************************************************************)
(* Why the targets match the tables: an inductive invariant of             *)
(* PublicationFlow.  The advisory lock makes a worker the only writer of   *)
(* a pair's target, and what it may rely on at each place is said here; a  *)
(* request only ever announces a removal or takes one back.                *)
(***************************************************************************)
EXTENDS PublicationFlow

Known(j) == jobs[j].status # "absent"

-----------------------------------------------------------------------------
(* The workers' places and their locks. *)

PassLabels    == {"advance", "rows", "clean", "activate"}
PublishLabels == {"guard", "write", "verify", "record"}
RemoveLabels  == {"fence", "claim", "claimed_row", "remote_remove", "forget", "conflict"}
LockLabels    == PublishLabels \cup RemoveLabels

\* What is in scope where a worker is: a job it works on was stored, a pass works on
\* the row it read and has no job, an upsert publishes to the targets of the row it
\* read, and only a delete or a pass removes.
InScope(w) ==
    /\ ~IsPass(w) => Known(work[w].job)
    /\ work[w].bare => ~IsPass(w)
    /\ work[w].pc \in PassLabels => IsPass(w)
    /\ work[w].pc \notin PassLabels \cup RemoveLabels \cup {"idle"} => ~IsPass(w)
    /\ work[w].pc \in PassLabels => work[w].seen \in Transition
    /\ work[w].pc \in RemoveLabels =>
         IF IsPass(w) THEN work[w].seen \in Transition ELSE IsDelete(w)
    /\ work[w].pc \in PublishLabels \cup {"process"} =>
         ~IsDelete(w) /\ work[w].seen \in Transition
    /\ work[w].pc = "targets" /\ ~IsDelete(w) => work[w].seen \in Transition

\* The lock is held through the whole of an operation, and by one worker.
LocksInv ==
    /\ \A w \in Workers : lock[w] # None <=> work[w].pc \in LockLabels
    /\ \A v, w \in Workers : v # w /\ lock[v] # None => lock[v] # lock[w]

-----------------------------------------------------------------------------
(* The pair a worker has locked. *)

\* Under the lock the row moves only the way requests and failures move it: a row
\* that is being published stays a row and is not settled, one that is being
\* removed becomes neither pending nor ready, and the target holds what the worker
\* left there.
PairInv(w) ==
    /\ work[w].pc \in {"write", "verify", "record"} =>
         rows[ThePair(w)].status \notin {"none", "ready"}
    /\ work[w].pc \in {"verify", "record"} => remote[ThePair(w)] = TheRequest(w)
    /\ work[w].pc \in {"claimed_row", "remote_remove", "forget"} =>
         rows[ThePair(w)].status \notin {"ready", "pending"}
    /\ work[w].pc = "forget" => remote[ThePair(w)] = NoRequest

-----------------------------------------------------------------------------
(* Requests and withdrawals. *)

\* No table knows a request that was not handed out, and the intent column agrees
\* with the job of the document's request.
RequestsInv ==
    /\ \A d \in Docs : docs[d].request <= lastRequest
    /\ \A j \in JobIds : Known(j) =>
         /\ RequestOf(j) <= lastRequest
         /\ RequestOf(j) = docs[DocOf(j)].request =>
              (docs[DocOf(j)].desired <=> TypeOf(j) = "upsert")

\* A delete that is current still has every row of its document before it.
DeleteSeesRows(w) ==
    /\ ~IsPass(w) /\ IsDelete(w) /\ StillCurrent(w)
    /\ work[w].pc \in (RemoveLabels \ {"conflict"}) \cup {"targets"}
    => RowsOf(TheDoc(w)) \subseteq work[w].todo

\* A withdrawn document has no row, and is not wanted until it is asked for again.
WithdrawnHasNoRow ==
    \A d \in Docs : docs[d].status = "NotEnabled" => ~docs[d].desired /\ RowsOf(d) = {}

\* The inductive invariant (publication_operation_lock, publication_transition_matches,
\* record_publication_pending and the removal's claim).
FlowInv ==
    /\ TypeOK
    /\ LocksInv
    /\ RequestsInv
    /\ \A w \in Workers : InScope(w) /\ PairInv(w) /\ DeleteSeesRows(w)
    /\ ReadyRowsArePublished
    /\ PublishedHasRow
    /\ WithdrawnHasNoRow

-----------------------------------------------------------------------------
(* The running switch.  Its generation tells what was published for it, and *)
(* for whom nothing is promised: a worker that read an older row.           *)

Publishing(w) ==
    /\ ~IsPass(w) /\ ~IsDelete(w)
    /\ work[w].pc \in PublishLabels \cup {"process", "targets"}

MayCommit(w) == StillCurrent(w) /\ ClaimIsCurrent(w)

DesiredIsEffective == EffectiveTarget(transition) = transition.desired

\* Whoever works from this row publishes to the desired target.
OfThisSwitch(s) ==
    /\ s.generation = transition.generation
    /\ EffectiveTarget(s) = transition.desired

\* It may record an outcome although it does not publish to the desired target.
Outsider(w) == Publishing(w) /\ MayCommit(w) /\ ~OfThisSwitch(work[w].seen)

ServedPair(p) ==
    /\ RowTarget(p) = transition.desired
    /\ rows[p].status = "ready"
    /\ rows[p].generation = transition.generation

Behind(d) == /\ docs[d].status = "Ready"
             /\ \A p \in Pairs : RowDoc(p) = d => ~ServedPair(p)

\* Every document that is ready is served from the desired target, and no worker
\* is left that could make one ready without.
SwitchServed == (\A w \in Workers : ~Outsider(w)) /\ (\A d \in Docs : ~Behind(d))

-----------------------------------------------------------------------------
(* The tables of the running switch. *)

DocsInv ==
    \A d \in Docs :
        /\ docs[d].status = "Ready" =>
             docs[d].desired /\ docs[d].processed = docs[d].request
                             /\ docs[d].request # NoRequest
        /\ docs[d].status = "Absent" => docs[d].request = NoRequest
        /\ ~docs[d].desired => \A p \in RowsOf(d) : rows[p].status \notin {"pending", "ready"}

TransitionInv ==
    /\ transition.status = "active" => transition.active = transition.desired
    /\ transition.desired = "unset" => transition.status = "active"
    /\ \A p \in Pairs : rows[p].generation <= transition.generation

\* A row that serves a document tells its request, and nobody overtakes it.
ServedInv(p) ==
    ServedPair(p) =>
        /\ DesiredIsEffective
        /\ docs[RowDoc(p)].status = "Ready" => rows[p].content = docs[RowDoc(p)].request
        /\ \A w \in Workers : Outsider(w) => TheDoc(w) # RowDoc(p)

-----------------------------------------------------------------------------
(* The workers of the running switch. *)

\* The row of the transition a worker read is an older one.
SeenInv(w) ==
    work[w].seen # None =>
        /\ work[w].seen.generation <= transition.generation
        /\ work[w].seen.generation = transition.generation =>
             /\ work[w].seen.desired = transition.desired
             /\ work[w].seen.provisioned => transition.provisioned
             /\ OfThisSwitch(work[w].seen) => DesiredIsEffective

\* What a worker has still to do, the pair it has locked included.
TodoInv(w) ==
    /\ work[w].pc \in LockLabels => lock[w] \in work[w].todo
    /\ Publishing(w) /\ work[w].pc # "process" =>
         /\ EffectiveTarget(work[w].seen) # "unset"
         /\ \A p \in work[w].todo : /\ RowDoc(p) = TheDoc(w)
                                     /\ RowTarget(p) \in PublicationTargets(work[w].seen)
    /\ ~IsPass(w) /\ IsDelete(w) /\ work[w].pc \in RemoveLabels \cup {"targets"} =>
         \A p \in work[w].todo : RowDoc(p) = TheDoc(w)
    /\ IsPass(w) /\ work[w].pc \in RemoveLabels \cup {"clean"} =>
         \A p \in work[w].todo : RowTarget(p) # work[w].seen.desired

\* Whoever may record an outcome is the first, and has published to the desired
\* target when nothing is left to do there.
CommitInv(w) ==
    Publishing(w) /\ MayCommit(w) =>
        /\ docs[TheDoc(w)].processed # TheRequest(w)
        /\ OfThisSwitch(work[w].seen) /\ work[w].pc # "process" =>
             \A p \in Pairs : RowDoc(p) = TheDoc(w) /\ RowTarget(p) = transition.desired =>
                 p \in work[w].todo \/ (ServedPair(p) /\ rows[p].content = TheRequest(w))

\* While the desired target is written for a document, nobody makes it ready.
WriteInv(w) ==
    /\ work[w].pc \in {"write", "verify", "record"}
    /\ work[w].seen.generation = transition.generation
    /\ RowTarget(lock[w]) = transition.desired
    => /\ docs[RowDoc(lock[w])].status # "Ready"
       /\ \A v \in Workers : Outsider(v) => TheDoc(v) # RowDoc(lock[w])

\* What is being removed serves no document.
RemoveInv(w) == work[w].pc = "claim" => ~ServedPair(lock[w])

\* What a pass that has listed the documents may rely on, and one that cleans up.
PassInv(w) ==
    IsPass(w) /\ work[w].seen # None =>
        /\ work[w].seen.desired # "unset"
        /\ work[w].seen.generation = transition.generation =>
             /\ work[w].pc \in {"rows", "clean", "activate"} \cup RemoveLabels =>
                  ~NeedsColumn(work[w].seen)
             /\ work[w].pc = "rows" =>
                  /\ \A v \in Workers : Outsider(v) => TheDoc(v) \in Waiting(w)
                  /\ \A d \in Docs : Behind(d) => d \in ListedDesired(w)
             /\ work[w].pc \in {"clean", "activate"} \cup RemoveLabels => SwitchServed

\* The inductive invariant behind what readers find (publication_transition_matches,
\* the generation of every row, and the passes' two looks at the documents).
ReadersInv ==
    /\ FlowInv
    /\ DocsInv
    /\ TransitionInv
    /\ \A p \in Pairs : ServedInv(p)
    /\ \A w \in Workers :
         /\ SeenInv(w) /\ TodoInv(w) /\ CommitInv(w)
         /\ WriteInv(w) /\ RemoveInv(w) /\ PassInv(w)
    /\ transition.status = "active" => SwitchServed

-----------------------------------------------------------------------------
(* What is left of a ready document while others write and remove.         *)

\* Somebody is about to write to the pair's target, or to remove from it.
BeingChanged(p) ==
    \E w \in Workers : /\ lock[w] = p
                       /\ work[w].pc \in {"write", "claim", "claimed_row", "remote_remove"}

Lasts(p, r) == remote[p] = r /\ ~BeingChanged(p)

\* The last target of an upsert.
EffectivePair(w) == <<TheDoc(w), EffectiveTarget(work[w].seen)>>

\* What was published there stays there while the worker may still record it.
PublishedLasts(w) ==
    (/\ Publishing(w) /\ MayCommit(w) /\ work[w].pc # "process"
     /\ EffectivePair(w) \notin work[w].todo)
    => Lasts(EffectivePair(w), TheRequest(w))

\* What a ready document was made for is in a target where nobody is about to touch it.
ReadyLasts ==
    \A d \in Docs : docs[d].status = "Ready" =>
        \E p \in Pairs : RowDoc(p) = d /\ Lasts(p, docs[d].request)

\* Inductive: readers find every ready document, during a switch as well.
ServingInv ==
    /\ ReadersInv
    /\ ReadyLasts
    /\ \A w \in Workers : PublishedLasts(w)

-----------------------------------------------------------------------------
(* The switch itself, among documents and jobs. *)

\* The row a job or a pass read is older, a pass only goes on while a switch is open,
\* and the status of the row is earned: why each pass is a step of TargetSwitch.
PassesAreOfSwitches ==
    /\ StatusIsEarned
    /\ \A w \in Workers : work[w].seen # None =>
         /\ ReadIsOlder(work[w].seen)
         /\ IsPass(w) => work[w].seen.status # "active"

\* All of it.
PublicationsInv == ServingInv /\ PassesAreOfSwitches
=============================================================================
