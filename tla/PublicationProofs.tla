-------------------------- MODULE PublicationProofs --------------------------
(***************************************************************************)
(* Proof that FlowInv is an invariant of PublicationFlow, for any          *)
(* documents, workers and bounds, and what follows from it: the targets    *)
(* agree with the tables.                                                  *)
(***************************************************************************)
EXTENDS PublicationInvariant, EnhancementStoreProofs, TransitionStoreProofs

-----------------------------------------------------------------------------
(* What a step may do, to the tables and to a worker. *)

\* To the documents and the jobs: no job is forgotten, no old request becomes
\* current again, and a document is withdrawn when it has no row.
StoreMove ==
    /\ StoreTypeOK'
    /\ RequestsInv'
    /\ \A j \in JobIds : Known(j) => Known(j)'
    /\ \A j \in JobIds : Known(j) /\ docs'[DocOf(j)].request = RequestOf(j) =>
                             docs[DocOf(j)].request = RequestOf(j)
    /\ \A d \in Docs : docs'[d].status = "NotEnabled" =>
         ~docs'[d].desired /\ (docs[d].status = "NotEnabled" \/ RowsOf(d) = {})

\* To the rows outside P: a request announces a removal or takes one back, and a
\* failure is recorded; rows are only created for documents that are wanted.
RowsMove(P) ==
    /\ rows' \in [Pairs -> Publication]
    /\ fresh' \subseteq Workers \X Pairs
    /\ remote' \in [Pairs -> RequestIds]
    /\ \A p \in Pairs \ P :
         /\ remote'[p] = remote[p]
         /\ rows'[p] = rows[p] \/ (HasRow(p) /\ rows'[p].status \in {"removing", "failed"})
    /\ \A p \in Pairs :
         HasRow(p)' => HasRow(p) \/ (docs[RowDoc(p)].desired /\ docs' = docs)
    /\ \/ rows' = rows
       \/ \A d \in Docs : docs'[d].status = "NotEnabled" => docs[d].status = "NotEnabled"

\* What the tables say of one pair.
PairAgrees(p) ==
    /\ rows[p].status = "ready" => remote[p] = rows[p].content
    /\ remote[p] # NoRequest => HasRow(p)

\* What is left of the types.
OthersTyped ==
    /\ TransitionTypeOK
    /\ republish \subseteq Pairs \X (0..MaxGeneration)
    /\ faults \in 0..MaxFaults

\* The workers outside A stay where they are, those in A keep what they rely on.
WorkersMove(A) ==
    /\ work' \in [Workers -> Locals]
    /\ lock' \in [Workers -> Pairs \cup {None}]
    /\ LocksInv'
    /\ \A v \in Workers \ A : work'[v] = work[v] /\ lock'[v] = lock[v]
    /\ \A w \in A : /\ InScope(w)' /\ PairInv(w)' /\ DeleteSeesRows(w)'
                    /\ \A p \in Pairs : p = lock[w] => PairAgrees(p)'

-----------------------------------------------------------------------------
(* The parts of the invariant that a step keeps by moving as above. *)

LEMMA PairsAgree == FlowInv <=> FlowInv /\ \A p \in Pairs : PairAgrees(p)
BY DEF FlowInv, PairAgrees, ReadyRowsArePublished, PublishedHasRow

\* A worker that stays where it is keeps its scope.
LEMMA ScopeStays ==
    ASSUME FlowInv, StoreMove, NEW v \in Workers, work'[v] = work[v]
    PROVE  InScope(v)'
<1>1. InScope(v)
  BY DEF FlowInv
<1>2. work[v].job \in JobIds \cup {None}
  BY DEF FlowInv, TypeOK, Locals
<1>3. ~IsPass(v) => Known(work[v].job)'
  BY <1>1, <1>2 DEF StoreMove, InScope, IsPass
<1> QED  BY <1>1, <1>3 DEF InScope, IsPass, IsDelete, Known

\* Its pair is its own: nobody else moves the row but as a request may.
LEMMA PairStays ==
    ASSUME FlowInv, NEW P \in SUBSET Pairs, RowsMove(P), NEW v \in Workers,
           work'[v] = work[v], lock'[v] = lock[v], lock[v] \notin P
    PROVE  PairInv(v)'
<1>1. PairInv(v)
  BY DEF FlowInv
<1>2. CASE work[v].pc \in LockLabels
  <2>1. lock[v] \in Pairs
    BY <1>2 DEF FlowInv, LocksInv, TypeOK
  <2> DEFINE p == lock[v]
  <2>2. p \in Pairs \ P
    BY <2>1
  <2>3. /\ remote'[p] = remote[p]
        /\ rows'[p] = rows[p] \/ (HasRow(p) /\ rows'[p].status \in {"removing", "failed"})
    BY <2>2 DEF RowsMove
  <2> QED  BY <1>1, <2>3 DEF PairInv, ThePair, TheRequest, HasRow
<1>3. CASE work[v].pc \notin LockLabels
  BY <1>3 DEF PairInv, LockLabels, PublishLabels, RemoveLabels
<1> QED  BY <1>2, <1>3

\* No row is created behind a delete that is current: its document is not wanted.
LEMMA SightStays ==
    ASSUME FlowInv, StoreMove, NEW P, RowsMove(P), NEW v \in Workers,
           work'[v] = work[v]
    PROVE  DeleteSeesRows(v)'
<1> SUFFICES ASSUME ~IsPass(v)', IsDelete(v)', StillCurrent(v)',
                    work'[v].pc \in (RemoveLabels \ {"conflict"}) \cup {"targets"}
             PROVE  RowsOf(TheDoc(v))' \subseteq work'[v].todo
  BY DEF DeleteSeesRows
<1> DEFINE j == work[v].job
<1>1. ~IsPass(v) /\ IsDelete(v) /\ j \in JobIds
  BY DEF IsPass, IsDelete, FlowInv, TypeOK, Locals
<1>2. Known(j)
  BY <1>1 DEF FlowInv, InScope
<1>3. StillCurrent(v)
  BY <1>1, <1>2 DEF StoreMove, StillCurrent, RequestIsCurrent, TheDoc, TheRequest
<1>4. RowsOf(TheDoc(v)) \subseteq work[v].todo
  BY <1>1, <1>3 DEF FlowInv, DeleteSeesRows
<1>5. ~docs[TheDoc(v)].desired
  BY <1>1, <1>2, <1>3 DEF FlowInv, RequestsInv, StillCurrent, RequestIsCurrent, TheDoc,
     TheRequest, IsDelete
<1>6. TheDoc(v)' = TheDoc(v)
  BY DEF TheDoc
<1>7. ASSUME NEW p \in Pairs, RowDoc(p) = TheDoc(v), HasRow(p)'
      PROVE  p \in work[v].todo
  <2>1. HasRow(p)
    BY <1>5, <1>7 DEF RowsMove
  <2> QED  BY <1>4, <1>7, <2>1 DEF RowsOf
<1> QED  BY <1>6, <1>7 DEF RowsOf

LEMMA WithdrawalsStay ==
    ASSUME FlowInv, StoreMove, NEW P, RowsMove(P)
    PROVE  WithdrawnHasNoRow'
<1> SUFFICES ASSUME NEW d \in Docs, docs'[d].status = "NotEnabled"
             PROVE  ~docs'[d].desired /\ \A p \in Pairs : RowDoc(p) = d => ~HasRow(p)'
  BY DEF WithdrawnHasNoRow, RowsOf
<1>1. ~docs'[d].desired /\ (docs[d].status = "NotEnabled" \/ RowsOf(d) = {})
  BY DEF StoreMove
<1>2. CASE docs[d].status = "NotEnabled"
  <2>1. ~docs[d].desired /\ RowsOf(d) = {}
    BY <1>2 DEF FlowInv, WithdrawnHasNoRow
  <2> QED  BY <1>1, <2>1 DEF RowsMove, RowsOf
<1>3. CASE docs[d].status # "NotEnabled"
  <2>1. rows' = rows /\ RowsOf(d) = {}
    BY <1>1, <1>3 DEF RowsMove
  <2> QED  BY <1>1, <2>1 DEF RowsOf, HasRow
<1> QED  BY <1>2, <1>3

\* A step that moves so keeps the whole invariant.
LEMMA MovesKeep ==
    ASSUME FlowInv, NEW A \in SUBSET Workers,
           NEW P \in SUBSET Pairs, P = {lock[w] : w \in A} \ {None},
           StoreMove, RowsMove(P), WorkersMove(A), OthersTyped'
    PROVE  FlowInv'
<1>1. TypeOK'
  BY DEF TypeOK, PublicationTypeOK, StoreMove, RowsMove, WorkersMove, OthersTyped
<1>2. LocksInv' /\ RequestsInv'
  BY DEF WorkersMove, StoreMove
<1>3. ASSUME NEW v \in Workers \ A
      PROVE  InScope(v)' /\ PairInv(v)' /\ DeleteSeesRows(v)'
  <2>1. work'[v] = work[v] /\ lock'[v] = lock[v]
    BY DEF WorkersMove
  <2>2. lock[v] \notin P
    BY <1>3 DEF FlowInv, LocksInv
  <2> QED  BY <2>1, <2>2, ScopeStays, PairStays, SightStays
<1>4. \A v \in Workers : InScope(v)' /\ PairInv(v)' /\ DeleteSeesRows(v)'
  BY <1>3 DEF WorkersMove
<1>5. ASSUME NEW p \in Pairs
      PROVE  PairAgrees(p)'
  <2>1. CASE p \in P
    BY <2>1 DEF WorkersMove
  <2>2. CASE p \notin P
    <3>1. PairAgrees(p)
      BY PairsAgree
    <3>2. /\ remote'[p] = remote[p]
          /\ rows'[p] = rows[p] \/ (HasRow(p) /\ rows'[p].status \in {"removing", "failed"})
      BY <2>2 DEF RowsMove
    <3> QED  BY <3>1, <3>2 DEF PairAgrees, HasRow
  <2> QED  BY <2>1, <2>2
<1>6. ReadyRowsArePublished' /\ PublishedHasRow'
  BY <1>5 DEF PairAgrees, ReadyRowsArePublished, PublishedHasRow
<1> QED  BY <1>1, <1>2, <1>4, <1>6, WithdrawalsStay DEF FlowInv

-----------------------------------------------------------------------------
(* The step of one worker. *)

\* The pair a worker may write: the one it has locked.
Own(w) == {lock[w]} \ {None}

\* It is somewhere, and so are its locks.
Placed(w) ==
    /\ work' \in [Workers -> Locals]
    /\ lock' \in [Workers -> Pairs \cup {None}]
    /\ LocksInv'
    /\ \A v \in Workers \ {w} : work'[v] = work[v] /\ lock'[v] = lock[v]

\* It has what it relies on.
Stands(w) == InScope(w) /\ PairInv(w) /\ DeleteSeesRows(w)

LEMMA StepKeeps ==
    ASSUME FlowInv, NEW w \in Workers,
           StoreMove, RowsMove(Own(w)), Placed(w), Stands(w)', OthersTyped',
           \A p \in Pairs : p = lock[w] => PairAgrees(p)'
    PROVE  FlowInv'
<1>1. Own(w) \in SUBSET Pairs
  BY DEF FlowInv, TypeOK, Own
<1>2. Own(w) = {lock[v] : v \in {w}} \ {None}
  BY DEF Own
<1>3. WorkersMove({w})
  BY DEF WorkersMove, Placed, Stands
<1> QED  BY <1>1, <1>2, <1>3, MovesKeep

\* A step of nobody: a request, the administrator, or time.
LEMMA NobodyKeeps ==
    ASSUME FlowInv, StoreMove, RowsMove({}), UNCHANGED <<work, lock>>, OthersTyped'
    PROVE  FlowInv'
<1> DEFINE A == {}
<1>1. WorkersMove(A)
  BY DEF WorkersMove, FlowInv, TypeOK, LocksInv
<1>2. A \in SUBSET Workers /\ {} \in SUBSET Pairs /\ {} = {lock[w] : w \in A} \ {None}
  OBVIOUS
<1> HIDE DEF A
<1> QED  BY <1>1, <1>2, MovesKeep

-----------------------------------------------------------------------------
(* Steps that leave tables alone. *)

LEMMA StoreStays ==
    ASSUME FlowInv, UNCHANGED storeVars
    PROVE  StoreMove
<1> USE DEF storeVars
<1>1. StoreTypeOK' /\ RequestsInv'
  BY DEF FlowInv, TypeOK, PublicationTypeOK, StoreTypeOK, RequestsInv, Known
<1>2. \A d \in Docs : docs'[d].status = "NotEnabled" => ~docs'[d].desired
  BY DEF FlowInv, WithdrawnHasNoRow
<1> QED  BY <1>1, <1>2 DEF StoreMove, Known

\* A job that changes hands stays a job.
LEMMA JobsMove ==
    ASSUME FlowInv, UNCHANGED <<docs, lastRequest>>, jobs' \in [JobIds -> Job],
           \A j \in JobIds : Known(j)' <=> Known(j)
    PROVE  StoreMove
<1>1. StoreTypeOK'
  BY DEF FlowInv, TypeOK, PublicationTypeOK, StoreTypeOK
<1>2. RequestsInv'
  BY DEF FlowInv, RequestsInv
<1>3. \A d \in Docs : docs'[d].status = "NotEnabled" => ~docs'[d].desired
  BY DEF FlowInv, WithdrawnHasNoRow
<1> QED  BY <1>1, <1>2, <1>3 DEF StoreMove

LEMMA ClaimMoves ==
    ASSUME FlowInv, NEW w \in Workers, NEW j \in JobIds, ClaimJob(w, j),
           UNCHANGED <<docs, lastRequest>>
    PROVE  StoreMove /\ Known(j) /\ NextAttempt(j) \in 0..MaxAttempts
<1>1. StoreTypeOK
  BY DEF FlowInv, TypeOK, PublicationTypeOK
<1>2. jobs' \in [JobIds -> Job] /\ NextAttempt(j) \in 0..MaxAttempts
  BY <1>1, ClaimType
<1>3. Known(j)
  BY DEF ClaimJob, Oldest, Claimable, Known
<1>4. \A k \in JobIds : Known(k)' <=> Known(k)
  BY <1>1, <1>3 DEF ClaimJob, Known, StoreTypeOK
<1> QED  BY <1>2, <1>3, <1>4, JobsMove

LEMMA CloseMoves ==
    ASSUME FlowInv, NEW w, NEW j \in JobIds, NEW a,
           NEW status \in {"completed", "cancelled", "failed"}, CloseJob(w, j, a, status),
           UNCHANGED <<docs, lastRequest>>
    PROVE  StoreMove
<1>1. StoreTypeOK
  BY DEF FlowInv, TypeOK, PublicationTypeOK
<1>2. jobs' \in [JobIds -> Job]
  BY <1>1, CloseType DEF JobStatuses
<1>3. \A k \in JobIds : Known(k)' <=> Known(k)
  BY <1>1 DEF CloseJob, JobClaimIsCurrent, Known, StoreTypeOK
<1> QED  BY <1>2, <1>3, JobsMove

LEMMA RowsStay ==
    ASSUME FlowInv, NEW P, UNCHANGED <<rows, remote>>, fresh' \subseteq Workers \X Pairs
    PROVE  RowsMove(P) /\ \A p \in Pairs : PairAgrees(p)'
<1>1. \A p \in Pairs : PairAgrees(p)'
  BY PairsAgree DEF PairAgrees, HasRow
<1>2. RowsMove(P)
  BY DEF RowsMove, FlowInv, TypeOK, PublicationTypeOK, HasRow
<1> QED  BY <1>1, <1>2

LEMMA FreshStays ==
    ASSUME FlowInv
    PROVE  fresh \subseteq Workers \X Pairs
BY DEF FlowInv, TypeOK, PublicationTypeOK

LEMMA OthersStay ==
    ASSUME FlowInv, UNCHANGED <<transition, republish, faults>>
    PROVE  OthersTyped'
BY DEF FlowInv, TypeOK, PublicationTypeOK, TransitionTypeOK, OthersTyped

\* Faults are counted up to their bound.
LEMMA FaultCounted ==
    ASSUME FlowInv, UNCHANGED <<transition, republish>>,
           faults < MaxFaults, faults' = faults + 1
    PROVE  OthersTyped'
<1>1. faults \in 0..MaxFaults
  BY DEF FlowInv, TypeOK
<1>2. faults' \in 0..MaxFaults
  BY <1>1, FaultsAssumption
<1> QED  BY <1>2 DEF FlowInv, TypeOK, PublicationTypeOK, TransitionTypeOK, OthersTyped

\* A status the worker sets, or the transition as it was.
LEMMA StatusTyped ==
    ASSUME FlowInv, UNCHANGED <<republish, faults>>,
           transition' \in Transition
    PROVE  OthersTyped'
BY DEF FlowInv, TypeOK, TransitionTypeOK, OthersTyped

-----------------------------------------------------------------------------
(* Where a worker goes. *)

\* The labels at which no job and no pass holds a lock or looks for rows.
RestLabels ==
    {"claimed", "complete", "stale", "cancel", "error", "record_error", "fail_job"}

LEMMA LocalsOf ==
    ASSUME FlowInv, NEW w \in Workers
    PROVE  /\ work \in [Workers -> Locals] /\ work[w] \in Locals
           /\ lock \in [Workers -> Pairs \cup {None}]
           /\ lock[w] # None => lock[w] \in Pairs
           /\ lock[w] # None <=> work[w].pc \in LockLabels
           /\ InScope(w) /\ PairInv(w) /\ DeleteSeesRows(w)
BY DEF FlowInv, TypeOK, LocksInv

LEMMA Places ==
    ASSUME FlowInv, NEW w \in Workers, NEW l \in Locals, NEW k \in Pairs \cup {None},
           work' = [work EXCEPT ![w] = l], lock' = [lock EXCEPT ![w] = k],
           k # None <=> l.pc \in LockLabels,
           k \in {None, lock[w]} \/ \A v \in Workers : lock[v] # k
    PROVE  Placed(w) /\ work'[w] = l /\ lock'[w] = k
<1>1. /\ work' \in [Workers -> Locals] /\ lock' \in [Workers -> Pairs \cup {None}]
      /\ work'[w] = l /\ lock'[w] = k
      /\ \A v \in Workers \ {w} : work'[v] = work[v] /\ lock'[v] = lock[v]
  BY DEF FlowInv, TypeOK
<1>2. \A v \in Workers : lock'[v] # None <=> work'[v].pc \in LockLabels
  BY <1>1 DEF FlowInv, LocksInv
<1>3. \A u, v \in Workers : u # v /\ lock'[u] # None => lock'[u] # lock'[v]
  BY <1>1 DEF FlowInv, LocksInv
<1> QED  BY <1>1, <1>2, <1>3 DEF Placed, LocksInv

\* The same with the lock kept.
LEMMA PlacesUnderLock ==
    ASSUME FlowInv, NEW w \in Workers, NEW l \in Locals,
           work' = [work EXCEPT ![w] = l], lock' = lock,
           l.pc \in LockLabels <=> work[w].pc \in LockLabels
    PROVE  Placed(w) /\ work'[w] = l /\ lock'[w] = lock[w]
<1>1. lock' = [lock EXCEPT ![w] = lock[w]]
  BY LocalsOf
<1> QED  BY <1>1, LocalsOf, Places

LEMMA GotoPlaces ==
    ASSUME FlowInv, NEW w \in Workers, NEW label \in Labels, Goto(w, label), lock' = lock,
           label \in LockLabels <=> work[w].pc \in LockLabels
    PROVE  /\ Placed(w)
           /\ work'[w] = [work[w] EXCEPT !.pc = label] /\ lock'[w] = lock[w]
<1> DEFINE l == [work[w] EXCEPT !.pc = label]
<1>1. work' = [work EXCEPT ![w] = l]
  BY DEF Goto
<1>2. l \in Locals /\ l.pc = label
  BY LocalsOf DEF Locals
<1> HIDE DEF l
<1>3. Placed(w) /\ work'[w] = l /\ lock'[w] = lock[w]
  BY <1>1, <1>2, PlacesUnderLock
<1> QED  BY <1>3 DEF l

LEMMA GotoReleases ==
    ASSUME FlowInv, NEW w \in Workers, NEW label \in Labels \ LockLabels,
           Goto(w, label), Release(w)
    PROVE  Placed(w) /\ work'[w] = [work[w] EXCEPT !.pc = label] /\ lock'[w] = None
<1> DEFINE l == [work[w] EXCEPT !.pc = label]
<1>1. work' = [work EXCEPT ![w] = l] /\ lock' = [lock EXCEPT ![w] = None]
  BY DEF Goto, Release
<1>2. l \in Locals /\ l.pc = label
  BY LocalsOf DEF Locals
<1> HIDE DEF l
<1>3. Placed(w) /\ work'[w] = l /\ lock'[w] = None
  BY <1>1, <1>2, Places
<1> QED  BY <1>3 DEF l

LEMMA NextPairPlaces ==
    ASSUME FlowInv, NEW w \in Workers, NEW label \in Labels \ LockLabels,
           NextPair(w, label)
    PROVE  /\ Placed(w) /\ lock'[w] = None
           /\ work'[w] = [work[w] EXCEPT !.pc = label, !.todo = work[w].todo \ {lock[w]}]
<1> DEFINE l == [work[w] EXCEPT !.pc = label, !.todo = work[w].todo \ {lock[w]}]
<1>1. work' = [work EXCEPT ![w] = l] /\ lock' = [lock EXCEPT ![w] = None]
  BY DEF NextPair, Release, ThePair
<1>2. l \in Locals /\ l.pc = label
  BY LocalsOf DEF Locals
<1> HIDE DEF l
<1>3. Placed(w) /\ work'[w] = l /\ lock'[w] = None
  BY <1>1, <1>2, Places
<1> QED  BY <1>3 DEF l

\* Without a job and a lock there is nothing to rely on.
LEMMA DropPlaces ==
    ASSUME FlowInv, NEW w \in Workers, Drop(w)
    PROVE  Placed(w) /\ Stands(w)'
<1>1. Idle \in Locals /\ Idle.pc = "idle" /\ Idle.job = None /\ ~Idle.bare
  BY StoreAssumption DEF Idle, Locals, Labels
<1>2. Placed(w) /\ work'[w] = Idle
  BY <1>1, Places DEF Drop, Release, LockLabels, PublishLabels, RemoveLabels
<1> QED  BY <1>1, <1>2 DEF Stands, InScope, PairInv, DeleteSeesRows, IsPass, PassLabels,
    PublishLabels, RemoveLabels

\* A job that is not at a target only relies on its being a job.
LEMMA Rests ==
    ASSUME FlowInv, StoreMove, NEW w \in Workers, NEW label \in RestLabels,
           work'[w] = [work[w] EXCEPT !.pc = label], ~IsPass(w)
    PROVE  Stands(w)'
<1>1. work'[w].pc = label /\ work'[w].job = work[w].job
  BY LocalsOf DEF Locals
<1>2. work[w].job \in JobIds /\ Known(work[w].job)
  BY LocalsOf DEF Locals, IsPass, InScope
<1>3. Known(work[w].job)'
  BY <1>2 DEF StoreMove
<1> QED  BY <1>1, <1>2, <1>3 DEF Stands, InScope, PairInv, DeleteSeesRows, IsPass,
    PassLabels, PublishLabels, RemoveLabels, RestLabels, Known

\* A job that leaves its pair.
LEMMA RestKeeps ==
    ASSUME FlowInv, NEW w \in Workers, NEW label \in RestLabels, Goto(w, label),
           Release(w) \/ (lock' = lock /\ work[w].pc \notin LockLabels),
           ~IsPass(w), StoreMove, RowsMove(Own(w)), OthersTyped',
           \A p \in Pairs : p = lock[w] => PairAgrees(p)'
    PROVE  FlowInv'
<1>1. label \in Labels \ LockLabels
  BY DEF RestLabels, Labels, LockLabels, PublishLabels, RemoveLabels
<1>2. Placed(w) /\ work'[w] = [work[w] EXCEPT !.pc = label]
  BY <1>1, GotoReleases, GotoPlaces
<1>3. Stands(w)'
  BY <1>2, Rests
<1> QED  BY <1>2, <1>3, StepKeeps

LEMMA DropKeeps ==
    ASSUME FlowInv, NEW w \in Workers, Drop(w), StoreMove, RowsMove(Own(w)), OthersTyped',
           \A p \in Pairs : p = lock[w] => PairAgrees(p)'
    PROVE  FlowInv'
BY DropPlaces, StepKeeps

\* A job has no lock, and works on a job, from its outcome on.
LEMMA JobAt ==
    ASSUME FlowInv, NEW w \in Workers
    PROVE  /\ work[w].pc \in RestLabels \cup {"process", "targets"}
                => ~IsPass(w) /\ work[w].pc \notin LockLabels
           /\ work[w].pc \in PublishLabels => ~IsPass(w) /\ ~IsDelete(w)
           /\ ~IsPass(w) => work[w].job \in JobIds
           /\ work[w].pc \in LockLabels => lock[w] \in Pairs /\ lock[w] # None
           /\ work[w].pc \notin LockLabels => lock[w] = None
BY LocalsOf DEF InScope, IsPass, Locals, RestLabels, LockLabels, PublishLabels,
   RemoveLabels, PassLabels

LEMMA JobParts ==
    ASSUME NEW j \in JobIds
    PROVE  /\ DocOf(j) \in Docs /\ RequestOf(j) \in Requests /\ TypeOf(j) \in JobTypes
           /\ RequestOf(j) \in RequestIds /\ RequestOf(j) # NoRequest
BY StoreAssumption DEF JobIds, DocOf, RequestOf, TypeOf, Requests, RequestIds, NoRequest

-----------------------------------------------------------------------------
(* The outcomes of a job. *)

LEMMA BeginJobKeeps ==
    ASSUME FlowInv, NEW w \in Workers, BeginJob(w)
    PROVE  FlowInv'
<1> DEFINE label == IF docs[TheDoc(w)].processed = TheRequest(w) THEN "complete"
                    ELSE IF ~StillCurrent(w) THEN "stale"
                    ELSE IF ~IsDelete(w) THEN "process"
                    ELSE IF ClaimIsCurrent(w) THEN "targets" ELSE "stale"
           row    == IF IsDelete(w) THEN None ELSE transition
           found  == IF ~IsDelete(w) THEN {}
                     ELSE IF RowsOf(TheDoc(w)) # {} THEN RowsOf(TheDoc(w))
                     ELSE {<<TheDoc(w), EffectiveTarget(transition)>>} \cap Pairs
           bare   == IsDelete(w) /\ RowsOf(TheDoc(w)) = {}
           l      == [work[w] EXCEPT !.pc = label, !.seen = row, !.bare = bare,
                                     !.todo = found]
<1>1. ~IsPass(w) /\ work[w].pc = "claimed" /\ lock[w] = None /\ work[w].job \in JobIds
  BY JobAt DEF BeginJob, At, RestLabels
<1>2. /\ label \in {"complete", "stale", "process", "targets"}
      /\ label = "process" => ~IsDelete(w)
      /\ label = "targets" => IsDelete(w)
  OBVIOUS
<1>3. row \in Transition \cup {None} /\ (~IsDelete(w) => row \in Transition)
  BY DEF FlowInv, TypeOK, PublicationTypeOK, TransitionTypeOK
<1>4. /\ found \in SUBSET Pairs /\ bare \in BOOLEAN
      /\ IsDelete(w) => RowsOf(TheDoc(w)) \subseteq found
  BY DEF RowsOf
<1>5. work' = [work EXCEPT ![w] = l] /\ lock' = lock
  BY Zenon DEF BeginJob
<1> HIDE DEF label, row, found, bare
<1>6. l \in Locals /\ l.pc = label /\ l.job = work[w].job /\ l.seen = row
      /\ l.bare = bare /\ l.todo = found
  BY <1>2, <1>3, <1>4, LocalsOf DEF Locals, Labels
<1> HIDE DEF l
<1>7. label \notin LockLabels /\ work[w].pc \notin LockLabels
  BY <1>1, <1>2 DEF LockLabels, PublishLabels, RemoveLabels
<1>8. Placed(w) /\ work'[w] = l
  BY <1>5, <1>6, <1>7, PlacesUnderLock
<1>9. StoreMove /\ OthersTyped'
  BY StoreStays, OthersStay DEF BeginJob
<1>10. RowsMove(Own(w)) /\ \A p \in Pairs : PairAgrees(p)'
  BY RowsStay, FreshStays DEF BeginJob, publicationVars
<1>11. Stands(w)'
  <2>1. InScope(w)'
    <3>1. Known(work[w].job)'
      BY <1>1, <1>6, <1>8, <1>9, LocalsOf DEF StoreMove, InScope
    <3> QED  BY <1>1, <1>2, <1>3, <1>6, <1>8, <3>1 DEF InScope, IsPass, IsDelete, Known,
        PassLabels, PublishLabels, RemoveLabels
  <2>2. PairInv(w)'
    BY <1>2, <1>6, <1>8 DEF PairInv
  <2>3. DeleteSeesRows(w)'
    <3>1. RowsOf(TheDoc(w))' = RowsOf(TheDoc(w))
      BY <1>6, <1>8 DEF RowsOf, HasRow, TheDoc, BeginJob, publicationVars
    <3> QED  BY <1>4, <1>6, <1>8, <3>1 DEF DeleteSeesRows, IsDelete
  <2> QED  BY <2>1, <2>2, <2>3 DEF Stands
<1> QED  BY <1>8, <1>9, <1>10, <1>11, StepKeeps

\* record_success and record_removed: the intent was the request's already.
LEMMA CommitKeeps ==
    ASSUME FlowInv, NEW w \in Workers, Commit(w)
    PROVE  FlowInv'
<1> DEFINE j == work[w].job
<1>1. ~IsPass(w) /\ j \in JobIds /\ work[w].pc = "targets" /\ work[w].todo = {}
      /\ Known(j) /\ work[w].pc \notin LockLabels /\ lock' = lock
  BY JobAt, LocalsOf DEF Commit, At, InScope
<1>2. UNCHANGED <<jobs, lastRequest, rows, fresh, remote, transition, republish, faults>>
  BY DEF Commit, publicationVars
<1>3. RowsMove(Own(w)) /\ \A p \in Pairs : PairAgrees(p)'
  BY <1>2, RowsStay, FreshStays
<1>4. OthersTyped'
  BY <1>2, OthersStay
<1>5. CASE StillCurrent(w) /\ ClaimIsCurrent(w)
  <2> DEFINE d == TheDoc(w)
  <2>1. d \in Docs /\ TheRequest(w) \in RequestIds /\ docs[d].request = TheRequest(w)
    BY <1>1, <1>5, JobParts DEF TheDoc, TheRequest, StillCurrent, RequestIsCurrent
  <2>2. IF IsDelete(w) THEN RecordRemoved(d, TheRequest(w))
                       ELSE RecordSuccess(d, TheRequest(w))
    BY <1>5 DEF Commit
  <2>3. docs' \in [Docs -> Document]
    BY <2>1, <2>2, OutcomeType DEF FlowInv, TypeOK, PublicationTypeOK
  <2>4. docs[d].desired <=> ~IsDelete(w)
    BY <1>1, <2>1, JobParts DEF FlowInv, RequestsInv, TheDoc, TheRequest, IsDelete, JobTypes
  <2>5. \A e \in Docs : /\ docs'[e].request = docs[e].request
                        /\ docs'[e].desired <=> docs[e].desired
                        /\ e # d => docs'[e] = docs[e]
    <3>1. docs \in [Docs -> Document] /\ docs[d].desired \in BOOLEAN
      BY <2>1 DEF FlowInv, TypeOK, PublicationTypeOK, StoreTypeOK, Document
    <3>2. CASE IsDelete(w)
      <4>1. RecordRemoved(d, TheRequest(w)) /\ docs[d].desired = FALSE
        BY <2>2, <2>4, <3>1, <3>2
      <4> QED  BY <2>1, <3>1, <4>1 DEF RecordRemoved, Document
    <3>3. CASE ~IsDelete(w)
      <4>1. RecordSuccess(d, TheRequest(w)) /\ docs[d].desired = TRUE
        BY <2>2, <2>4, <3>1, <3>3
      <4> QED  BY <2>1, <3>1, <4>1 DEF RecordSuccess, Document
    <3> QED  BY <3>2, <3>3
  <2>6. docs'[d].status = IF IsDelete(w) THEN "NotEnabled" ELSE "Ready"
    BY <2>1, <2>2 DEF RecordRemoved, RecordSuccess, FlowInv, TypeOK, PublicationTypeOK,
       StoreTypeOK, Document
  <2>7. IsDelete(w) => RowsOf(d) = {}
    BY <1>1, <1>5, LocalsOf DEF DeleteSeesRows
  <2>8. RequestsInv'
    BY <1>2, <2>5, JobParts DEF FlowInv, RequestsInv, Known
  <2>9. StoreTypeOK'
    BY <1>2, <2>3 DEF FlowInv, TypeOK, PublicationTypeOK, StoreTypeOK
  <2>10. \A e \in Docs : docs'[e].status = "NotEnabled" =>
           ~docs'[e].desired /\ (docs[e].status = "NotEnabled" \/ RowsOf(e) = {})
    BY <2>4, <2>5, <2>6, <2>7 DEF FlowInv, WithdrawnHasNoRow
  <2>11. StoreMove
    BY <1>2, <2>5, <2>8, <2>9, <2>10, JobParts DEF StoreMove, Known
  <2>12. Goto(w, "complete") /\ "complete" \in RestLabels
    BY <1>5 DEF Commit, RestLabels
  <2> QED  BY <1>1, <1>3, <1>4, <2>11, <2>12, RestKeeps
<1>6. CASE ~(StillCurrent(w) /\ ClaimIsCurrent(w))
  <2>1. Goto(w, "stale") /\ "stale" \in RestLabels /\ UNCHANGED storeVars
    BY <1>2, <1>6 DEF Commit, RestLabels, storeVars
  <2> QED  BY <1>1, <1>3, <1>4, <2>1, StoreStays, RestKeeps
<1> QED  BY <1>5, <1>6

LEMMA CompleteKeeps ==
    ASSUME FlowInv, NEW w \in Workers, Complete(w) \/ Cancel(w) \/ FailJob(w)
    PROVE  FlowInv'
<1>1. work[w].job \in JobIds
  BY JobAt DEF Complete, Cancel, FailJob, At, RestLabels
<1>2. PICK status \in {"completed", "cancelled", "failed"} :
        CloseJob(w, work[w].job, work[w].attempt, status)
  BY DEF Complete, Cancel, FailJob
<1>3. Drop(w) /\ UNCHANGED <<docs, lastRequest, transition, publicationVars, remote,
                             republish, faults>>
  BY DEF Complete, Cancel, FailJob
<1>4. StoreMove
  BY <1>1, <1>2, <1>3, CloseMoves
<1>5. RowsMove(Own(w)) /\ \A p \in Pairs : PairAgrees(p)'
  BY <1>3, RowsStay, FreshStays DEF publicationVars
<1> QED  BY <1>3, <1>4, <1>5, OthersStay, DropKeeps

\* Rows that fail, or whose removal is announced, agree with any target.
LEMMA RowsFail ==
    ASSUME FlowInv, NEW P, UNCHANGED remote,
           rows' \in [Pairs -> Publication], fresh' \subseteq Workers \X Pairs,
           \A p \in Pairs : \/ rows'[p] = rows[p]
                            \/ HasRow(p) /\ rows'[p].status \in {"removing", "failed"},
           \A d \in Docs : docs'[d].status = "NotEnabled" => docs[d].status = "NotEnabled"
    PROVE  RowsMove(P) /\ \A p \in Pairs : PairAgrees(p)'
<1>1. \A p \in Pairs : HasRow(p)' <=> HasRow(p)
  BY DEF HasRow
<1>2. \A p \in Pairs : PairAgrees(p)'
  BY <1>1, PairsAgree DEF PairAgrees
<1>3. RowsMove(P)
  BY <1>1 DEF RowsMove, FlowInv, TypeOK
<1> QED  BY <1>2, <1>3

LEMMA NoOperationType == NoOperation \in OperationIds /\ NoRow \in Publication
<1>1. 0 \in 0..MaxRequests /\ 0 \in 0..MaxAttempts /\ 0 \in 0..MaxGeneration
  BY StoreAssumption, GenerationAssumption
<1>2. NoOperation \in OperationIds
  BY <1>1 DEF NoOperation, OperationIds, RequestIds, NoRequest
<1> QED  BY <1>1, <1>2 DEF NoRow, Publication, RowStatuses, RequestIds, NoRequest

LEMMA FailRowType ==
    ASSUME NEW row \in Publication
    PROVE  /\ FailRow(row) \in Publication /\ FailRow(row).status = "failed"
           /\ FailRow(row).content = row.content /\ FailRow(row).generation = row.generation
<1> DEFINE none == NoOperation
<1>1. none \in OperationIds
  BY NoOperationType
<1>2. FailRow(row) = [row EXCEPT !.status = "failed", !.operation = none]
  BY DEF FailRow
<1> HIDE DEF none
<1> QED  BY <1>1, <1>2 DEF Publication, RowStatuses

LEMMA UnreadType ==
    ASSUME FlowInv, NEW P
    PROVE  Unread(P) \subseteq Workers \X Pairs
BY FreshStays DEF Unread

\* What a failure that is recorded does to the rows.
LEMMA FailuresRecorded ==
    ASSUME FlowInv,
           \/ \E o : FailPendingForOperation(o)
           \/ \E p \in Pairs : \E g, o : RecordPublicationError(p, g, o)
    PROVE  /\ rows' \in [Pairs -> Publication]
           /\ fresh' \subseteq Workers \X Pairs
           /\ \A p \in Pairs : \/ rows'[p] = rows[p]
                               \/ HasRow(p) /\ rows'[p].status \in {"removing", "failed"}
<1>1. rows \in [Pairs -> Publication]
  BY DEF FlowInv, TypeOK, PublicationTypeOK
<1>2. CASE \E o : FailPendingForOperation(o)
  <2>1. PICK o : FailPendingForOperation(o)
    BY <1>2
  <2> QED  BY <1>1, <2>1, FailRowType, UnreadType DEF FailPendingForOperation, HasRow
<1>3. CASE \E p \in Pairs : \E g, o : RecordPublicationError(p, g, o)
  <2>0. PICK p \in Pairs : \E g, o : RecordPublicationError(p, g, o)
    BY <1>3
  <2>1. PICK g, o : RecordPublicationError(p, g, o)
    BY <2>0
  <2>2. CASE OperationIsPending(p, g, o)
    <3>1. rows' = [rows EXCEPT ![p] = FailRow(rows[p])] /\ fresh' = Unread({p})
      BY <2>1, <2>2 DEF RecordPublicationError
    <3> QED  BY <1>1, <2>2, <3>1, FailRowType, UnreadType DEF OperationIsPending, HasRow
  <2>3. CASE ~OperationIsPending(p, g, o)
    BY <1>1, <2>1, <2>3, FreshStays DEF RecordPublicationError, publicationVars
  <2> QED  BY <2>2, <2>3
<1> QED  BY <1>2, <1>3

LEMMA FailuresMove ==
    ASSUME FlowInv, NEW P, UNCHANGED <<docs, remote>>,
           \/ \E o : FailPendingForOperation(o)
           \/ \E p \in Pairs : \E g, o : RecordPublicationError(p, g, o)
    PROVE  RowsMove(P) /\ \A p \in Pairs : PairAgrees(p)'
BY FailuresRecorded, RowsFail

LEMMA StaleKeeps ==
    ASSUME FlowInv, NEW w \in Workers, Stale(w)
    PROVE  FlowInv'
<1>1. ~IsPass(w) /\ work[w].pc \notin LockLabels /\ lock' = lock
  BY JobAt DEF Stale, At, RestLabels
<1>2. Goto(w, "cancel") /\ "cancel" \in RestLabels
  BY DEF Stale, RestLabels
<1>3. RowsMove(Own(w)) /\ \A p \in Pairs : PairAgrees(p)'
  BY FailuresMove DEF Stale, storeVars
<1>4. StoreMove /\ OthersTyped'
  BY StoreStays, OthersStay DEF Stale
<1> QED  BY <1>1, <1>2, <1>3, <1>4, RestKeeps

LEMMA JudgeErrorKeeps ==
    ASSUME FlowInv, NEW w \in Workers, JudgeError(w)
    PROVE  FlowInv'
<1>1. ~IsPass(w) /\ work[w].pc \notin LockLabels /\ lock' = lock
  BY JobAt DEF JudgeError, At, RestLabels
<1>2. PICK label \in {"record_error", "stale"} : Goto(w, label)
  BY DEF JudgeError
<1>3. RowsMove(Own(w)) /\ \A p \in Pairs : PairAgrees(p)'
  BY RowsStay, FreshStays DEF JudgeError, publicationVars
<1>4. StoreMove /\ OthersTyped'
  BY StoreStays, OthersStay DEF JudgeError
<1> QED  BY <1>1, <1>2, <1>3, <1>4, RestKeeps DEF RestLabels

LEMMA RecordErrorKeeps ==
    ASSUME FlowInv, NEW w \in Workers, RecordError(w)
    PROVE  FlowInv'
<1>1. ~IsPass(w) /\ work[w].pc \notin LockLabels /\ work[w].job \in JobIds
  BY JobAt DEF RecordError, At, RestLabels
<1>2. UNCHANGED <<jobs, lastRequest, rows, fresh, remote, transition, republish, faults>>
  BY DEF RecordError, publicationVars
<1>3. RowsMove(Own(w)) /\ \A p \in Pairs : PairAgrees(p)'
  BY <1>2, RowsStay, FreshStays
<1>4. OthersTyped'
  BY <1>2, OthersStay
<1>5. CASE UNCHANGED docs /\ Drop(w)
  BY <1>2, <1>3, <1>4, <1>5, StoreStays, DropKeeps DEF storeVars
<1>6. CASE RecordDocumentError(TheDoc(w)) /\ Goto(w, "fail_job") /\ UNCHANGED lock
  <2> DEFINE d == TheDoc(w)
  <2>1. d \in Docs
    BY <1>1, JobParts DEF TheDoc
  <2>2. docs' = [docs EXCEPT ![d].status = "Failed"]
    BY <1>6 DEF RecordDocumentError
  <2>3. docs' \in [Docs -> Document]
    BY <2>1, <2>2 DEF FlowInv, TypeOK, PublicationTypeOK, StoreTypeOK, Document, DocStatuses
  <2>4. \A e \in Docs : /\ docs'[e].request = docs[e].request
                        /\ docs'[e].desired = docs[e].desired
                        /\ docs'[e].status = "NotEnabled" => docs[e].status = "NotEnabled"
    BY <2>1, <2>2 DEF FlowInv, TypeOK, PublicationTypeOK, StoreTypeOK, Document
  <2>5. RequestsInv'
    BY <1>2, <2>4, JobParts DEF FlowInv, RequestsInv, Known
  <2>6. \A e \in Docs : docs'[e].status = "NotEnabled" =>
           ~docs'[e].desired /\ docs[e].status = "NotEnabled"
    BY <2>4 DEF FlowInv, WithdrawnHasNoRow
  <2>7. StoreTypeOK'
    BY <1>2, <2>3 DEF FlowInv, TypeOK, PublicationTypeOK, StoreTypeOK
  <2>8. StoreMove
    BY <1>2, <2>4, <2>5, <2>6, <2>7, JobParts DEF StoreMove, Known
  <2>9. "fail_job" \in RestLabels
    BY DEF RestLabels
  <2> QED  BY <1>1, <1>3, <1>4, <1>6, <2>8, <2>9, RestKeeps
<1> QED  BY <1>5, <1>6 DEF RecordError

-----------------------------------------------------------------------------
(* A job that publishes. *)

LEMMA TargetsPublished ==
    ASSUME NEW t \in Transition
    PROVE  PublicationTargets(t) \subseteq PublishedTargets
BY DEF PublicationTargets, EffectiveTarget, PublishedTargets, Transition

LEMMA ProcessKeeps ==
    ASSUME FlowInv, NEW w \in Workers, Process(w)
    PROVE  FlowInv'
<1> DEFINE label == IF EffectiveTarget(work[w].seen) = "unset" THEN "error"
                    ELSE IF StillCurrent(w) /\ Matches(work[w].seen, work[w].seen.status)
                    THEN "targets" ELSE "stale"
           pairs == {<<TheDoc(w), t>> : t \in PublicationTargets(work[w].seen)}
           l     == [work[w] EXCEPT !.pc = label, !.todo = pairs]
<1>1. /\ ~IsPass(w) /\ work[w].pc = "process" /\ work[w].job \in JobIds
      /\ Known(work[w].job) /\ ~IsDelete(w) /\ work[w].seen \in Transition
  BY JobAt, LocalsOf DEF Process, At, InScope
<1>2. label \in {"error", "targets", "stale"}
  OBVIOUS
<1>3. pairs \in SUBSET Pairs
  BY <1>1, TargetsPublished, JobParts DEF TheDoc, Pairs
<1>4. work' = [work EXCEPT ![w] = l] /\ lock' = lock
  BY Zenon DEF Process
<1> HIDE DEF label, pairs
<1>5. l \in Locals /\ l.pc = label /\ l.job = work[w].job /\ l.seen = work[w].seen
      /\ l.bare = work[w].bare
  BY <1>2, <1>3, LocalsOf DEF Locals, Labels
<1> HIDE DEF l
<1>6. label \notin LockLabels /\ work[w].pc \notin LockLabels
  BY <1>1, <1>2 DEF LockLabels, PublishLabels, RemoveLabels
<1>7. Placed(w) /\ work'[w] = l
  BY <1>4, <1>5, <1>6, PlacesUnderLock
<1>8. StoreMove /\ OthersTyped'
  BY StoreStays, OthersStay DEF Process
<1>9. RowsMove(Own(w)) /\ \A p \in Pairs : PairAgrees(p)'
  BY RowsStay, FreshStays DEF Process, publicationVars
<1>10. Stands(w)'
  <2>1. Known(work[w].job)'
    BY <1>1, <1>5, <1>7, <1>8 DEF StoreMove
  <2>2. InScope(w)'
    BY <1>1, <1>2, <1>5, <1>7, <2>1 DEF InScope, IsPass, IsDelete, Known,
       PassLabels, PublishLabels, RemoveLabels
  <2>3. PairInv(w)' /\ DeleteSeesRows(w)'
    BY <1>1, <1>2, <1>5, <1>7 DEF PairInv, DeleteSeesRows, IsDelete
  <2> QED  BY <2>2, <2>3 DEF Stands
<1> QED  BY <1>7, <1>8, <1>9, <1>10, StepKeeps

LEMMA LockKeeps ==
    ASSUME FlowInv, NEW w \in Workers, Lock(w)
    PROVE  FlowInv'
<1>1. PICK p \in Pairs : EnterLock(w, p)
  BY DEF Lock
<1>2. PICK label \in {"fence", "guard"} :
        /\ Goto(w, label)
        /\ work[w].pc \in {"targets", "clean"}
        /\ label = "guard" <=> (work[w].pc = "targets" /\ ~IsDelete(w))
  BY DEF Lock, At
<1> DEFINE l == [work[w] EXCEPT !.pc = label]
<1>3. work' = [work EXCEPT ![w] = l] /\ lock' = [lock EXCEPT ![w] = p]
  BY <1>1, <1>2 DEF Goto, EnterLock
<1>4. l \in Locals /\ l.pc = label /\ l.job = work[w].job /\ l.seen = work[w].seen
      /\ l.bare = work[w].bare /\ l.todo = work[w].todo
  BY <1>2, LocalsOf DEF Locals, Labels
<1> HIDE DEF l
<1>5. label \in LockLabels /\ p # None /\ \A v \in Workers : lock[v] # p
  BY <1>1, NullAssumption DEF LockLabels, PublishLabels, RemoveLabels, EnterLock
<1>6. Placed(w) /\ work'[w] = l
  BY <1>3, <1>4, <1>5, Places
<1>7. StoreMove /\ OthersTyped'
  BY StoreStays, OthersStay DEF Lock
<1>8. RowsMove(Own(w)) /\ \A q \in Pairs : PairAgrees(q)'
  BY RowsStay, FreshStays DEF Lock, publicationVars
<1>9. Stands(w)'
  <2>1. InScope(w) /\ DeleteSeesRows(w)
    BY LocalsOf
  <2>2. InScope(w)'
    <3>1. ~IsPass(w) => Known(work[w].job)'
      BY <1>4, <1>6, <1>7, <2>1, JobAt DEF StoreMove, InScope
    <3> QED  BY <1>2, <1>4, <1>6, <2>1, <3>1 DEF InScope, IsPass, IsDelete, Known,
        PassLabels, PublishLabels, RemoveLabels
  <2>3. PairInv(w)'
    BY <1>2, <1>4, <1>6 DEF PairInv
  <2>4. DeleteSeesRows(w)'
    <3>1. UNCHANGED <<docs, rows>>
      BY DEF Lock, storeVars, publicationVars
    <3>2. ~IsPass(w) /\ IsDelete(w) => work[w].pc = "targets"
      BY <1>2, <2>1 DEF InScope, PassLabels
    <3> QED  BY <1>2, <1>4, <1>6, <2>1, <3>1, <3>2 DEF DeleteSeesRows, IsPass, IsDelete,
        StillCurrent, RequestIsCurrent, TheDoc, TheRequest, RowsOf, HasRow
  <2> QED  BY <2>2, <2>3, <2>4 DEF Stands
<1> QED  BY <1>6, <1>7, <1>8, <1>9, StepKeeps

\* A worker that goes on publishing to the pair it has locked.
LEMMA PublishGoesOn ==
    ASSUME FlowInv, StoreMove, NEW w \in Workers, NEW label \in PublishLabels,
           Goto(w, label), lock' = lock, work[w].pc \in PublishLabels
    PROVE  /\ Placed(w) /\ InScope(w)' /\ DeleteSeesRows(w)'
           /\ work'[w] = [work[w] EXCEPT !.pc = label]
           /\ lock'[w] = lock[w] /\ lock[w] \in Pairs /\ Own(w) = {lock[w]}
<1>1. label \in Labels /\ label \in LockLabels /\ work[w].pc \in LockLabels
  BY DEF Labels, LockLabels, PublishLabels
<1>2. /\ Placed(w)
      /\ work'[w] = [work[w] EXCEPT !.pc = label] /\ lock'[w] = lock[w]
  BY <1>1, GotoPlaces
<1>3. /\ ~IsPass(w) /\ ~IsDelete(w) /\ work[w].job \in JobIds
      /\ Known(work[w].job) /\ work[w].seen \in Transition
      /\ lock[w] \in Pairs /\ lock[w] # None
  BY <1>1, JobAt, LocalsOf DEF InScope
<1>4. /\ work'[w].pc = label /\ work'[w].job = work[w].job /\ work'[w].seen = work[w].seen
      /\ work'[w].bare = work[w].bare
  BY <1>2, LocalsOf DEF Locals
<1>5. Known(work[w].job)'
  BY <1>3, <1>4 DEF StoreMove
<1>6. InScope(w)'
  BY <1>3, <1>4, <1>5 DEF InScope, IsPass, IsDelete, Known, PassLabels, PublishLabels,
     RemoveLabels
<1>7. DeleteSeesRows(w)'
  BY <1>3, <1>4 DEF DeleteSeesRows, IsDelete
<1> QED  BY <1>2, <1>3, <1>6, <1>7 DEF Own

\* Whoever has the lock writes its row.
LEMMA RowWritten ==
    ASSUME FlowInv, NEW p \in Pairs, NEW row \in Publication,
           rows' = [rows EXCEPT ![p] = row], fresh' = Unread({p}), UNCHANGED <<docs, remote>>,
           row.status # "none" => HasRow(p) \/ docs[RowDoc(p)].desired
    PROVE  RowsMove({p}) /\ rows'[p] = row
<1>1. /\ rows \in [Pairs -> Publication] /\ remote \in [Pairs -> RequestIds]
  BY DEF FlowInv, TypeOK, PublicationTypeOK
<1>2. fresh' \subseteq Workers \X Pairs
  BY UnreadType
<1>3. \A q \in Pairs : rows'[q] = IF q = p THEN row ELSE rows[q]
  BY <1>1
<1>4. \A q \in Pairs : HasRow(q)' => HasRow(q) \/ docs[RowDoc(q)].desired
  BY <1>3 DEF HasRow
<1> QED  BY <1>1, <1>2, <1>3, <1>4 DEF RowsMove

LEMMA OperationType ==
    ASSUME FlowInv, NEW w \in Workers, lock[w] # None
    PROVE  Operation(w) \in OperationIds
<1>1. /\ work[w].job \in JobIds \cup {None} /\ work[w].attempt \in 0..MaxAttempts
      /\ 0 \in 0..MaxAttempts /\ NoRequest \in RequestIds
  BY LocalsOf, StoreAssumption DEF Locals, NoRequest, RequestIds
<1>2. CASE IsPass(w)
  BY <1>1, <1>2 DEF Operation, CleanupOperation, OperationIds
<1>3. CASE ~IsPass(w)
  <2>1. RequestOf(work[w].job) \in RequestIds
    BY <1>1, <1>3, JobParts DEF IsPass
  <2> QED  BY <1>1, <1>3, <2>1 DEF Operation, PublishOperation, RemoveOperation, TheRequest,
      OperationIds
<1> QED  BY <1>2, <1>3

\* record_publication_pending: the document is wanted, or there is a row already.
LEMMA GuardKeeps ==
    ASSUME FlowInv, NEW w \in Workers, Guard(w)
    PROVE  FlowInv'
<1>0. work[w].pc = "guard" /\ work[w].pc \in PublishLabels /\ work[w].pc \in LockLabels
  BY DEF Guard, At, PublishLabels, LockLabels
<1> PICK p \in Pairs : p = lock[w]
  BY <1>0, JobAt
<1>1. /\ ~IsPass(w) /\ p # None /\ work[w].seen \in Transition /\ Own(w) = {p}
  BY <1>0, JobAt, LocalsOf DEF InScope, Own
<1>2. StoreMove /\ OthersTyped'
  BY StoreStays, OthersStay DEF Guard
<1>3. CASE /\ MayRecordPending(w, work[w].job, work[w].attempt, work[w].seen, p)
           /\ RecordPublicationPending(p, work[w].seen.generation, Operation(w))
           /\ Goto(w, "write") /\ lock' = lock
  <2> DEFINE g   == work[w].seen.generation
             o   == Operation(w)
             row == [status |-> "pending", generation |-> g, operation |-> o,
                     content |-> rows[p].content]
  <2>1. g \in 0..MaxGeneration /\ o \in OperationIds
    BY <1>0, <1>1, OperationType DEF Transition
  <2>2. rows[p].content \in RequestIds
    BY <1>1 DEF FlowInv, TypeOK, PublicationTypeOK, Publication
  <2> HIDE DEF g, o
  <2>3. row \in Publication
    BY <2>1, <2>2 DEF Publication, RowStatuses
  <2>4. rows' = [rows EXCEPT ![p] = row] /\ fresh' = Unread({p})
    BY <1>3 DEF RecordPublicationPending, g, o
  <2>5. docs[RowDoc(p)].desired /\ UNCHANGED <<docs, remote>>
    BY <1>3 DEF MayRecordPending, Guard, storeVars
  <2>6. row.status = "pending"
    OBVIOUS
  <2> HIDE DEF row
  <2>7. RowsMove({p}) /\ rows'[p] = row
    BY <1>1, <2>3, <2>4, <2>5, RowWritten
  <2>8. /\ Placed(w) /\ InScope(w)' /\ DeleteSeesRows(w)'
        /\ work'[w] = [work[w] EXCEPT !.pc = "write"] /\ lock'[w] = p
    BY <1>0, <1>1, <1>2, <1>3, PublishGoesOn DEF PublishLabels
  <2>9. work'[w].pc = "write"
    BY <2>8, LocalsOf DEF Locals
  <2>10. PairInv(w)'
    BY <2>6, <2>7, <2>8, <2>9 DEF PairInv, ThePair
  <2>11. PairAgrees(p)'
    BY <2>6, <2>7 DEF PairAgrees, HasRow
  <2> QED  BY <1>1, <1>2, <2>7, <2>8, <2>10, <2>11, StepKeeps DEF Stands
<1>4. CASE Goto(w, "stale") /\ Release(w) /\ UNCHANGED publicationVars
  <2>1. RowsMove(Own(w)) /\ \A q \in Pairs : PairAgrees(q)'
    BY <1>4, RowsStay, FreshStays DEF Guard, publicationVars
  <2> QED  BY <1>1, <1>2, <1>4, <2>1, RestKeeps DEF RestLabels
<1> QED  BY <1>3, <1>4 DEF Guard, ThePair

\* publisher.publish, and its raising whether the text was stored or not.
LEMMA RemoteWritten ==
    ASSUME FlowInv, NEW p \in Pairs, NEW r \in RequestIds, UNCHANGED <<docs, rows, fresh>>,
           remote' = [remote EXCEPT ![p] = r]
    PROVE  RowsMove({p}) /\ remote'[p] = r
<1>1. /\ rows \in [Pairs -> Publication] /\ remote \in [Pairs -> RequestIds]
  BY DEF FlowInv, TypeOK, PublicationTypeOK
<1> QED  BY <1>1, FreshStays DEF RowsMove, HasRow

LEMMA PublishKeeps ==
    ASSUME FlowInv, NEW w \in Workers, Publish(w)
    PROVE  FlowInv'
<1>0. work[w].pc = "write" /\ work[w].pc \in PublishLabels /\ work[w].pc \in LockLabels
  BY DEF Publish, At, PublishLabels, LockLabels
<1> PICK p \in Pairs : p = lock[w]
  BY <1>0, JobAt
<1> PICK r : r = TheRequest(w)
  OBVIOUS
<1>1. work[w].job \in JobIds /\ ~IsPass(w)
  BY <1>0, JobAt
<1>2. StoreMove /\ OthersTyped' /\ UNCHANGED <<docs, rows, fresh>>
  BY StoreStays, OthersStay DEF Publish, storeVars, publicationVars
<1>3. /\ r \in RequestIds
      /\ rows[p].status \notin {"none", "ready"}
  BY <1>0, <1>1, LocalsOf, JobParts DEF PairInv, TheRequest, ThePair
<1>4. remote' = [remote EXCEPT ![p] = r] /\ Goto(w, "verify") /\ lock' = lock
  BY DEF Publish, ThePair
<1>5. RowsMove({p}) /\ remote'[p] = r
  BY <1>2, <1>3, <1>4, RemoteWritten
<1>6. /\ Placed(w) /\ InScope(w)' /\ DeleteSeesRows(w)' /\ Own(w) = {p}
      /\ work'[w] = [work[w] EXCEPT !.pc = "verify"] /\ lock'[w] = p
  BY <1>0, <1>1, <1>2, <1>4, PublishGoesOn DEF PublishLabels
<1>7. work'[w].pc = "verify" /\ work'[w].job = work[w].job
  BY <1>6, LocalsOf DEF Locals
<1>8. PairInv(w)'
  BY <1>2, <1>3, <1>5, <1>6, <1>7 DEF PairInv, ThePair, TheRequest
<1>9. PairAgrees(p)'
  BY <1>2, <1>3 DEF PairAgrees, HasRow
<1> QED  BY <1>2, <1>5, <1>6, <1>8, <1>9, StepKeeps DEF Stands

LEMMA PublishFailsKeeps ==
    ASSUME FlowInv, NEW w \in Workers, PublishFails(w)
    PROVE  FlowInv'
<1>0. work[w].pc = "write" /\ work[w].pc \in PublishLabels /\ work[w].pc \in LockLabels
  BY DEF PublishFails, At, PublishLabels, LockLabels
<1> PICK p \in Pairs : p = lock[w]
  BY <1>0, JobAt
<1>1. work[w].job \in JobIds /\ ~IsPass(w) /\ p # None /\ Own(w) = {p}
  BY <1>0, JobAt DEF Own
<1>2. StoreMove /\ OthersTyped' /\ UNCHANGED docs
  BY StoreStays, FaultCounted DEF PublishFails, storeVars
<1>3. TheRequest(w) \in RequestIds
  BY <1>1, JobParts DEF TheRequest
<1>4. /\ remote' \in [Pairs -> RequestIds]
      /\ \A q \in Pairs \ {p} : remote'[q] = remote[q]
  BY <1>3 DEF PublishFails, ThePair, FlowInv, TypeOK
<1>5. /\ rows' \in [Pairs -> Publication] /\ fresh' \subseteq Workers \X Pairs
      /\ \A q \in Pairs : \/ rows'[q] = rows[q]
                          \/ HasRow(q) /\ rows'[q].status \in {"removing", "failed"}
  BY FailuresRecorded DEF PublishFails, ThePair
<1>6. RowsMove({p})
  BY <1>2, <1>4, <1>5 DEF RowsMove, HasRow
<1>7. PairAgrees(p)'
  <2>1. rows[p].status \notin {"none", "ready"}
    BY <1>0, LocalsOf DEF PairInv, ThePair
  <2> QED  BY <1>5, <2>1 DEF PairAgrees, HasRow
<1>8. Goto(w, "error") /\ Release(w) /\ "error" \in RestLabels
  BY DEF PublishFails, RestLabels
<1> QED  BY <1>1, <1>2, <1>6, <1>7, <1>8, RestKeeps

LEMMA VerifyKeeps ==
    ASSUME FlowInv, NEW w \in Workers, Verify(w)
    PROVE  FlowInv'
<1>0. work[w].pc = "verify" /\ work[w].pc \in PublishLabels /\ work[w].pc \in LockLabels
  BY DEF Verify, At, PublishLabels, LockLabels
<1>1. lock[w] \in Pairs /\ ~IsPass(w)
  BY <1>0, JobAt
<1>2. StoreMove /\ OthersTyped' /\ UNCHANGED <<docs, remote>>
  BY StoreStays, OthersStay DEF Verify, storeVars
<1>3. CASE Goto(w, "record") /\ UNCHANGED <<publicationVars, lock>>
  <2>1. RowsMove(Own(w)) /\ \A p \in Pairs : PairAgrees(p)'
    BY <1>2, <1>3, RowsStay, FreshStays DEF publicationVars
  <2>2. /\ Placed(w) /\ InScope(w)' /\ DeleteSeesRows(w)'
        /\ work'[w] = [work[w] EXCEPT !.pc = "record"] /\ lock'[w] = lock[w]
    BY <1>0, <1>2, <1>3, PublishGoesOn DEF PublishLabels
  <2>3. work'[w].pc = "record" /\ work'[w].job = work[w].job
    BY <2>2, LocalsOf DEF Locals
  <2>4. PairInv(w)'
    BY <1>0, <1>2, <1>3, <2>2, <2>3, LocalsOf DEF PairInv, ThePair, TheRequest, publicationVars
  <2> QED  BY <1>2, <2>1, <2>2, <2>4, StepKeeps DEF Stands
<1>4. CASE /\ RecordPublicationError(ThePair(w), work[w].seen.generation, Operation(w))
           /\ Goto(w, "stale") /\ Release(w)
  <2>1. RowsMove(Own(w)) /\ \A p \in Pairs : PairAgrees(p)'
    BY <1>1, <1>2, <1>4, FailuresMove DEF ThePair
  <2> QED  BY <1>1, <1>2, <1>4, <2>1, RestKeeps DEF RestLabels
<1> QED  BY <1>3, <1>4 DEF Verify

\* A pair that is done leaves the worker's list.
LEMMA RecordPublishedKeeps ==
    ASSUME FlowInv, NEW w \in Workers, RecordPublished(w)
    PROVE  FlowInv'
<1>0. work[w].pc = "record" /\ work[w].pc \in PublishLabels /\ work[w].pc \in LockLabels
  BY DEF RecordPublished, At, PublishLabels, LockLabels
<1> PICK p \in Pairs : p = lock[w]
  BY <1>0, JobAt
<1>1. /\ work[w].job \in JobIds /\ ~IsPass(w) /\ ~IsDelete(w) /\ p # None /\ Own(w) = {p}
      /\ work[w].seen \in Transition
  BY <1>0, JobAt, LocalsOf DEF Own, InScope
<1>2. StoreMove /\ OthersTyped' /\ UNCHANGED <<docs, remote>>
  BY StoreStays, OthersStay DEF RecordPublished, storeVars
<1>3. CASE /\ RecordPublicationSuccess(p, work[w].seen.generation, TheRequest(w))
           /\ NextPair(w, "targets")
  <2> PICK r, g : r = TheRequest(w) /\ g = work[w].seen.generation
    OBVIOUS
  <2>1. r \in RequestIds /\ g \in 0..MaxGeneration
    BY <1>1, JobParts DEF TheRequest, Transition
  <2> DEFINE row == [status |-> "ready", generation |-> g, operation |-> NoOperation,
                     content |-> r]
  <2>2. row \in Publication /\ row.status = "ready" /\ row.content = r
    BY <2>1, NoOperationType DEF Publication, RowStatuses
  <2>3. rows' = [rows EXCEPT ![p] = row] /\ fresh' = Unread({p})
    BY <1>3 DEF RecordPublicationSuccess
  <2> HIDE DEF row
  <2>4. rows[p].status \notin {"none", "ready"} /\ remote[p] = r
    BY <1>0, LocalsOf DEF PairInv, ThePair
  <2>5. RowsMove({p}) /\ rows'[p] = row
    BY <1>2, <2>2, <2>3, <2>4, RowWritten DEF HasRow
  <2>6. PairAgrees(p)'
    BY <1>2, <2>2, <2>4, <2>5 DEF PairAgrees, HasRow
  <2>7. /\ Placed(w)
        /\ work'[w] = [work[w] EXCEPT !.pc = "targets", !.todo = work[w].todo \ {lock[w]}]
    BY <1>3, NextPairPlaces DEF Labels, LockLabels, PublishLabels, RemoveLabels
  <2>8. /\ work'[w].pc = "targets" /\ work'[w].job = work[w].job
        /\ work'[w].seen = work[w].seen /\ work'[w].bare = work[w].bare
    BY <2>7, LocalsOf DEF Locals
  <2>9. Known(work[w].job)'
    BY <1>1, <1>2, <2>8, LocalsOf DEF StoreMove, InScope
  <2>10. Stands(w)'
    BY <1>1, <2>8, <2>9 DEF Stands, InScope, PairInv, DeleteSeesRows, IsPass, IsDelete,
       Known, PassLabels, PublishLabels, RemoveLabels
  <2> QED  BY <1>1, <1>2, <2>5, <2>6, <2>7, <2>10, StepKeeps
<1>4. CASE Goto(w, "stale") /\ Release(w) /\ UNCHANGED publicationVars
  <2>1. RowsMove(Own(w)) /\ \A q \in Pairs : PairAgrees(q)'
    BY <1>2, <1>4, RowsStay, FreshStays DEF publicationVars
  <2> QED  BY <1>1, <1>2, <1>4, <2>1, RestKeeps DEF RestLabels
<1> QED  BY <1>3, <1>4 DEF RecordPublished, ThePair

-----------------------------------------------------------------------------
(* A removal. *)

\* A worker that goes on removing from the pair it has locked.
LEMMA RemovalGoesOn ==
    ASSUME FlowInv, StoreMove, NEW w \in Workers, NEW label \in RemoveLabels,
           Goto(w, label), lock' = lock, work[w].pc \in RemoveLabels \ {"conflict"},
           UNCHANGED docs, \A p \in Pairs : HasRow(p)' => HasRow(p)
    PROVE  /\ Placed(w) /\ InScope(w)' /\ DeleteSeesRows(w)'
           /\ work'[w].pc = label /\ work'[w].job = work[w].job /\ lock'[w] = lock[w]
<1>1. label \in Labels /\ label \in LockLabels /\ work[w].pc \in LockLabels
  BY DEF Labels, LockLabels, RemoveLabels
<1>2. /\ Placed(w)
      /\ work'[w] = [work[w] EXCEPT !.pc = label] /\ lock'[w] = lock[w]
  BY <1>1, GotoPlaces
<1>3. /\ work'[w].pc = label /\ work'[w].job = work[w].job /\ work'[w].seen = work[w].seen
      /\ work'[w].bare = work[w].bare /\ work'[w].todo = work[w].todo
  BY <1>2, LocalsOf DEF Locals
<1>4. ~IsPass(w) => Known(work[w].job)'
  BY <1>3, LocalsOf, JobAt DEF StoreMove, InScope
<1>5. InScope(w)'
  BY <1>3, <1>4, LocalsOf DEF InScope, IsPass, IsDelete, Known, PassLabels, PublishLabels,
     RemoveLabels
<1>6. DeleteSeesRows(w)'
  BY <1>3, LocalsOf DEF DeleteSeesRows, IsPass, IsDelete, StillCurrent, RequestIsCurrent,
     TheDoc, TheRequest, RowsOf
<1> QED  BY <1>2, <1>3, <1>5, <1>6

\* A pair without a row leaves the worker's list.
LEMMA RemovalMovesOn ==
    ASSUME FlowInv, StoreMove, NEW w \in Workers, NEW label \in {"targets", "clean"},
           NextPair(w, label), label = "clean" <=> IsPass(w),
           work[w].pc \in RemoveLabels \ {"conflict"},
           UNCHANGED docs, \A p \in Pairs : HasRow(p)' => HasRow(p) /\ p # lock[w]
    PROVE  Placed(w) /\ Stands(w)'
<1>1. label \in Labels \ LockLabels
  BY DEF Labels, LockLabels, PublishLabels, RemoveLabels
<1>2. /\ Placed(w)
      /\ work'[w] = [work[w] EXCEPT !.pc = label, !.todo = work[w].todo \ {lock[w]}]
  BY <1>1, NextPairPlaces
<1>3. /\ work'[w].pc = label /\ work'[w].job = work[w].job /\ work'[w].seen = work[w].seen
      /\ work'[w].bare = work[w].bare /\ work'[w].todo = work[w].todo \ {lock[w]}
  BY <1>2, LocalsOf DEF Locals
<1>4. ~IsPass(w) => Known(work[w].job)'
  BY <1>3, LocalsOf, JobAt DEF StoreMove, InScope
<1>5. InScope(w)'
  BY <1>3, <1>4, LocalsOf DEF InScope, IsPass, IsDelete, Known, PassLabels, PublishLabels,
     RemoveLabels
<1>6. DeleteSeesRows(w)'
  BY <1>3, LocalsOf DEF DeleteSeesRows, IsPass, IsDelete, StillCurrent, RequestIsCurrent,
     TheDoc, TheRequest, RowsOf
<1>7. PairInv(w)'
  BY <1>3 DEF PairInv
<1> QED  BY <1>2, <1>5, <1>6, <1>7 DEF Stands

\* A removal that may not go on.
LEMMA StopKeeps ==
    ASSUME FlowInv, NEW w \in Workers, Stop(w), StoreMove, UNCHANGED remote, OthersTyped'
    PROVE  FlowInv'
<1>1. RowsMove(Own(w)) /\ \A q \in Pairs : PairAgrees(q)'
  BY RowsStay, FreshStays DEF Stop, publicationVars
<1>2. CASE IsPass(w)
  BY <1>1, <1>2, DropKeeps DEF Stop
<1>3. CASE ~IsPass(w)
  BY <1>1, <1>3, RestKeeps DEF Stop, RestLabels
<1> QED  BY <1>2, <1>3

\* A row that was not found is only removed from the target that was guessed.
LEMMA FenceKeeps ==
    ASSUME FlowInv, NEW w \in Workers, Fence(w)
    PROVE  FlowInv'
<1>0. /\ work[w].pc = "fence" /\ work[w].pc \in RemoveLabels \ {"conflict"}
      /\ work[w].pc \in LockLabels
  BY DEF Fence, At, RemoveLabels, LockLabels
<1> PICK p \in Pairs : p = lock[w]
  BY <1>0, JobAt
<1>1. /\ StoreMove /\ OthersTyped' /\ UNCHANGED <<docs, remote>>
  BY StoreStays, OthersStay DEF Fence, storeVars
<1>2. CASE Stop(w)
  BY <1>1, <1>2, StopKeeps
<1>3. CASE HasRow(p) /\ ReadRow(w, p) /\ Goto(w, "claim") /\ UNCHANGED <<rows, lock>>
  <2>1. fresh' \subseteq Workers \X Pairs
    BY <1>3, FreshStays DEF ReadRow
  <2>2. RowsMove(Own(w)) /\ \A q \in Pairs : PairAgrees(q)'
    BY <1>1, <1>3, <2>1, RowsStay
  <2>3. \A q \in Pairs : HasRow(q)' => HasRow(q)
    BY <1>3 DEF HasRow
  <2>4. /\ Placed(w) /\ InScope(w)' /\ DeleteSeesRows(w)' /\ work'[w].pc = "claim"
    BY <1>0, <1>1, <1>3, <2>3, RemovalGoesOn DEF RemoveLabels
  <2>5. PairInv(w)'
    BY <2>4 DEF PairInv
  <2> QED  BY <1>1, <2>2, <2>4, <2>5, StepKeeps DEF Stands
<1>4. CASE /\ ~HasRow(p) /\ Goto(w, "remote_remove")
           /\ UNCHANGED <<publicationVars, lock>>
  <2>1. RowsMove(Own(w)) /\ \A q \in Pairs : PairAgrees(q)'
    BY <1>1, <1>4, RowsStay, FreshStays DEF publicationVars
  <2>2. \A q \in Pairs : HasRow(q)' => HasRow(q)
    BY <1>4 DEF HasRow, publicationVars
  <2>3. /\ Placed(w) /\ InScope(w)' /\ DeleteSeesRows(w)' /\ work'[w].pc = "remote_remove"
        /\ lock'[w] = lock[w]
    BY <1>0, <1>1, <1>4, <2>2, RemovalGoesOn DEF RemoveLabels
  <2>4. PairInv(w)'
    BY <1>4, <2>3 DEF PairInv, HasRow, ThePair, publicationVars
  <2> QED  BY <1>1, <2>1, <2>3, <2>4, StepKeeps DEF Stands
<1>5. CASE /\ ~HasRow(p) /\ NextPair(w, IF IsPass(w) THEN "clean" ELSE "targets")
           /\ UNCHANGED publicationVars
  <2>1. RowsMove(Own(w)) /\ \A q \in Pairs : PairAgrees(q)'
    BY <1>1, <1>5, RowsStay, FreshStays DEF publicationVars
  <2>2. \A q \in Pairs : HasRow(q)' => HasRow(q) /\ q # lock[w]
    BY <1>5 DEF HasRow, publicationVars
  <2>3. PICK label \in {"targets", "clean"} : /\ NextPair(w, label)
                                              /\ label = "clean" <=> IsPass(w)
    BY <1>5
  <2>4. Placed(w) /\ Stands(w)'
    BY <1>0, <1>1, <2>2, <2>3, RemovalMovesOn
  <2> QED  BY <1>1, <2>1, <2>4, StepKeeps
<1> QED  BY <1>2, <1>3, <1>4, <1>5 DEF Fence, ThePair

LEMMA ClaimRemovalKeeps ==
    ASSUME FlowInv, NEW w \in Workers, ClaimRemoval(w)
    PROVE  FlowInv'
<1>0. /\ work[w].pc = "claim" /\ work[w].pc \in RemoveLabels \ {"conflict"}
      /\ work[w].pc \in LockLabels
  BY DEF ClaimRemoval, At, RemoveLabels, LockLabels
<1> PICK p \in Pairs : p = lock[w]
  BY <1>0, JobAt
<1>1. /\ StoreMove /\ OthersTyped' /\ UNCHANGED <<docs, remote>> /\ lock' = lock
  BY StoreStays, OthersStay DEF ClaimRemoval, storeVars
<1>2. p # None /\ Own(w) = {p}
  BY <1>0, JobAt DEF Own
<1>3. CASE /\ MayClaimRemoval(w, p) /\ ClaimPublicationRemoval(p, Operation(w))
           /\ Goto(w, "claimed_row")
  <2> PICK o \in OperationIds : o = Operation(w)
    BY <1>2, OperationType
  <2> DEFINE row == [rows[p] EXCEPT !.status = "removing", !.operation = o]
  <2>1. rows[p] \in Publication
    BY DEF FlowInv, TypeOK, PublicationTypeOK
  <2>2. row \in Publication /\ row.status = "removing"
    BY <2>1 DEF Publication, RowStatuses
  <2>3. rows' = [rows EXCEPT ![p] = row] /\ fresh' = Unread({p})
    BY <1>3, Zenon DEF ClaimPublicationRemoval
  <2> HIDE DEF row
  <2>4. HasRow(p)
    BY <1>3 DEF MayClaimRemoval, HasRow
  <2>5. RowsMove({p}) /\ rows'[p] = row
    BY <1>1, <2>2, <2>3, <2>4, RowWritten
  <2>6. PairAgrees(p)'
    BY <2>2, <2>5 DEF PairAgrees, HasRow
  <2>7. \A q \in Pairs : HasRow(q)' => HasRow(q)
    BY <2>3, <2>4 DEF HasRow, FlowInv, TypeOK, PublicationTypeOK
  <2>8. /\ Placed(w) /\ InScope(w)' /\ DeleteSeesRows(w)' /\ work'[w].pc = "claimed_row"
        /\ lock'[w] = lock[w]
    BY <1>0, <1>1, <1>3, <2>7, RemovalGoesOn DEF RemoveLabels
  <2>9. PairInv(w)'
    BY <2>2, <2>5, <2>8 DEF PairInv, ThePair
  <2> QED  BY <1>1, <1>2, <2>5, <2>6, <2>8, <2>9, StepKeeps DEF Stands
<1>4. CASE Goto(w, "conflict") /\ UNCHANGED publicationVars
  <2>1. RowsMove(Own(w)) /\ \A q \in Pairs : PairAgrees(q)'
    BY <1>1, <1>4, RowsStay, FreshStays DEF publicationVars
  <2>2. \A q \in Pairs : HasRow(q)' => HasRow(q)
    BY <1>4 DEF HasRow, publicationVars
  <2>3. /\ Placed(w) /\ InScope(w)' /\ DeleteSeesRows(w)' /\ work'[w].pc = "conflict"
    BY <1>0, <1>1, <1>4, <2>2, RemovalGoesOn DEF RemoveLabels
  <2>4. PairInv(w)'
    BY <2>3 DEF PairInv
  <2> QED  BY <1>1, <2>1, <2>3, <2>4, StepKeeps DEF Stands
<1> QED  BY <1>3, <1>4 DEF ClaimRemoval, ThePair

LEMMA CheckRemovalClaimKeeps ==
    ASSUME FlowInv, NEW w \in Workers, CheckRemovalClaim(w)
    PROVE  FlowInv'
<1>0. /\ work[w].pc = "claimed_row" /\ work[w].pc \in RemoveLabels \ {"conflict"}
  BY DEF CheckRemovalClaim, At, RemoveLabels
<1>1. /\ StoreMove /\ OthersTyped' /\ lock' = lock /\ UNCHANGED <<docs, rows>>
  BY StoreStays, OthersStay DEF CheckRemovalClaim, storeVars, publicationVars
<1>2. RowsMove(Own(w)) /\ \A q \in Pairs : PairAgrees(q)'
  BY RowsStay, FreshStays DEF CheckRemovalClaim, publicationVars
<1>3. \A q \in Pairs : HasRow(q)' => HasRow(q)
  BY <1>1 DEF HasRow
<1>4. PICK label \in {"remote_remove", "conflict"} : Goto(w, label)
  BY DEF CheckRemovalClaim
<1>5. /\ Placed(w) /\ InScope(w)' /\ DeleteSeesRows(w)' /\ work'[w].pc = label
      /\ lock'[w] = lock[w]
  BY <1>0, <1>1, <1>3, <1>4, RemovalGoesOn DEF RemoveLabels
<1>6. PairInv(w)'
  BY <1>0, <1>1, <1>4, <1>5, LocalsOf DEF PairInv, ThePair
<1> QED  BY <1>1, <1>2, <1>5, <1>6, StepKeeps DEF Stands

\* connector.delete: from here on nothing is left to find the row by.
LEMMA RemoteRemoveKeeps ==
    ASSUME FlowInv, NEW w \in Workers, RemoteRemove(w)
    PROVE  FlowInv'
<1>0. /\ work[w].pc = "remote_remove" /\ work[w].pc \in RemoveLabels \ {"conflict"}
      /\ work[w].pc \in LockLabels
  BY DEF RemoteRemove, At, RemoveLabels, LockLabels
<1> PICK p \in Pairs : p = lock[w]
  BY <1>0, JobAt
<1>1. /\ StoreMove /\ OthersTyped' /\ UNCHANGED <<docs, rows, fresh>>
  BY StoreStays, OthersStay DEF RemoteRemove, storeVars, publicationVars
<1>2. p # None /\ Own(w) = {p}
  BY <1>0, JobAt DEF Own
<1>3. NoRequest \in RequestIds
  BY StoreAssumption DEF NoRequest, RequestIds
<1>4. RowsMove({p}) /\ remote'[p] = NoRequest
  BY <1>1, <1>3, RemoteWritten DEF RemoteRemove, ThePair
<1>5. rows[p].status \notin {"ready", "pending"}
  BY <1>0, LocalsOf DEF PairInv, ThePair
<1>6. PairAgrees(p)'
  BY <1>1, <1>4, <1>5 DEF PairAgrees
<1>7. CASE work[w].bare /\ ~HasRow(p) /\ NextPair(w, "targets")
  <2>1. ~IsPass(w)
    BY <1>7, LocalsOf DEF InScope
  <2>2. \A q \in Pairs : HasRow(q)' => HasRow(q) /\ q # lock[w]
    BY <1>1, <1>7 DEF HasRow
  <2>3. Placed(w) /\ Stands(w)'
    BY <1>0, <1>1, <1>7, <2>1, <2>2, RemovalMovesOn
  <2> QED  BY <1>1, <1>2, <1>4, <1>6, <2>3, StepKeeps
<1>8. CASE Goto(w, "forget") /\ UNCHANGED lock
  <2>1. \A q \in Pairs : HasRow(q)' => HasRow(q)
    BY <1>1 DEF HasRow
  <2>2. /\ Placed(w) /\ InScope(w)' /\ DeleteSeesRows(w)' /\ work'[w].pc = "forget"
        /\ lock'[w] = lock[w]
    BY <1>0, <1>1, <1>8, <2>1, RemovalGoesOn DEF RemoveLabels
  <2>3. PairInv(w)'
    BY <1>1, <1>4, <1>5, <2>2 DEF PairInv, ThePair
  <2> QED  BY <1>1, <1>2, <1>4, <1>6, <2>2, <2>3, StepKeeps DEF Stands
<1> QED  BY <1>7, <1>8 DEF RemoteRemove, ThePair

LEMMA RemoteRemoveFailsKeeps ==
    ASSUME FlowInv, NEW w \in Workers, RemoteRemoveFails(w)
    PROVE  FlowInv'
<1>0. /\ work[w].pc = "remote_remove" /\ work[w].pc \in LockLabels
  BY DEF RemoteRemoveFails, At, RemoveLabels, LockLabels
<1> PICK p \in Pairs : p = lock[w]
  BY <1>0, JobAt
<1>1. /\ StoreMove /\ UNCHANGED <<docs, rows, fresh>>
  BY StoreStays DEF RemoteRemoveFails, storeVars, publicationVars
<1>2. p # None /\ Own(w) = {p}
  BY <1>0, JobAt DEF Own
<1>3. /\ remote \in [Pairs -> RequestIds] /\ NoRequest \in RequestIds
      /\ rows \in [Pairs -> Publication]
  BY StoreAssumption DEF FlowInv, TypeOK, PublicationTypeOK, NoRequest, RequestIds
<1>4. remote' \in {remote, [remote EXCEPT ![p] = NoRequest]}
  BY DEF RemoteRemoveFails, ThePair
<1>5. RowsMove({p})
  BY <1>1, <1>3, <1>4, FreshStays DEF RowsMove, HasRow
<1>6. PairAgrees(p)'
  <2>1. rows[p].status \notin {"ready", "pending"}
    BY <1>0, LocalsOf DEF PairInv, ThePair
  <2> QED  BY <1>1, <1>3, <1>4, <2>1, PairsAgree DEF PairAgrees, HasRow
<1>7. OthersTyped'
  <2>1. transition' \in Transition
    BY DEF RemoteRemoveFails, FlowInv, TypeOK, PublicationTypeOK, TransitionTypeOK,
       Transition, TransitionStatuses
  <2>2. faults' \in 0..MaxFaults
    <3>1. faults \in 0..MaxFaults /\ faults < MaxFaults /\ faults' = faults + 1
      BY DEF RemoteRemoveFails, FlowInv, TypeOK
    <3> QED  BY <3>1, FaultsAssumption
  <2> QED  BY <2>1, <2>2 DEF RemoteRemoveFails, OthersTyped, TransitionTypeOK, FlowInv, TypeOK
<1>8. CASE IsPass(w)
  BY <1>1, <1>2, <1>5, <1>6, <1>7, <1>8, DropKeeps DEF RemoteRemoveFails
<1>9. CASE ~IsPass(w)
  BY <1>1, <1>2, <1>5, <1>6, <1>7, <1>9, RestKeeps DEF RemoteRemoveFails, RestLabels
<1> QED  BY <1>8, <1>9

\* remove_publication: the target is empty by now.
LEMMA ForgetRowKeeps ==
    ASSUME FlowInv, NEW w \in Workers, ForgetRow(w)
    PROVE  FlowInv'
<1>0. /\ work[w].pc = "forget" /\ work[w].pc \in RemoveLabels \ {"conflict"}
      /\ work[w].pc \in LockLabels
  BY DEF ForgetRow, At, RemoveLabels, LockLabels
<1> PICK p \in Pairs : p = lock[w]
  BY <1>0, JobAt
<1>1. /\ StoreMove /\ OthersTyped' /\ UNCHANGED <<docs, remote>>
  BY StoreStays, OthersStay DEF ForgetRow, storeVars
<1>2. p # None /\ Own(w) = {p}
  BY <1>0, JobAt DEF Own
<1>3. CASE /\ RemovePublicationRecord(p)
           /\ NextPair(w, IF IsPass(w) THEN "clean" ELSE "targets")
  <2>1. rows' = [rows EXCEPT ![p] = NoRow] /\ fresh' = Unread({p})
    BY <1>3 DEF RemovePublicationRecord
  <2>2. NoRow \in Publication /\ NoRow.status = "none"
    BY NoOperationType DEF NoRow
  <2>3. RowsMove({p}) /\ rows'[p] = NoRow
    BY <1>1, <2>1, <2>2, RowWritten
  <2>4. remote[p] = NoRequest
    BY <1>0, LocalsOf DEF PairInv, ThePair
  <2>5. PairAgrees(p)'
    BY <1>1, <2>2, <2>3, <2>4 DEF PairAgrees
  <2>6. \A q \in Pairs : HasRow(q)' => HasRow(q) /\ q # lock[w]
    BY <2>1, <2>2 DEF HasRow, FlowInv, TypeOK, PublicationTypeOK
  <2>7. PICK label \in {"targets", "clean"} : /\ NextPair(w, label)
                                              /\ label = "clean" <=> IsPass(w)
    BY <1>3
  <2>8. Placed(w) /\ Stands(w)'
    BY <1>0, <1>1, <2>6, <2>7, RemovalMovesOn
  <2> QED  BY <1>1, <1>2, <2>3, <2>5, <2>8, StepKeeps
<1>4. CASE Goto(w, "conflict") /\ UNCHANGED <<publicationVars, lock>>
  <2>1. RowsMove(Own(w)) /\ \A q \in Pairs : PairAgrees(q)'
    BY <1>1, <1>4, RowsStay, FreshStays DEF publicationVars
  <2>2. \A q \in Pairs : HasRow(q)' => HasRow(q)
    BY <1>4 DEF HasRow, publicationVars
  <2>3. /\ Placed(w) /\ InScope(w)' /\ DeleteSeesRows(w)' /\ work'[w].pc = "conflict"
    BY <1>0, <1>1, <1>4, <2>2, RemovalGoesOn DEF RemoveLabels
  <2>4. PairInv(w)'
    BY <2>3 DEF PairInv
  <2> QED  BY <1>1, <2>1, <2>3, <2>4, StepKeeps DEF Stands
<1> QED  BY <1>3, <1>4 DEF ForgetRow, ThePair

LEMMA ConflictKeeps ==
    ASSUME FlowInv, NEW w \in Workers, Conflict(w)
    PROVE  FlowInv'
<1>1. StoreMove /\ OthersTyped'
  BY StoreStays, OthersStay DEF Conflict
<1>2. RowsMove(Own(w)) /\ \A q \in Pairs : PairAgrees(q)'
  BY RowsStay, FreshStays DEF Conflict, publicationVars
<1>3. CASE IsPass(w)
  BY <1>1, <1>2, <1>3, DropKeeps DEF Conflict
<1>4. CASE ~IsPass(w)
  <2>1. PICK label \in {"error", "stale"} : Goto(w, label) /\ Release(w)
    BY <1>4 DEF Conflict
  <2> QED  BY <1>1, <1>2, <1>4, <2>1, RestKeeps DEF RestLabels
<1> QED  BY <1>3, <1>4

-----------------------------------------------------------------------------
(* Requests. *)

\* The intent of a request reaches every row of its document.
LEMMA IntentMoves ==
    ASSUME FlowInv, NEW d \in Docs, NEW r \in Requests, NEW type \in JobTypes,
           SetRequestIntent(d, r, type)
    PROVE  /\ rows' \in [Pairs -> Publication]
           /\ fresh' \subseteq Workers \X Pairs
           /\ \A p \in Pairs : \/ rows'[p] = rows[p]
                               \/ HasRow(p) /\ rows'[p].status \in {"removing", "failed"}
<1> DEFINE touched == {p \in RowsOf(d) : type = "delete" \/ rows[p].status = "removing"}
           Removing(p) == [rows[p] EXCEPT !.status = "removing",
                                          !.operation = RemoveOperation(r)]
<1>1. rows \in [Pairs -> Publication]
  BY DEF FlowInv, TypeOK, PublicationTypeOK
<1>2. \A p \in touched : p \in Pairs /\ HasRow(p)
  BY DEF RowsOf
<1>3. ASSUME NEW p \in Pairs
      PROVE  Removing(p) \in Publication /\ Removing(p).status = "removing"
  <2> PICK o : o = RemoveOperation(r)
    OBVIOUS
  <2>1. o \in OperationIds
    <3>1. r \in RequestIds /\ 0 \in 0..MaxAttempts
      BY StoreAssumption DEF Requests, RequestIds
    <3> QED  BY <3>1 DEF RemoveOperation, OperationIds
  <2>2. Removing(p) = [rows[p] EXCEPT !.status = "removing", !.operation = o]
    OBVIOUS
  <2>3. rows[p] \in Publication
    BY <1>1
  <2> PICK row : row = [rows[p] EXCEPT !.status = "removing", !.operation = o]
    OBVIOUS
  <2>4. row \in Publication /\ row.status = "removing"
    BY <2>1, <2>3 DEF Publication, RowStatuses
  <2> QED  BY <2>2, <2>4
<1>4. /\ rows' = [p \in Pairs |-> IF p \notin touched THEN rows[p]
                                  ELSE IF type = "delete" THEN Removing(p)
                                  ELSE FailRow(rows[p])]
      /\ fresh' = Unread(touched)
  BY DEF SetRequestIntent, FailRow
<1> HIDE DEF touched, Removing
<1>5. fresh' \subseteq Workers \X Pairs
  BY <1>4, UnreadType
<1>6. ASSUME NEW p \in Pairs
      PROVE  /\ rows'[p] \in Publication
             /\ rows'[p] = rows[p] \/ (HasRow(p) /\ rows'[p].status \in {"removing", "failed"})
  BY <1>1, <1>2, <1>3, <1>4, FailRowType
<1>7. rows' \in [Pairs -> Publication]
  BY <1>4, <1>6
<1> QED  BY <1>5, <1>6, <1>7

\* A request is newer than everything the tables know.
LEMMA SubmitMoves ==
    ASSUME FlowInv, NEW P, NEW d \in Docs, NEW r \in Requests, NEW type \in JobTypes,
           Submit(d, r, type), UNCHANGED remote
    PROVE  StoreMove /\ RowsMove(P) /\ \A p \in Pairs : PairAgrees(p)'
<1> DEFINE k == <<d, r, type>>
<1>1. StoreTypeOK /\ lastRequest \in 0..MaxRequests /\ k \in JobIds
  BY DEF FlowInv, TypeOK, PublicationTypeOK, StoreTypeOK, RequestIds, JobIds
<1>2. r = lastRequest + 1 /\ lastRequest' = r /\ r \in RequestIds /\ lastRequest' \in RequestIds
  BY FreshType DEF Submit, FreshRequest
<1>3. docs' \in [Docs -> Document] /\ jobs' \in [JobIds -> Job]
  BY <1>1, UpsertType DEF Submit, DocStatuses
<1>4. /\ \A e \in Docs \ {d} : docs'[e] = docs[e]
      /\ docs'[d].request = r /\ docs'[d].status = "Queued"
      /\ docs'[d].desired <=> type = "upsert"
  <2> DEFINE wanted == (type = "upsert")
  <2>1. docs' = [docs EXCEPT ![d].desired = wanted, ![d].status = "Queued",
                             ![d].request = r]
    BY DEF Submit, UpsertDocumentAndEnqueue
  <2> HIDE DEF wanted
  <2>2. /\ \A e \in Docs \ {d} : docs'[e] = docs[e]
        /\ docs'[d].request = r /\ docs'[d].status = "Queued"
        /\ docs'[d].desired = wanted
    BY <1>1, <2>1 DEF StoreTypeOK, Document
  <2> QED  BY <2>2 DEF wanted
<1>5. \A j \in JobIds : \/ jobs'[j] = jobs[j]
                        \/ j = k /\ jobs[j].status = "absent"
  BY <1>1, EnqueuedRow DEF Submit, UpsertDocumentAndEnqueue
<1>6. jobs'[k].status # "absent"
  BY <1>1, EnqueuedKeepsKnown DEF Submit, UpsertDocumentAndEnqueue
<1>7. \A j \in JobIds : Known(j) => Known(j)' /\ RequestOf(j) <= lastRequest
  BY <1>5 DEF Known, FlowInv, RequestsInv
<1>8. \A j \in JobIds : RequestOf(j) \in Nat /\ DocOf(j) \in Docs
  BY DEF JobIds, RequestOf, DocOf, Requests
<1>9. \A e \in Docs : docs[e].request \in Nat /\ docs[e].request <= lastRequest
  <2>1. \A e \in Docs : docs[e].request \in 0..MaxRequests
    BY <1>1 DEF StoreTypeOK, Document, RequestIds
  <2> QED  BY <2>1, StoreAssumption DEF FlowInv, RequestsInv
<1>10. lastRequest \in Nat
  BY <1>1, StoreAssumption
<1>11. RequestsInv'
  <2>1. ASSUME NEW e \in Docs PROVE docs'[e].request <= lastRequest'
    BY <1>2, <1>4, <1>9, <1>10
  <2>2. ASSUME NEW j \in JobIds, Known(j)'
        PROVE  RequestOf(j) <= lastRequest'
    <3>1. CASE Known(j)
      BY <1>2, <1>7, <1>8, <1>10, <3>1
    <3>2. CASE ~Known(j)
      <4>1. j = k
        BY <1>5, <2>2, <3>2 DEF Known
      <4> QED  BY <1>2, <1>10, <4>1 DEF RequestOf
    <3> QED  BY <3>1, <3>2
  <2>3. ASSUME NEW j \in JobIds, Known(j)', RequestOf(j) = docs'[DocOf(j)].request
        PROVE  docs'[DocOf(j)].desired <=> TypeOf(j) = "upsert"
    <3>1. CASE DocOf(j) # d
      <4>1. docs'[DocOf(j)] = docs[DocOf(j)] /\ Known(j)
        BY <1>4, <1>5, <1>8, <2>3, <3>1 DEF Known, DocOf
      <4> QED  BY <2>3, <4>1 DEF FlowInv, RequestsInv
    <3>2. CASE DocOf(j) = d
      <4>1. RequestOf(j) = r
        BY <1>4, <2>3, <3>2
      <4>2. ~Known(j)
        BY <1>2, <1>7, <1>8, <1>10, <4>1
      <4>3. j = k
        BY <1>5, <2>3, <4>2 DEF Known
      <4> QED  BY <1>4, <4>3 DEF DocOf, TypeOf
    <3> QED  BY <3>1, <3>2
  <2> QED  BY <2>1, <2>2, <2>3 DEF RequestsInv
<1>12. ASSUME NEW j \in JobIds, Known(j), docs'[DocOf(j)].request = RequestOf(j)
       PROVE  docs[DocOf(j)].request = RequestOf(j)
  <2>1. DocOf(j) # d
    BY <1>2, <1>4, <1>7, <1>8, <1>10, <1>12
  <2> QED  BY <1>4, <1>8, <1>12, <2>1
<1>13. \A e \in Docs : docs'[e].status = "NotEnabled" =>
         ~docs'[e].desired /\ docs[e].status = "NotEnabled"
  BY <1>4 DEF FlowInv, WithdrawnHasNoRow
<1>14. StoreTypeOK'
  BY <1>2, <1>3 DEF StoreTypeOK
<1>15. StoreMove
  BY <1>7, <1>11, <1>12, <1>13, <1>14 DEF StoreMove
<1>16. RowsMove(P) /\ \A p \in Pairs : PairAgrees(p)'
  <2>1. SetRequestIntent(d, r, type)
    BY DEF Submit
  <2> QED  BY <1>13, <2>1, IntentMoves, RowsFail
<1> QED  BY <1>15, <1>16

LEMMA UserRequestKeeps ==
    ASSUME FlowInv, NEW d \in Docs, NEW r \in Requests, NEW type \in JobTypes,
           UserRequest(d, r, type)
    PROVE  FlowInv'
<1>1. StoreMove /\ RowsMove({})
  BY SubmitMoves DEF UserRequest, flowVars
<1> QED  BY <1>1, OthersStay, NobodyKeeps DEF UserRequest, flowVars

-----------------------------------------------------------------------------
(* The administrator. *)

\* A republication is of a target that documents are published to.
LEMMA RepublishType ==
    ASSUME NEW t \in Transition, EffectiveTarget(t) # "unset"
    PROVE  ToRepublish(t) \subseteq Pairs \X (0..MaxGeneration)
<1> PICK target : target = EffectiveTarget(t)
  OBVIOUS
<1>1. target \in PublishedTargets
  BY DEF EffectiveTarget, Transition, PublishedTargets
<1>2. t.generation \in 0..MaxGeneration
  BY DEF Transition
<1>3. \A d \in Docs : <<<<d, target>>, t.generation>> \in Pairs \X (0..MaxGeneration)
  BY <1>1, <1>2 DEF Pairs
<1> QED  BY <1>3 DEF ToRepublish

LEMMA AdminRequestsKeeps ==
    ASSUME FlowInv, NEW target \in Targets, AdminRequestsTarget(target)
    PROVE  FlowInv'
<1>1. TransitionTypeOK
  BY DEF FlowInv, TypeOK, PublicationTypeOK
<1>2. transition' \in Transition
  BY <1>1, RequestBegins DEF AdminRequestsTarget, TransitionTypeOK
<1>3. OthersTyped'
  <2>1. CASE EffectiveTarget(transition') = target
    <3>1. ToRepublish(transition)' = ToRepublish(transition')
      BY DEF AdminRequestsTarget, ToRepublish, storeVars, Exists
    <3>2. ToRepublish(transition') \subseteq Pairs \X (0..MaxGeneration)
      BY <1>2, <2>1, RepublishType DEF AdminRequestsTarget
    <3>3. republish' = ToRepublish(transition')
      BY <2>1 DEF AdminRequestsTarget
    <3> QED  BY <1>2, <3>2, <3>3 DEF AdminRequestsTarget, OthersTyped, TransitionTypeOK,
        FlowInv, TypeOK
  <2>2. CASE EffectiveTarget(transition') # target
    BY <1>2, <2>2 DEF AdminRequestsTarget, OthersTyped, TransitionTypeOK, FlowInv, TypeOK
  <2> QED  BY <2>1, <2>2
<1>4. StoreMove /\ RowsMove({})
  BY StoreStays, RowsStay, FreshStays DEF AdminRequestsTarget, publicationVars
<1> QED  BY <1>3, <1>4, NobodyKeeps DEF AdminRequestsTarget

LEMMA AdminProvisionsKeeps ==
    ASSUME FlowInv, AdminProvisions
    PROVE  FlowInv'
<1>1. TransitionTypeOK
  BY DEF FlowInv, TypeOK, PublicationTypeOK
<1>2. /\ transition' \in Transition
      /\ transition'.desired = "sharepoint_column" /\ transition'.provisioned
  BY <1>1 DEF AdminProvisions, SetColumnProvisioned, TransitionTypeOK, Transition,
     TransitionStatuses
<1>3. transition'.status # "active" => EffectiveTarget(transition') # "unset"
  BY <1>2 DEF EffectiveTarget
<1>4. OthersTyped'
  BY <1>2, <1>3, RepublishType DEF AdminProvisions, OthersTyped, TransitionTypeOK, FlowInv,
     TypeOK
<1>5. StoreMove /\ RowsMove({})
  BY StoreStays, RowsStay, FreshStays DEF AdminProvisions, publicationVars
<1> QED  BY <1>4, <1>5, NobodyKeeps DEF AdminProvisions

LEMMA AdminConfirmsKeeps ==
    ASSUME FlowInv, AdminConfirms
    PROVE  FlowInv'
<1>1. transition' \in Transition
  <2> PICK form : form = CurrentForm
    OBVIOUS
  <2>1. SetReindexRequested(form) \/ SetSearchVerified(form) \/ SetCopilotVerified(form)
    BY DEF AdminConfirms
  <2> QED  BY <2>1, ConfirmationGrows DEF Grows, FlowInv, TypeOK, PublicationTypeOK
<1>2. OthersTyped'
  BY <1>1, StatusTyped DEF AdminConfirms, flowVars
<1>3. StoreMove /\ RowsMove({})
  BY StoreStays, RowsStay, FreshStays DEF AdminConfirms, publicationVars, flowVars
<1> QED  BY <1>2, <1>3, NobodyKeeps DEF AdminConfirms, flowVars

LEMMA AdminRepublishesKeeps ==
    ASSUME FlowInv, NEW item \in republish, NEW r \in Requests, AdminRepublishes(item, r)
    PROVE  FlowInv'
<1>1. RowDoc(item[1]) \in Docs
  BY DEF FlowInv, TypeOK, Pairs, RowDoc
<1>2. UNCHANGED <<transition, work, lock, remote, faults>> /\ republish' = republish \ {item}
  BY DEF AdminRepublishes
<1>3. OthersTyped'
  BY <1>2 DEF OthersTyped, FlowInv, TypeOK, PublicationTypeOK, TransitionTypeOK
<1>4. CASE UNCHANGED <<storeVars, publicationVars>>
  <2>1. StoreMove /\ RowsMove({})
    BY <1>2, <1>4, StoreStays, RowsStay, FreshStays DEF publicationVars
  <2> QED  BY <1>2, <1>3, <2>1, NobodyKeeps
<1>5. CASE Submit(RowDoc(item[1]), r, "upsert")
  <2>1. StoreMove /\ RowsMove({})
    BY <1>1, <1>2, <1>5, SubmitMoves DEF JobTypes
  <2> QED  BY <1>2, <1>3, <2>1, NobodyKeeps
<1> QED  BY <1>4, <1>5 DEF AdminRepublishes

-----------------------------------------------------------------------------
(* Claims, leases and crashes. *)

LEMMA ClaimKeeps ==
    ASSUME FlowInv, NEW w \in Workers, Claim(w)
    PROVE  FlowInv'
<1>1. PICK j \in JobIds :
        /\ ClaimJob(w, j)
        /\ work' = [work EXCEPT ![w] = [Idle EXCEPT !.pc = "claimed", !.job = j,
                                                    !.attempt = NextAttempt(j)]]
  BY DEF Claim
<1>2. StoreMove /\ Known(j) /\ NextAttempt(j) \in 0..MaxAttempts
  BY <1>1, ClaimMoves DEF Claim
<1> PICK n \in 0..MaxAttempts : n = NextAttempt(j)
  BY <1>2
<1> DEFINE l == [Idle EXCEPT !.pc = "claimed", !.job = j, !.attempt = n]
<1>3. l \in Locals /\ l.pc = "claimed" /\ l.job = j /\ ~l.bare /\ l.todo = {}
  BY DEF Idle, Locals, Labels
<1>4. work' = [work EXCEPT ![w] = l] /\ lock' = lock
  BY <1>1 DEF Claim
<1> HIDE DEF l
<1>5. Placed(w) /\ work'[w] = l
  BY <1>3, <1>4, PlacesUnderLock DEF Claim, At, LockLabels, PublishLabels, RemoveLabels
<1>6. Known(j)'
  BY <1>2 DEF StoreMove
<1>7. j # None
  BY NullAssumption
<1>8. Stands(w)'
  BY <1>3, <1>5, <1>6, <1>7 DEF Stands, InScope, PairInv, DeleteSeesRows, IsPass, Known,
     PassLabels, PublishLabels, RemoveLabels
<1>9. RowsMove(Own(w)) /\ \A q \in Pairs : PairAgrees(q)'
  BY RowsStay, FreshStays DEF Claim, publicationVars
<1>10. OthersTyped'
  BY OthersStay DEF Claim
<1> QED  BY <1>2, <1>5, <1>8, <1>9, <1>10, StepKeeps

LEMMA LeaseExpiresKeeps ==
    ASSUME FlowInv, NEW j \in JobIds, LeaseExpires(j)
    PROVE  FlowInv'
<1>1. jobs \in [JobIds -> Job]
  BY DEF FlowInv, TypeOK, PublicationTypeOK, StoreTypeOK
<1>2. jobs' \in [JobIds -> Job] /\ \A k \in JobIds : Known(k)' <=> Known(k)
  BY <1>1 DEF LeaseExpires, Job, Known
<1>3. StoreMove
  BY <1>2, JobsMove DEF LeaseExpires
<1>4. RowsMove({})
  BY RowsStay, FreshStays DEF LeaseExpires, publicationVars
<1>5. OthersTyped'
  BY OthersStay, FaultCounted DEF LeaseExpires
<1> QED  BY <1>3, <1>4, <1>5, NobodyKeeps DEF LeaseExpires

LEMMA CrashKeeps ==
    ASSUME FlowInv, NEW w \in Workers, Crash(w)
    PROVE  FlowInv'
<1>1. StoreMove /\ OthersTyped'
  BY StoreStays, FaultCounted DEF Crash
<1>2. fresh' \subseteq Workers \X Pairs
  BY FreshStays DEF Crash
<1>3. RowsMove(Own(w)) /\ \A q \in Pairs : PairAgrees(q)'
  BY <1>2, RowsStay DEF Crash
<1> QED  BY <1>1, <1>3, DropKeeps DEF Crash

-----------------------------------------------------------------------------
(* The passes. *)

\* A pass relies on nothing but the row it has read.
LEMMA PassStands ==
    ASSUME NEW w \in Workers, work'[w].pc \in PassLabels, work'[w].job = None,
           ~work'[w].bare, work'[w].seen \in Transition
    PROVE  Stands(w)'
BY DEF Stands, InScope, PairInv, DeleteSeesRows, IsPass, PassLabels, PublishLabels,
   RemoveLabels

\* A pass that goes on to look, and one that is over, leave the tables alone.
LEMMA PassGoesOn ==
    ASSUME FlowInv, NEW w \in Workers, NEW l \in Locals,
           work' = [work EXCEPT ![w] = l], lock' = lock,
           l.pc \in PassLabels, l.job = None, ~l.bare, l.seen \in Transition,
           work[w].pc \in PassLabels \cup {"idle"},
           UNCHANGED <<storeVars, publicationVars, remote>>, OthersTyped'
    PROVE  FlowInv'
<1>1. Placed(w) /\ work'[w] = l
  BY PlacesUnderLock DEF PassLabels, LockLabels, PublishLabels, RemoveLabels
<1>2. Stands(w)'
  BY <1>1, PassStands
<1>3. RowsMove(Own(w)) /\ \A q \in Pairs : PairAgrees(q)'
  BY RowsStay, FreshStays DEF publicationVars
<1> QED  BY <1>1, <1>2, <1>3, StoreStays, StepKeeps

LEMMA PassEnds ==
    ASSUME FlowInv, NEW w \in Workers, Drop(w),
           UNCHANGED <<storeVars, publicationVars, remote>>, OthersTyped'
    PROVE  FlowInv'
<1>1. RowsMove(Own(w)) /\ \A q \in Pairs : PairAgrees(q)'
  BY RowsStay, FreshStays DEF publicationVars
<1> QED  BY <1>1, StoreStays, DropKeeps

LEMMA PassAt ==
    ASSUME FlowInv, NEW w \in Workers, work[w].pc \in PassLabels
    PROVE  work[w].job = None /\ ~work[w].bare /\ work[w].seen \in Transition
BY LocalsOf DEF InScope, IsPass

LEMMA SetStatusType ==
    ASSUME FlowInv, NEW w, NEW status \in TransitionStatuses,
           NEW error \in {"", "not_provisioned", "cleanup"}, SetStatus(w, status, error)
    PROVE  transition' \in Transition
BY DEF SetStatus, SetTransitionStatus, FlowInv, TypeOK, PublicationTypeOK, TransitionTypeOK,
   Transition

LEMMA BeginPassKeeps ==
    ASSUME FlowInv, NEW w \in Workers, BeginPass(w)
    PROVE  FlowInv'
<1> DEFINE l == [Idle EXCEPT !.pc = "advance", !.seen = transition]
<1>1. transition \in Transition
  BY DEF FlowInv, TypeOK, PublicationTypeOK, TransitionTypeOK
<1>2. 0 \in 0..MaxAttempts
  BY StoreAssumption
<1>3. /\ l \in Locals /\ l.pc = "advance" /\ l.job = None /\ ~l.bare
      /\ l.seen = transition
  BY <1>1, <1>2 DEF Idle, Locals, Labels
<1>4. work' = [work EXCEPT ![w] = l] /\ lock' = lock
  BY DEF BeginPass
<1> HIDE DEF l
<1> QED  BY <1>1, <1>3, <1>4, OthersStay, PassGoesOn DEF BeginPass, At, PassLabels

LEMMA ListDocumentsKeeps ==
    ASSUME FlowInv, NEW w \in Workers, ListDocuments(w)
    PROVE  FlowInv'
<1> DEFINE l == [work[w] EXCEPT !.pc = "rows", !.listed = docs]
<1>1. docs \in [Docs -> Document]
  BY DEF FlowInv, TypeOK, PublicationTypeOK, StoreTypeOK
<1>2. work[w].pc \in PassLabels
  BY DEF ListDocuments, At, PassLabels
<1>3. /\ l \in Locals /\ l.pc = "rows" /\ l.job = None /\ ~l.bare
      /\ l.seen \in Transition
  BY <1>1, <1>2, LocalsOf, PassAt DEF Locals, Labels
<1>4. work' = [work EXCEPT ![w] = l] /\ lock' = lock
  BY Zenon DEF ListDocuments
<1> HIDE DEF l
<1> QED  BY <1>2, <1>3, <1>4, OthersStay, PassGoesOn DEF ListDocuments, PassLabels

LEMMA ColumnMissingKeeps ==
    ASSUME FlowInv, NEW w \in Workers, ColumnMissing(w)
    PROVE  FlowInv'
<1>1. transition' \in Transition
  BY SetStatusType DEF ColumnMissing, TransitionStatuses
<1> QED  BY <1>1, StatusTyped, PassEnds DEF ColumnMissing

LEMMA AwaitStepKeeps ==
    ASSUME FlowInv, NEW w \in Workers, AwaitStep(w)
    PROVE  FlowInv'
<1>1. PICK status \in TransitionStatuses : SetStatus(w, status, "")
  BY DEF AwaitStep, Awaited, TransitionStatuses
<1>2. transition' \in Transition
  BY <1>1, SetStatusType
<1> QED  BY <1>2, StatusTyped, PassEnds DEF AwaitStep

LEMMA QueuesKeep ==
    ASSUME FlowInv, NEW w \in Workers, WaitForDocuments(w) \/ RequeueMissing(w)
    PROVE  FlowInv'
<1>1. Drop(w) /\ UNCHANGED <<transition, remote, republish, faults>>
  BY DEF WaitForDocuments, RequeueMissing
<1>2. CASE \E d \in Docs, r \in Requests : Submit(d, r, "upsert")
  <2>1. PICK d \in Docs, r \in Requests : Submit(d, r, "upsert")
    BY <1>2
  <2>2. StoreMove /\ RowsMove(Own(w)) /\ \A p \in Pairs : PairAgrees(p)'
    BY <1>1, <2>1, SubmitMoves DEF JobTypes
  <2> QED  BY <1>1, <2>2, OthersStay, DropKeeps
<1>3. CASE UNCHANGED <<storeVars, publicationVars>>
  BY <1>1, <1>3, OthersStay, PassEnds
<1> QED  BY <1>2, <1>3 DEF WaitForDocuments, RequeueMissing, Waiting, ListedDesired

LEMMA ListToCleanKeeps ==
    ASSUME FlowInv, NEW w \in Workers, ListToClean(w)
    PROVE  FlowInv'
<1> DEFINE found == UNION {RowsAt(t) : t \in ToClean(work[w].seen)}
           l     == [work[w] EXCEPT !.pc = "clean", !.todo = found]
<1>1. work[w].pc \in PassLabels
  BY DEF ListToClean, At, PassLabels
<1>2. transition' \in Transition
  <2>1. transition \in Transition
    BY DEF FlowInv, TypeOK, PublicationTypeOK, TransitionTypeOK
  <2> QED  BY <2>1, SetStatusType DEF ListToClean, TransitionStatuses
<1>3. OthersTyped'
  BY <1>2, StatusTyped DEF ListToClean
<1>4. CASE work' = [work EXCEPT ![w] = l] /\ lock' = lock
  <2>1. found \in SUBSET Pairs
    BY DEF RowsAt
  <2> HIDE DEF found
  <2>2. /\ l \in Locals /\ l.pc = "clean" /\ l.job = None /\ ~l.bare
        /\ l.seen \in Transition
    BY <1>1, <2>1, LocalsOf, PassAt DEF Locals, Labels
  <2> HIDE DEF l
  <2> QED  BY <1>1, <1>3, <1>4, <2>2, PassGoesOn DEF ListToClean, PassLabels
<1>5. CASE Drop(w)
  BY <1>3, <1>5, PassEnds DEF ListToClean
<1>6. (work' = [work EXCEPT ![w] = l] /\ lock' = lock) \/ Drop(w)
  BY Zenon DEF ListToClean
<1> QED  BY <1>4, <1>5, <1>6

LEMMA CleanedUpKeeps ==
    ASSUME FlowInv, NEW w \in Workers, CleanedUp(w)
    PROVE  FlowInv'
<1> DEFINE l == [work[w] EXCEPT !.pc = "activate"]
<1>1. work[w].pc \in PassLabels
  BY DEF CleanedUp, At, PassLabels
<1>2. /\ l \in Locals /\ l.pc = "activate" /\ l.job = None /\ ~l.bare
      /\ l.seen \in Transition
  BY <1>1, LocalsOf, PassAt DEF Locals, Labels
<1>3. CASE work' = [work EXCEPT ![w] = l] /\ lock' = lock
  <2> HIDE DEF l
  <2> QED  BY <1>1, <1>2, <1>3, OthersStay, PassGoesOn DEF CleanedUp, PassLabels
<1>4. CASE Drop(w)
  BY <1>4, OthersStay, PassEnds DEF CleanedUp
<1> QED  BY <1>3, <1>4 DEF CleanedUp, Goto

LEMMA ActivateKeeps ==
    ASSUME FlowInv, NEW w \in Workers, Activate(w)
    PROVE  FlowInv'
<1>1. transition' \in Transition
  <2>1. TransitionTypeOK
    BY DEF FlowInv, TypeOK, PublicationTypeOK
  <2> PICK s : s = work[w].seen
    OBVIOUS
  <2>2. ActivateTarget(s) \/ transition' = transition
    BY DEF Activate
  <2> QED  BY <2>1, <2>2, ActivationGrows DEF Grows, TransitionTypeOK
<1> QED  BY <1>1, StatusTyped, PassEnds DEF Activate

-----------------------------------------------------------------------------
(* The invariant. *)

LEMMA FlowStarts == Init => FlowInv
<1> SUFFICES ASSUME Init PROVE FlowInv
  OBVIOUS
<1> USE DEF Init, WorkersIdle
<1>1. 0 \in 0..MaxAttempts /\ 1 \in 0..MaxAttempts /\ 0 \in 0..MaxGeneration
      /\ 0 \in 0..MaxFaults /\ 0 \in RequestIds /\ 1 \in RequestIds
      /\ \A r \in Requests : r \in Nat /\ r # 0
  BY StoreAssumption, GenerationAssumption, FaultsAssumption DEF RequestIds, Requests
<1>2. TransitionTypeOK
  <2>1. TransitionInit
    BY DEF FreshStore, PublishedStore
  <2>2. PICK initial \in {"unset", "copilot_connector"} :
          transition = [active |-> initial, desired |-> initial, generation |-> 0,
                        status |-> "active", provisioned |-> FALSE, reindexed |-> FALSE,
                        searched |-> FALSE, asked |-> FALSE, error |-> ""]
    BY <2>1 DEF TransitionInit
  <2>3. initial \in Targets
    BY DEF Targets
  <2> QED  BY <1>1, <2>2, <2>3 DEF TransitionTypeOK, Transition, TransitionStatuses
<1>3. Idle \in Locals /\ Idle.pc = "idle" /\ Idle.job = None /\ ~Idle.bare
  BY <1>1 DEF Idle, Locals, Labels
<1>4. NoRow \in Publication /\ NoRow.status = "none"
  BY NoOperationType DEF NoRow
<1>5. StoreTypeOK /\ rows \in [Pairs -> Publication] /\ remote \in [Pairs -> RequestIds]
  <2>1. CASE FreshStore
    BY <1>1, <1>4, <2>1 DEF FreshStore, StoreInit, StoreTypeOK, Document, DocStatuses, Job,
       JobStatuses, NoRequest
  <2>2. CASE PublishedStore
    <3>1. docs \in [Docs -> Document] /\ lastRequest \in RequestIds
      BY <1>1, <2>2 DEF PublishedStore, Document, DocStatuses
    <3>2. jobs \in [JobIds -> Job]
      BY <1>1, <2>2 DEF PublishedStore, Job, JobStatuses
    <3> PICK ready : ready = [NoRow EXCEPT !.status = "ready", !.content = 1]
      OBVIOUS
    <3>3. ready \in Publication
      BY <1>1, <1>4 DEF Publication, RowStatuses
    <3>4. rows \in [Pairs -> Publication] /\ remote \in [Pairs -> RequestIds]
      BY <1>1, <1>4, <2>2, <3>3 DEF PublishedStore
    <3> QED  BY <3>1, <3>2, <3>4 DEF StoreTypeOK
  <2> QED  BY <2>1, <2>2
<1>6. TypeOK
  BY <1>1, <1>2, <1>3, <1>5 DEF TypeOK, PublicationTypeOK
<1>7. LocksInv /\ \A w \in Workers : InScope(w) /\ PairInv(w) /\ DeleteSeesRows(w)
  BY <1>3 DEF LocksInv, InScope, PairInv, DeleteSeesRows, IsPass, LockLabels, PassLabels,
     PublishLabels, RemoveLabels
<1>8. \A p \in Pairs : PairAgrees(p)
  <2>1. CASE FreshStore
    BY <1>4, <2>1 DEF FreshStore, PairAgrees, NoRequest
  <2>2. CASE PublishedStore
    BY <1>4, <2>2, NoOperationType DEF PublishedStore, PairAgrees, NoRequest, HasRow, NoRow
  <2> QED  BY <2>1, <2>2
<1>9. RequestsInv /\ WithdrawnHasNoRow
  <2>1. CASE FreshStore
    BY <1>1, <2>1, JobParts DEF FreshStore, StoreInit, RequestsInv, WithdrawnHasNoRow, Known,
       NoRequest
  <2>2. CASE PublishedStore
    BY <1>1, <2>2, JobParts DEF PublishedStore, RequestsInv, WithdrawnHasNoRow, Known
  <2> QED  BY <2>1, <2>2
<1> QED  BY <1>6, <1>7, <1>8, <1>9 DEF FlowInv, PairAgrees, ReadyRowsArePublished,
    PublishedHasRow

LEMMA NothingMoves ==
    ASSUME FlowInv, UNCHANGED vars
    PROVE  FlowInv'
<1>1. StoreMove /\ RowsMove({}) /\ OthersTyped'
  BY StoreStays, RowsStay, FreshStays, OthersStay DEF vars, publicationVars, flowVars
<1> QED  BY <1>1, NobodyKeeps DEF vars, flowVars

LEMMA FlowGoesOn == FlowInv /\ [Next]_vars => FlowInv'
<1> SUFFICES ASSUME FlowInv, [Next]_vars PROVE FlowInv'
  OBVIOUS
<1>1. CASE UNCHANGED vars
  BY <1>1, NothingMoves
<1>2. ASSUME NEW d \in Docs, NEW r \in Requests, NEW type \in JobTypes,
             UserRequest(d, r, type)
      PROVE  FlowInv'
  BY <1>2, UserRequestKeeps
<1>3. ASSUME NEW target \in Targets, AdminRequestsTarget(target)
      PROVE  FlowInv'
  BY <1>3, AdminRequestsKeeps
<1>4. CASE AdminStep
  BY <1>4, AdminProvisionsKeeps, AdminConfirmsKeeps, AdminRepublishesKeeps DEF AdminStep
<1>5. ASSUME NEW w \in Workers, PublishStep(w)
      PROVE  FlowInv'
  BY <1>5, ProcessKeeps, GuardKeeps, PublishKeeps, VerifyKeeps, RecordPublishedKeeps
     DEF PublishStep
<1>6. ASSUME NEW w \in Workers, RemoveStep(w)
      PROVE  FlowInv'
  BY <1>6, FenceKeeps, ClaimRemovalKeeps, CheckRemovalClaimKeeps, RemoteRemoveKeeps,
     ForgetRowKeeps, ConflictKeeps DEF RemoveStep
<1>7. ASSUME NEW w \in Workers, OutcomeStep(w)
      PROVE  FlowInv'
  BY <1>7, BeginJobKeeps, CommitKeeps, CompleteKeeps, StaleKeeps, JudgeErrorKeeps,
     RecordErrorKeeps DEF OutcomeStep
<1>8. ASSUME NEW w \in Workers, PassStep(w)
      PROVE  FlowInv'
  BY <1>8, ColumnMissingKeeps, ListDocumentsKeeps, QueuesKeep, AwaitStepKeeps,
     ListToCleanKeeps, CleanedUpKeeps, ActivateKeeps DEF PassStep
<1>9. ASSUME NEW w \in Workers,
             \/ Claim(w) \/ Lock(w) \/ BeginPass(w) \/ PublishFails(w)
             \/ RemoteRemoveFails(w) \/ Crash(w)
      PROVE  FlowInv'
  BY <1>9, ClaimKeeps, LockKeeps, BeginPassKeeps, PublishFailsKeeps, RemoteRemoveFailsKeeps,
     CrashKeeps
<1>10. ASSUME NEW j \in JobIds, LeaseExpires(j)
       PROVE  FlowInv'
  BY <1>10, LeaseExpiresKeeps
<1> QED
  BY <1>1, <1>2, <1>3, <1>4, <1>5, <1>6, <1>7, <1>8, <1>9, <1>10 DEF Next, Step

\* The places and locks of the workers, what they rely on under a lock, and what the
\* requests have announced hold together at every step of _process_upsert,
\* _process_delete, the passes and the requests.
THEOREM PublicationInvariantHolds == Spec => []FlowInv
BY FlowStarts, FlowGoesOn, PTL DEF Spec

\* Whoever wrote last, a target holds nothing without a row, a row that says ready
\* describes what the target holds, and a document that was withdrawn is in no target.
THEOREM TargetsAgree == Spec => []TargetsMatchTheirRows
<1>1. FlowInv => TargetsMatchTheirRows
  BY DEF FlowInv, TargetsMatchTheirRows, WithdrawnLeavesNothing, WithdrawnHasNoRow,
     PublishedHasRow, RowsOf
<1> QED  BY <1>1, PublicationInvariantHolds, PTL
=============================================================================
