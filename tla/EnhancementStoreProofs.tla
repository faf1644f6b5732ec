----------------------- MODULE EnhancementStoreProofs -----------------------
(***************************************************************************)
(* What the transactions of EnhancementStore do to the tables, for any     *)
(* documents, workers and bounds: the lemmas the proofs about the models   *)
(* built on it share.                                                      *)
(***************************************************************************)
EXTENDS EnhancementStore, FiniteSetTheorems, TLAPS

-----------------------------------------------------------------------------
(* Types. *)

\* The unique index ranges over finitely many jobs, so jobs can be counted.
LEMMA JobIdsFinite == IsFiniteSet(JobIds)
<1> DEFINE Pairs  == (Docs \X Requests) \X JobTypes
           f      == [p \in Pairs |-> <<p[1][1], p[1][2], p[2]>>]
<1>1. IsFiniteSet(Requests)
  BY FS_Interval, StoreAssumption DEF Requests
<1>2. IsFiniteSet(JobTypes)
  <2>1. IsFiniteSet({"upsert"} \cup {"delete"})
    BY FS_Singleton, FS_Union
  <2> QED  BY <2>1 DEF JobTypes
<1>3. IsFiniteSet(Docs \X Requests)
  BY <1>1, FS_Product, StoreAssumption
<1>4. IsFiniteSet(Pairs)
  BY <1>2, <1>3, FS_Product
<1>5. f \in Surjection(Pairs, JobIds)
  <2>1. f \in [Pairs -> JobIds]
    BY DEF JobIds
  <2>2. ASSUME NEW j \in JobIds PROVE \E p \in Pairs : f[p] = j
    <3> DEFINE p == <<<<j[1], j[2]>>, j[3]>>
    <3>1. p \in Pairs /\ f[p] = j  BY DEF JobIds
    <3> QED  BY <3>1
  <2> QED  BY <2>1, <2>2 DEF Surjection
<1> QED  BY <1>4, <1>5, FS_Surjection

LEMMA CountIsNat ==
    ASSUME NEW S \in SUBSET JobIds
    PROVE  Cardinality(S) \in Nat
BY JobIdsFinite, FS_Subset, FS_CardinalityType

LEMMA EnqueuedType ==
    ASSUME StoreTypeOK, NEW j \in JobIds
    PROVE  Enqueued(j) \in [JobIds -> Job]
<1> DEFINE known == {k \in JobIds : jobs[k].status # "absent"}
<1>1. Cardinality(known) \in Nat
  BY CountIsNat
<1>2. [status |-> "queued", attempts |-> 0, owner |-> None, leased |-> FALSE,
       queuedAt |-> 1 + Cardinality(known)] \in Job
  BY <1>1, StoreAssumption DEF Job, JobStatuses
<1> HIDE DEF known
<1>3. jobs \in [JobIds -> Job]
  BY DEF StoreTypeOK
<1>4. CASE jobs[j].status # "absent"
  BY <1>3, <1>4 DEF Enqueued
<1>5. CASE jobs[j].status = "absent"
  BY <1>2, <1>3, <1>5 DEF Enqueued, known
<1> QED  BY <1>4, <1>5

LEMMA UpsertType ==
    ASSUME StoreTypeOK, NEW d \in Docs, NEW r \in Requests, NEW type \in JobTypes,
           NEW status \in DocStatuses, UpsertDocumentAndEnqueue(d, r, type, status)
    PROVE  /\ docs' \in [Docs -> Document]
           /\ jobs' \in [JobIds -> Job]
<1>1. <<d, r, type>> \in JobIds
  BY DEF JobIds
<1>2. r \in RequestIds
  BY StoreAssumption DEF Requests, RequestIds
<1>3. docs' \in [Docs -> Document]
  <2> DEFINE wanted == (type = "upsert")
  <2>1. wanted \in BOOLEAN
    OBVIOUS
  <2>2. docs' = [docs EXCEPT ![d].desired = wanted, ![d].status = status,
                             ![d].request = r]
    BY DEF UpsertDocumentAndEnqueue
  <2> HIDE DEF wanted
  <2> QED  BY <1>2, <2>1, <2>2 DEF StoreTypeOK, Document
<1>4. jobs' \in [JobIds -> Job]
  BY <1>1, EnqueuedType DEF UpsertDocumentAndEnqueue
<1> QED  BY <1>3, <1>4

LEMMA ClaimType ==
    ASSUME StoreTypeOK, NEW w \in Workers, NEW j \in JobIds, ClaimJob(w, j)
    PROVE  jobs' \in [JobIds -> Job] /\ NextAttempt(j) \in 0..MaxAttempts
<1>1. NextAttempt(j) \in 0..MaxAttempts
  BY StoreAssumption DEF NextAttempt, StoreTypeOK, Job
<1> DEFINE n == NextAttempt(j)
<1> HIDE DEF n
<1>2. jobs' = [jobs EXCEPT ![j].status = "processing", ![j].attempts = n,
                           ![j].owner = w, ![j].leased = TRUE]
  BY DEF ClaimJob, n
<1>3. n \in 0..MaxAttempts
  BY <1>1 DEF n
<1>4. jobs' \in [JobIds -> Job]
  <2> DEFINE row == [jobs[j] EXCEPT !.status = "processing", !.attempts = n,
                                    !.owner = w, !.leased = TRUE]
  <2>1. jobs[j] \in Job /\ jobs \in [JobIds -> Job]
    BY DEF StoreTypeOK
  <2>2. row \in Job
    BY <1>3, <2>1 DEF Job, JobStatuses
  <2>3. jobs' = [jobs EXCEPT ![j] = row]
    BY <1>2, Zenon
  <2> HIDE DEF row
  <2> QED  BY <2>1, <2>2, <2>3
<1> QED  BY <1>1, <1>4

LEMMA CloseType ==
    ASSUME StoreTypeOK, NEW w, NEW j, NEW a,
           NEW status \in JobStatuses, CloseJob(w, j, a, status)
    PROVE  jobs' \in [JobIds -> Job]
BY StoreAssumption DEF CloseJob, StoreTypeOK, Job

LEMMA OutcomeType ==
    ASSUME StoreTypeOK, NEW d \in Docs, NEW r \in RequestIds,
           RecordSuccess(d, r) \/ RecordRemoved(d, r) \/ RecordDocumentError(d)
    PROVE  docs' \in [Docs -> Document]
<1> USE DEF StoreTypeOK, Document, DocStatuses
<1>1. CASE RecordSuccess(d, r)
  BY <1>1 DEF RecordSuccess
<1>2. CASE RecordRemoved(d, r)
  BY <1>2 DEF RecordRemoved
<1>3. CASE RecordDocumentError(d)
  BY <1>3 DEF RecordDocumentError
<1> QED  BY <1>1, <1>2, <1>3

LEMMA FreshType ==
    ASSUME NEW r \in Requests, FreshRequest(r)
    PROVE  lastRequest' \in RequestIds /\ r \in RequestIds
BY StoreAssumption DEF FreshRequest, Requests, RequestIds

-----------------------------------------------------------------------------
(* Job rows. *)

\* INSERT ... ON CONFLICT DO NOTHING changes at most the row it names.
LEMMA EnqueuedRow ==
    ASSUME StoreTypeOK, NEW k \in JobIds, jobs' = Enqueued(k), NEW j \in JobIds
    PROVE  \/ jobs'[j] = jobs[j]
           \/ j = k /\ jobs[j].status = "absent" /\ jobs'[j].status = "queued" /\ jobs'[j].owner = None
<1> USE DEF StoreTypeOK
<1>1. CASE jobs[k].status # "absent"
  BY <1>1 DEF Enqueued
<1>2. CASE jobs[k].status = "absent"
  <2> DEFINE n == 1 + Cardinality({m \in JobIds : jobs[m].status # "absent"})
  <2>1. jobs' = [jobs EXCEPT ![k] = [status |-> "queued", attempts |-> 0,
                                     owner |-> None, leased |-> FALSE,
                                     queuedAt |-> n]]
    BY <1>2 DEF Enqueued
  <2> HIDE DEF n
  <2> QED  BY <1>2, <2>1
<1> QED  BY <1>1, <1>2

\* Whatever the row was, the job is known afterwards.
LEMMA EnqueuedKeepsKnown ==
    ASSUME StoreTypeOK, NEW k \in JobIds, jobs' = Enqueued(k)
    PROVE  jobs'[k].status # "absent"
<1> USE DEF StoreTypeOK
<1>1. CASE jobs[k].status # "absent"
  BY <1>1 DEF Enqueued
<1>2. CASE jobs[k].status = "absent"
  <2> DEFINE n == 1 + Cardinality({m \in JobIds : jobs[m].status # "absent"})
  <2>1. jobs' = [jobs EXCEPT ![k] = [status |-> "queued", attempts |-> 0,
                                     owner |-> None, leased |-> FALSE,
                                     queuedAt |-> n]]
    BY <1>2 DEF Enqueued
  <2> HIDE DEF n
  <2> QED  BY <2>1
<1> QED  BY <1>1, <1>2
=============================================================================
