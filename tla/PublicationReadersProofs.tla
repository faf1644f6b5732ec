----------------------- MODULE PublicationReadersProofs -----------------------
(***************************************************************************)
(* Proof that ReadersInv is an invariant of PublicationFlow: what was      *)
(* published for the running switch serves its readers, and no worker that *)
(* read an older row undoes it.  From it: a target becomes active only     *)
(* when it serves every document.  Then ServingInv, which adds what lasts  *)
(* of a ready document while others write and remove: it is found in a     *)
(* target at every step of a switch.  Last, the row among all of this: it  *)
(* goes through switches as TargetSwitch describes them.                   *)
(***************************************************************************)
EXTENDS PublicationProofs

-----------------------------------------------------------------------------
(* What a step may do. *)

\* To the transition, unless it begins another switch.
SwitchStays ==
    /\ transition'.generation = transition.generation
    /\ transition'.desired = transition.desired
    /\ transition.provisioned => transition'.provisioned
    /\ transition'.status = "active" => transition'.active = transition'.desired
    /\ transition'.desired = "unset" => transition'.status = "active"
    /\ DesiredIsEffective => DesiredIsEffective'

\* To a document: only the commit of a worker that has published everything makes
\* it ready, and only a commit settles a request.
Settles(w, d) ==
    /\ ~IsPass(w) /\ MayCommit(w) /\ work[w].pc = "targets" /\ TheDoc(w) = d
    /\ work'[w].pc = "complete"

Commits(w, d) ==
    /\ Settles(w, d) /\ ~IsDelete(w) /\ work[w].todo = {}
    /\ docs'[d].request = docs[d].request
    /\ rows' = rows

DocsStep ==
    \A d \in Docs :
        /\ docs'[d].status = "Ready" => docs'[d] = docs[d] \/ \E w \in Workers : Commits(w, d)
        /\ docs'[d].processed # docs[d].processed => \E w \in Workers : Settles(w, d)

\* To a row: a worker that may commit takes it back, a newer request does, or it
\* stays; and it becomes ready under its lock.
TakesBack(w, p) ==
    /\ Publishing(w) /\ MayCommit(w) /\ TheDoc(w) = RowDoc(p)
    /\ work'[w] # work[w]

Records(w, p) ==
    /\ work[w].pc = "record" /\ lock[w] = p
    /\ rows'[p].generation = work[w].seen.generation
    /\ docs' = docs

RowsStep ==
    \A p \in Pairs :
        /\ rows'[p].generation <= transition.generation
        /\ ServedPair(p) =>
             \/ rows'[p] = rows[p]
             \/ docs'[RowDoc(p)].request # docs[RowDoc(p)].request
             \/ \E w \in Workers : TakesBack(w, p)
        /\ rows'[p].status = "ready" =>
             rows'[p] = rows[p] \/ \E w \in Workers : Records(w, p)

\* To the claims: none becomes current under a worker that publishes.
ClaimsStay ==
    \A v \in Workers :
        /\ Publishing(v)
        /\ docs'[TheDoc(v)].request = TheRequest(v)
        /\ jobs'[work[v].job].status = "processing"
        /\ jobs'[work[v].job].attempts = work[v].attempt
        /\ jobs'[work[v].job].owner = v
        => MayCommit(v)

TablesStep == DocsStep /\ RowsStep /\ ClaimsStay /\ DocsInv'

\* To a worker that publishes: it works from the row it worked from before, or from
\* the transition of now.
GoesOn(w) ==
    Publishing(w)' => \/ /\ Publishing(w)
                         /\ work'[w].job = work[w].job
                         /\ work'[w].attempt = work[w].attempt
                         /\ work'[w].seen = work[w].seen
                      \/ work'[w].seen = transition

\* A step of the workers in A within a switch.
SameSwitch(A) ==
    /\ SwitchStays
    /\ TablesStep
    /\ \A v \in Workers \ A : work'[v] = work[v] /\ lock'[v] = lock[v]
    /\ \A w \in A : GoesOn(w)

WorkerParts(v) ==
    SeenInv(v) /\ TodoInv(v) /\ CommitInv(v) /\ WriteInv(v) /\ RemoveInv(v) /\ PassInv(v)

-----------------------------------------------------------------------------
(* Facts about one state. *)

LEMMA ReadersParts ==
    ASSUME ReadersInv
    PROVE  /\ FlowInv /\ DocsInv /\ TransitionInv
           /\ \A p \in Pairs : ServedInv(p)
           /\ \A w \in Workers : WorkerParts(w)
BY DEF ReadersInv, WorkerParts

LEMMA StateTypes ==
    ASSUME FlowInv
    PROVE  /\ transition \in Transition
           /\ docs \in [Docs -> Document] /\ jobs \in [JobIds -> Job]
           /\ rows \in [Pairs -> Publication]
           /\ work \in [Workers -> Locals]
           /\ lock \in [Workers -> Pairs \cup {None}]
BY DEF FlowInv, TypeOK, PublicationTypeOK, StoreTypeOK, TransitionTypeOK

LEMMA GenerationType ==
    ASSUME NEW t \in Transition
    PROVE  t.generation \in Nat
<1>1. t.generation \in 0..MaxGeneration
  BY DEF Transition
<1> QED  BY <1>1, GenerationAssumption

LEMMA PublisherHas ==
    ASSUME FlowInv, NEW w \in Workers, Publishing(w)
    PROVE  /\ work[w].job \in JobIds /\ Known(work[w].job)
           /\ TheDoc(w) \in Docs /\ TheRequest(w) \in Requests
           /\ TypeOf(work[w].job) = "upsert"
           /\ work[w].seen \in Transition
<1>1. /\ ~IsPass(w) /\ ~IsDelete(w)
      /\ work[w].pc \in PublishLabels \cup {"process", "targets"}
  BY DEF Publishing
<1>2. work[w].job \in JobIds /\ Known(work[w].job)
  BY <1>1, LocalsOf, JobAt DEF InScope
<1>3. work[w].seen \in Transition
  BY <1>1, LocalsOf DEF InScope
<1> QED  BY <1>1, <1>2, <1>3, JobParts DEF TheDoc, TheRequest, IsDelete, JobTypes

\* One claim of a request's job at a time, and no request of both types.
LEMMA OneCommitter ==
    ASSUME FlowInv, NEW v \in Workers, NEW w \in Workers,
           Publishing(v), MayCommit(v), ~IsPass(w), MayCommit(w), TheDoc(v) = TheDoc(w)
    PROVE  v = w
<1>1. work[v].job \in JobIds /\ Known(work[v].job) /\ TypeOf(work[v].job) = "upsert"
  BY PublisherHas
<1>0. work[w].job \in JobIds /\ Known(work[w].job)
  BY LocalsOf, JobAt DEF InScope
<1>2. /\ RequestOf(work[v].job) = docs[TheDoc(v)].request
      /\ RequestOf(work[w].job) = docs[TheDoc(v)].request
  BY DEF MayCommit, StillCurrent, RequestIsCurrent, TheRequest
<1>3. docs[TheDoc(v)].desired /\ TypeOf(work[w].job) = "upsert"
  BY <1>0, <1>1, <1>2, JobParts DEF FlowInv, RequestsInv, TheDoc, JobTypes
<1>4. work[v].job = work[w].job
  BY <1>0, <1>1, <1>2, <1>3 DEF JobIds, TheDoc, DocOf, RequestOf, TypeOf
<1> QED  BY <1>4 DEF MayCommit, ClaimIsCurrent, JobClaimIsCurrent

\* A document is not ready while somebody may record an outcome for it.
LEMMA UnsettledIsNotReady ==
    ASSUME ReadersInv, NEW w \in Workers, Publishing(w), MayCommit(w)
    PROVE  docs[TheDoc(w)].status # "Ready"
BY ReadersParts, PublisherHas
DEF WorkerParts, CommitInv, DocsInv, MayCommit, StillCurrent, RequestIsCurrent

\* Whoever publishes to the desired target of this generation read a row of which it
\* was the effective one, and it still is.
LEMMA InsiderTarget ==
    ASSUME ReadersInv, NEW w \in Workers, work[w].pc \in PublishLabels,
           work[w].seen.generation = transition.generation,
           RowTarget(lock[w]) = transition.desired
    PROVE  OfThisSwitch(work[w].seen) /\ DesiredIsEffective
<1>1. /\ FlowInv /\ SeenInv(w) /\ TodoInv(w) /\ TransitionInv
      /\ Publishing(w) /\ work[w].pc # "process" /\ work[w].pc \in LockLabels
  BY ReadersParts, JobAt DEF WorkerParts, Publishing, PublishLabels, LockLabels
<1>2. work[w].seen \in Transition
  BY <1>1, PublisherHas
<1>3. work[w].seen # None
  BY <1>2, NullAssumption
<1>4. transition.desired \in PublicationTargets(work[w].seen)
  BY <1>1 DEF TodoInv
<1> QED  BY <1>1, <1>2, <1>3, <1>4 DEF SeenInv, OfThisSwitch, PublicationTargets, EffectiveTarget

\* A pass whose row needs no column any more finds the desired target effective.
LEMMA EffectiveStays ==
    ASSUME ReadersInv, NEW s \in Transition, ~NeedsColumn(s),
           s.desired = transition.desired, s.provisioned => transition.provisioned
    PROVE  DesiredIsEffective
BY ReadersParts DEF NeedsColumn, DesiredIsEffective, EffectiveTarget, TransitionInv, Transition

LEMMA ActiveIsEffective ==
    ASSUME ReadersInv, transition.status = "active"
    PROVE  DesiredIsEffective
BY ReadersParts DEF DesiredIsEffective, EffectiveTarget, TransitionInv

\* The pair of the desired target that an upsert of this switch has to serve.
LEMMA DesiredPair ==
    ASSUME NEW s \in Transition, OfThisSwitch(s), EffectiveTarget(s) # "unset",
           NEW d \in Docs
    PROVE  /\ <<d, transition.desired>> \in Pairs
           /\ RowDoc(<<d, transition.desired>>) = d
           /\ RowTarget(<<d, transition.desired>>) = transition.desired
<1>1. EffectiveTarget(s) \in Targets
  BY DEF EffectiveTarget, Transition
<1> QED  BY <1>1 DEF OfThisSwitch, Pairs, PublishedTargets, RowDoc, RowTarget

-----------------------------------------------------------------------------
(* What a step within a switch leaves as it was. *)

\* Nobody becomes an outsider.
LEMMA OutsidersStay ==
    ASSUME ReadersInv, NEW A \in SUBSET Workers, SameSwitch(A), DesiredIsEffective,
           NEW v \in Workers, Outsider(v)'
    PROVE  Outsider(v) /\ work'[v].job = work[v].job
<1>1. /\ Publishing(v)' /\ MayCommit(v)' /\ ~OfThisSwitch(work[v].seen)'
      /\ transition'.generation = transition.generation
      /\ transition'.desired = transition.desired
  BY DEF Outsider, SameSwitch, SwitchStays
<1>2. CASE work'[v].seen = transition
  BY <1>1, <1>2 DEF OfThisSwitch, DesiredIsEffective
<1>3. CASE /\ Publishing(v) /\ work'[v].job = work[v].job
           /\ work'[v].attempt = work[v].attempt /\ work'[v].seen = work[v].seen
  <2>1. ~OfThisSwitch(work[v].seen)
    BY <1>1, <1>3 DEF OfThisSwitch
  <2>2. MayCommit(v)
    BY <1>1, <1>3
    DEF MayCommit, StillCurrent, RequestIsCurrent, ClaimIsCurrent, JobClaimIsCurrent,
        TheDoc, TheRequest, SameSwitch, TablesStep, ClaimsStay
  <2> QED  BY <1>3, <2>1, <2>2 DEF Outsider
<1>4. v \notin A => work'[v] = work[v] /\ Publishing(v)
  BY <1>1 DEF SameSwitch, Publishing, IsPass, IsDelete
<1> QED  BY <1>1, <1>2, <1>3, <1>4 DEF SameSwitch, GoesOn

\* Whoever works from this switch makes a document ready when it is served.
LEMMA InsiderCommits ==
    ASSUME ReadersInv, NEW w \in Workers, NEW d \in Docs, Commits(w, d), ~Outsider(w)
    PROVE  /\ \E p \in Pairs : RowDoc(p) = d /\ RowTarget(p) = transition.desired
           /\ \A p \in Pairs : RowDoc(p) = d /\ RowTarget(p) = transition.desired =>
                ServedPair(p) /\ rows[p].content = docs[d].request
<1>1. /\ Publishing(w) /\ MayCommit(w) /\ TheDoc(w) = d
      /\ work[w].pc = "targets" /\ work[w].todo = {}
  BY DEF Commits, Settles, Publishing
<1>2. OfThisSwitch(work[w].seen)
  BY <1>1 DEF Outsider
<1>3. CommitInv(w) /\ TodoInv(w) /\ work[w].seen \in Transition
  BY <1>1, ReadersParts, PublisherHas DEF WorkerParts
<1>4. docs[d].request = TheRequest(w)
  BY <1>1 DEF MayCommit, StillCurrent, RequestIsCurrent
<1>5. \E p \in Pairs : RowDoc(p) = d /\ RowTarget(p) = transition.desired
  BY <1>1, <1>2, <1>3, DesiredPair DEF TodoInv
<1> QED  BY <1>1, <1>2, <1>3, <1>4, <1>5 DEF CommitInv

\* A row that serves a document goes on to serve the request of the document.
LEMMA ServedStays ==
    ASSUME ReadersInv, NEW A \in SUBSET Workers, SameSwitch(A), NEW p \in Pairs
    PROVE  ServedInv(p)'
<1> DEFINE d == RowDoc(p)
<1> SUFFICES ASSUME ServedPair(p)'
             PROVE  /\ DesiredIsEffective'
                    /\ docs'[d].status = "Ready" => rows'[p].content = docs'[d].request
                    /\ \A v \in Workers : Outsider(v)' => TheDoc(v)' # d
  BY DEF ServedInv, RowDoc
<1>1. /\ RowTarget(p) = transition.desired /\ rows'[p].status = "ready"
      /\ rows'[p].generation = transition.generation
      /\ DesiredIsEffective => DesiredIsEffective'
  BY DEF ServedPair, RowTarget, SameSwitch, SwitchStays
<1>0. d \in Docs
  BY DEF Pairs, RowDoc
<1>2. CASE rows'[p] = rows[p]
  <2>1. ServedPair(p) /\ ServedInv(p)
    BY <1>1, <1>2, ReadersParts DEF ServedPair
  <2>2. /\ DesiredIsEffective
        /\ docs[d].status = "Ready" => rows[p].content = docs[d].request
        /\ \A v \in Workers : Outsider(v) => TheDoc(v) # d
    BY <2>1 DEF ServedInv
  <2>3. ASSUME NEW v \in Workers, Outsider(v)'  PROVE TheDoc(v)' # d
    BY <2>2, <2>3, OutsidersStay DEF TheDoc
  <2>4. ASSUME docs'[d].status = "Ready"  PROVE rows'[p].content = docs'[d].request
    <3>1. CASE docs'[d] = docs[d]
      BY <1>2, <2>2, <2>4, <3>1
    <3>2. ASSUME NEW w \in Workers, Commits(w, d)  PROVE rows'[p].content = docs'[d].request
      <4>1. ~Outsider(w)
        BY <2>2, <3>2 DEF Commits, Settles
      <4> QED  BY <1>0, <1>1, <1>2, <3>2, <4>1, InsiderCommits DEF Commits
    <3> QED  BY <1>0, <2>4, <3>1, <3>2 DEF SameSwitch, TablesStep, DocsStep
  <2> QED  BY <1>1, <2>2, <2>3, <2>4
<1>3. ASSUME NEW w \in Workers, Records(w, p)
      PROVE  /\ DesiredIsEffective'
             /\ docs'[d].status = "Ready" => rows'[p].content = docs'[d].request
             /\ \A v \in Workers : Outsider(v)' => TheDoc(v)' # d
  <2>1. /\ work[w].pc = "record" /\ lock[w] = p /\ docs' = docs
        /\ work[w].seen.generation = transition.generation
    BY <1>1, <1>3 DEF Records
  <2>2. WriteInv(w) /\ DesiredIsEffective
    BY <1>1, <2>1, ReadersParts, InsiderTarget DEF WorkerParts, PublishLabels
  <2>3. docs[d].status # "Ready" /\ \A v \in Workers : Outsider(v) => TheDoc(v) # d
    BY <1>1, <2>1, <2>2 DEF WriteInv
  <2>4. ASSUME NEW v \in Workers, Outsider(v)'  PROVE TheDoc(v)' # d
    BY <2>2, <2>3, <2>4, OutsidersStay DEF TheDoc
  <2> QED  BY <1>1, <2>1, <2>2, <2>3, <2>4
<1> QED  BY <1>1, <1>2, <1>3 DEF SameSwitch, TablesStep, RowsStep

\* No ready document falls behind, and an outsider's is one that was awaited.
LEMMA BehindStays ==
    ASSUME ReadersInv, NEW A \in SUBSET Workers, SameSwitch(A), DesiredIsEffective,
           NEW d \in Docs, Behind(d)'
    PROVE  Behind(d) \/ \E w \in Workers : Outsider(w) /\ TheDoc(w) = d
<1>1. /\ docs'[d].status = "Ready"
      /\ \A p \in Pairs : RowDoc(p) = d => ~ServedPair(p)'
      /\ transition'.generation = transition.generation
      /\ transition'.desired = transition.desired
  BY DEF Behind, RowDoc, SameSwitch, SwitchStays
<1>2. ASSUME NEW p \in Pairs, RowDoc(p) = d, ServedPair(p)  PROVE rows'[p] # rows[p]
  BY <1>1, <1>2 DEF ServedPair, RowTarget
<1>3. CASE docs'[d] = docs[d]
  <2>1. ASSUME NEW p \in Pairs, RowDoc(p) = d, ServedPair(p)  PROVE FALSE
    <3>1. PICK w \in Workers : TakesBack(w, p)
      BY <1>2, <1>3, <2>1 DEF SameSwitch, TablesStep, RowsStep
    <3> QED  BY <1>1, <1>3, <2>1, <3>1, UnsettledIsNotReady DEF TakesBack
  <2> QED  BY <1>1, <1>3, <2>1 DEF Behind
<1>4. ASSUME NEW w \in Workers, Commits(w, d)
      PROVE  Outsider(w) /\ TheDoc(w) = d
  <2>1. TheDoc(w) = d /\ rows' = rows
    BY <1>4 DEF Commits, Settles
  <2>2. Outsider(w)
    BY <1>2, <1>4, <2>1, InsiderCommits
  <2> QED  BY <2>1, <2>2
<1> QED  BY <1>1, <1>3, <1>4 DEF SameSwitch, TablesStep, DocsStep

LEMMA SwitchServedStays ==
    ASSUME ReadersInv, NEW A \in SUBSET Workers, SameSwitch(A), DesiredIsEffective,
           SwitchServed
    PROVE  SwitchServed'
<1>1. ASSUME NEW v \in Workers, Outsider(v)'  PROVE FALSE
  BY <1>1, OutsidersStay DEF SwitchServed
<1>2. ASSUME NEW d \in Docs, Behind(d)'  PROVE FALSE
  BY <1>2, BehindStays DEF SwitchServed
<1> QED  BY <1>1, <1>2 DEF SwitchServed

-----------------------------------------------------------------------------
(* What a worker keeps, whether it moved or not. *)

SameWork(v) ==
    /\ work'[v].job = work[v].job
    /\ work'[v].attempt = work[v].attempt
    /\ work'[v].seen = work[v].seen

WriteLabels == {"write", "verify", "record"}
CleanLabels == {"clean", "activate"} \cup RemoveLabels

LEMMA SeenStays ==
    ASSUME ReadersInv, SwitchStays, NEW v \in Workers, work'[v].seen = work[v].seen
    PROVE  SeenInv(v)'
<1>1. SeenInv(v)
  BY ReadersParts DEF WorkerParts
<1>2. OfThisSwitch(work[v].seen)' <=> OfThisSwitch(work[v].seen)
  BY DEF OfThisSwitch, SwitchStays
<1>3. /\ transition'.generation = transition.generation
      /\ transition'.desired = transition.desired
      /\ transition.provisioned => transition'.provisioned
      /\ DesiredIsEffective => DesiredIsEffective'
  BY DEF SwitchStays
<1> QED  BY <1>1, <1>2, <1>3 DEF SeenInv

\* A pair it has done serves the document, and the others are as they were.
ServesOn(v) ==
    Publishing(v)' =>
        /\ Publishing(v) /\ (work[v].pc = "process" => work'[v].pc = "process")
        /\ \A p \in Pairs :
             /\ p \in work[v].todo /\ p \notin work'[v].todo
             /\ work[v].seen.generation = transition.generation
             /\ RowTarget(p) = transition.desired
             => ServedPair(p)' /\ rows'[p].content = TheRequest(v)
        /\ \A p \in Pairs \ work[v].todo : TakesBack(v, p) => rows'[p] = rows[p]

LEMMA CommitStays ==
    ASSUME ReadersInv, NEW A \in SUBSET Workers, SameSwitch(A),
           NEW v \in Workers, SameWork(v), ServesOn(v)
    PROVE  CommitInv(v)'
<1> SUFFICES ASSUME Publishing(v)', MayCommit(v)'  PROVE CommitInv(v)'
  BY DEF CommitInv
<1>1. Publishing(v) /\ CommitInv(v) /\ TheDoc(v)' = TheDoc(v) /\ TheRequest(v)' = TheRequest(v)
      /\ TheDoc(v) \in Docs /\ (work'[v].pc # "process" => work[v].pc # "process")
  BY ReadersParts, PublisherHas DEF WorkerParts, ServesOn, SameWork, TheDoc, TheRequest
<1>2. MayCommit(v)
  BY <1>1 DEF MayCommit, StillCurrent, RequestIsCurrent, ClaimIsCurrent, JobClaimIsCurrent,
        SameWork, SameSwitch, TablesStep, ClaimsStay, TheDoc, TheRequest
<1>3. /\ docs'[TheDoc(v)].request = TheRequest(v)
      /\ docs[TheDoc(v)].request = TheRequest(v)
  BY <1>1, <1>2 DEF MayCommit, StillCurrent, RequestIsCurrent
<1>4. docs'[TheDoc(v)].processed # TheRequest(v)
  <2>1. ASSUME NEW w \in Workers, Settles(w, TheDoc(v))  PROVE FALSE
    <3>1. v = w
      BY <1>1, <1>2, <2>1, ReadersParts, OneCommitter DEF Settles
    <3> QED  BY <2>1, <3>1 DEF Settles, Publishing, PublishLabels
  <2>2. docs[TheDoc(v)].processed # TheRequest(v)
    BY <1>1, <1>2 DEF CommitInv
  <2> QED  BY <1>1, <2>1, <2>2 DEF SameSwitch, TablesStep, DocsStep
<1>5. ASSUME OfThisSwitch(work[v].seen)', work'[v].pc # "process", NEW p \in Pairs,
             RowDoc(p) = TheDoc(v), RowTarget(p) = transition'.desired
      PROVE  p \in work'[v].todo \/ (ServedPair(p)' /\ rows'[p].content = TheRequest(v))
  <2>1. /\ OfThisSwitch(work[v].seen) /\ RowTarget(p) = transition.desired
        /\ work[v].seen.generation = transition.generation
    BY <1>5 DEF OfThisSwitch, SameWork, SameSwitch, SwitchStays
  <2>2. p \in work[v].todo \/ (ServedPair(p) /\ rows[p].content = TheRequest(v))
    BY <1>1, <1>2, <1>5, <2>1 DEF CommitInv
  <2>3. CASE p \in work[v].todo
    BY <1>1, <2>1, <2>3 DEF ServesOn
  <2>4. CASE p \notin work[v].todo /\ ServedPair(p) /\ rows[p].content = TheRequest(v)
    <3>1. rows'[p] = rows[p] \/ \E w \in Workers : TakesBack(w, p)
      BY <1>3, <1>5, <2>4 DEF SameSwitch, TablesStep, RowsStep
    <3>2. ASSUME NEW w \in Workers, TakesBack(w, p)  PROVE w = v
      BY <1>1, <1>2, <1>5, <3>2, ReadersParts, OneCommitter DEF TakesBack, Publishing
    <3>3. rows'[p] = rows[p]
      BY <2>4, <3>1, <3>2 DEF ServesOn
    <3> QED  BY <2>4, <3>3 DEF ServedPair, RowTarget, SameSwitch, SwitchStays
  <2> QED  BY <2>2, <2>3, <2>4
<1> QED  BY <1>1, <1>4, <1>5 DEF CommitInv, RowDoc, RowTarget

LEMMA WriteStays ==
    ASSUME ReadersInv, NEW A \in SUBSET Workers, SameSwitch(A),
           NEW v \in Workers, SameWork(v),
           work'[v].pc \in WriteLabels => work[v].pc \in WriteLabels /\ lock'[v] = lock[v]
    PROVE  WriteInv(v)'
<1> DEFINE d == RowDoc(lock[v])
<1> SUFFICES ASSUME work'[v].pc \in WriteLabels,
                    work'[v].seen.generation = transition'.generation,
                    RowTarget(lock'[v]) = transition'.desired
             PROVE  /\ docs'[RowDoc(lock'[v])].status # "Ready"
                    /\ \A u \in Workers : Outsider(u)' => TheDoc(u)' # RowDoc(lock'[v])
  BY DEF WriteInv, WriteLabels, RowDoc, RowTarget
<1>1. /\ work[v].pc \in {"write", "verify", "record"} /\ lock'[v] = lock[v]
      /\ work[v].seen.generation = transition.generation
      /\ RowTarget(lock[v]) = transition.desired
  BY DEF WriteLabels, SameWork, SameSwitch, SwitchStays
<1>2. DesiredIsEffective /\ WriteInv(v) /\ PairInv(v) /\ lock[v] \in Pairs /\ d \in Docs
  BY <1>1, ReadersParts, InsiderTarget, LocalsOf, JobAt
  DEF WorkerParts, PublishLabels, LockLabels, Pairs, RowDoc
<1>3. docs[d].status # "Ready" /\ \A u \in Workers : Outsider(u) => TheDoc(u) # d
  BY <1>1, <1>2 DEF WriteInv
<1>4. ASSUME NEW w \in Workers, Commits(w, d)  PROVE FALSE
  <2>1. ~Outsider(w)
    BY <1>3, <1>4 DEF Commits, Settles
  <2>2. ServedPair(lock[v])
    BY <1>1, <1>2, <1>4, <2>1, InsiderCommits
  <2> QED  BY <1>1, <1>2, <2>2 DEF PairInv, ThePair, ServedPair
<1>5. docs'[d].status # "Ready"
  BY <1>2, <1>3, <1>4 DEF SameSwitch, TablesStep, DocsStep
<1>6. ASSUME NEW u \in Workers, Outsider(u)'  PROVE TheDoc(u)' # d
  BY <1>2, <1>3, <1>6, OutsidersStay DEF TheDoc
<1> QED  BY <1>1, <1>5, <1>6

LEMMA RemoveStays ==
    ASSUME ReadersInv, NEW A \in SUBSET Workers, SameSwitch(A), NEW v \in Workers,
           work'[v].pc = "claim" => work[v].pc = "claim" /\ lock'[v] = lock[v]
    PROVE  RemoveInv(v)'
<1> SUFFICES ASSUME work'[v].pc = "claim", ServedPair(lock[v])'  PROVE FALSE
  BY DEF RemoveInv
<1>1. work[v].pc = "claim" /\ lock'[v] = lock[v] /\ ~ServedPair(lock[v])
  BY ReadersParts DEF WorkerParts, RemoveInv
<1>2. lock[v] \in Pairs /\ lock[v] # None /\ LocksInv
  BY <1>1, ReadersParts, JobAt DEF LockLabels, RemoveLabels, FlowInv
<1>3. rows'[lock[v]] # rows[lock[v]] /\ rows'[lock[v]].status = "ready"
  BY <1>1 DEF ServedPair, RowTarget, SameSwitch, SwitchStays
<1>4. PICK w \in Workers : Records(w, lock[v])
  BY <1>2, <1>3 DEF SameSwitch, TablesStep, RowsStep
<1>5. w # v /\ lock[w] = lock[v]
  BY <1>1, <1>4 DEF Records
<1> QED  BY <1>2, <1>5 DEF LocksInv

LEMMA PassStays ==
    ASSUME ReadersInv, NEW A \in SUBSET Workers, SameSwitch(A),
           NEW v \in Workers, SameWork(v),
           IsPass(v) /\ work'[v].pc \in CleanLabels => work[v].pc \in CleanLabels,
           work'[v].pc = "rows" => work[v].pc = "rows" /\ work'[v].listed = work[v].listed
    PROVE  PassInv(v)'
<1> SUFFICES ASSUME IsPass(v), work[v].seen # None  PROVE PassInv(v)'
  BY DEF PassInv, IsPass, SameWork
<1>1. /\ PassInv(v) /\ SeenInv(v) /\ work[v].seen \in Transition
      /\ work'[v].seen = work[v].seen
      /\ transition'.generation = transition.generation
  BY ReadersParts, LocalsOf DEF WorkerParts, Locals, SameWork, SameSwitch, SwitchStays
<1>2. work[v].seen.desired # "unset"
  BY <1>1 DEF PassInv
<1> SUFFICES ASSUME work[v].seen.generation = transition.generation,
                    work'[v].pc \in {"rows"} \cup CleanLabels
             PROVE  /\ ~NeedsColumn(work[v].seen)
                    /\ work'[v].pc = "rows" =>
                         /\ \A u \in Workers : Outsider(u)' => TheDoc(u)' \in Waiting(v)'
                         /\ \A d \in Docs : Behind(d)' => d \in ListedDesired(v)'
                    /\ work'[v].pc \in CleanLabels => SwitchServed'
  BY <1>1, <1>2 DEF PassInv, CleanLabels
<1>3. work[v].pc \in {"rows"} \cup CleanLabels
  OBVIOUS
<1>4. ~NeedsColumn(work[v].seen)
  BY <1>1, <1>3 DEF PassInv, CleanLabels
<1>5. DesiredIsEffective
  BY <1>1, <1>4, EffectiveStays DEF SeenInv
<1>6. ASSUME work'[v].pc = "rows"
      PROVE  /\ \A u \in Workers : Outsider(u)' => TheDoc(u)' \in Waiting(v)'
             /\ \A d \in Docs : Behind(d)' => d \in ListedDesired(v)'
  <2>1. Waiting(v)' = Waiting(v) /\ ListedDesired(v)' = ListedDesired(v)
    BY <1>6 DEF Waiting, ListedDesired
  <2>2. \A u \in Workers : Outsider(u) => TheDoc(u) \in Waiting(v)
    BY <1>1, <1>6 DEF PassInv
  <2>3. \A d \in Docs : Behind(d) => d \in ListedDesired(v)
    BY <1>1, <1>6 DEF PassInv
  <2>4. ASSUME NEW u \in Workers, Outsider(u)'  PROVE TheDoc(u)' \in Waiting(v)
    BY <1>5, <2>2, <2>4, OutsidersStay DEF TheDoc
  <2>5. ASSUME NEW d \in Docs, Behind(d)'  PROVE d \in ListedDesired(v)
    BY <1>5, <2>2, <2>3, <2>5, BehindStays DEF Waiting
  <2> QED  BY <2>1, <2>4, <2>5
<1>7. ASSUME work'[v].pc \in CleanLabels  PROVE SwitchServed'
  <2>1. SwitchServed
    BY <1>1, <1>7 DEF PassInv, CleanLabels, RemoveLabels
  <2> QED  BY <1>5, <2>1, SwitchServedStays
<1> QED  BY <1>4, <1>6, <1>7

\* A worker that did not move keeps all of it.
LEMMA StationaryKeeps ==
    ASSUME ReadersInv, NEW A \in SUBSET Workers, SameSwitch(A), NEW v \in Workers \ A
    PROVE  WorkerParts(v)'
<1>1. work'[v] = work[v] /\ lock'[v] = lock[v] /\ SameWork(v)
  BY DEF SameSwitch, SameWork
<1>2. TodoInv(v)'
  BY <1>1, ReadersParts
  DEF WorkerParts, TodoInv, Publishing, IsPass, IsDelete, TheDoc
<1>3. Publishing(v)' => Publishing(v)
  BY <1>1 DEF Publishing, IsPass, IsDelete
<1>4. CommitInv(v)'
  BY <1>1, <1>3, CommitStays DEF ServesOn, TakesBack
<1>5. SeenInv(v)'
  BY <1>1, SeenStays DEF SameSwitch
<1>6. WriteInv(v)' /\ RemoveInv(v)' /\ PassInv(v)'
  BY <1>1, WriteStays, RemoveStays, PassStays
<1> QED  BY <1>2, <1>4, <1>5, <1>6 DEF WorkerParts

LEMMA SwitchKeeps ==
    ASSUME ReadersInv, FlowInv', NEW A \in SUBSET Workers, SameSwitch(A),
           \A w \in A : WorkerParts(w)',
           transition'.status = "active" =>
               transition.status = "active" \/ (SwitchServed /\ DesiredIsEffective)
    PROVE  ReadersInv'
<1>1. \A w \in Workers : WorkerParts(w)'
  BY StationaryKeeps
<1>2. \A p \in Pairs : ServedInv(p)'
  BY ServedStays
<1>3. DocsInv' /\ TransitionInv'
  BY DEF SameSwitch, SwitchStays, TablesStep, RowsStep, TransitionInv
<1>4. transition'.status = "active" => SwitchServed'
  BY ReadersParts, ActiveIsEffective, SwitchServedStays DEF ReadersInv
<1> QED  BY <1>1, <1>2, <1>3, <1>4 DEF ReadersInv, WorkerParts

\* Another switch: no row and no worker is of its generation yet.
LEMMA NewSwitchKeeps ==
    ASSUME ReadersInv, FlowInv', NEW target \in Targets, target # "unset",
           RequestTarget(target), UNCHANGED <<docs, jobs, rows, work, lock>>
    PROVE  ReadersInv'
<1>1. /\ transition'.generation = transition.generation + 1
      /\ transition'.desired = target
      /\ transition'.status \in {"staging", "cleaning"}
  BY ReadersParts, StateTypes, RequestBegins DEF TransitionTypeOK
<1>0. transition.generation \in Nat
  BY ReadersParts, StateTypes, GenerationType
<1>2. \A p \in Pairs : rows'[p].generation # transition'.generation
  BY <1>0, <1>1, ReadersParts, StateTypes DEF TransitionInv, Publication
<1>3. \A p \in Pairs : ~ServedPair(p)'
  BY <1>2 DEF ServedPair
<1>4. DocsInv' /\ TransitionInv'
  <2>1. DocsInv'
    BY ReadersParts DEF DocsInv, RowsOf, HasRow
  <2>2. \A p \in Pairs : rows'[p].generation <= transition'.generation
    BY <1>0, <1>1, ReadersParts, StateTypes DEF TransitionInv, Publication
  <2> QED  BY <1>1, <2>1, <2>2 DEF TransitionInv
<1>5. ASSUME NEW w \in Workers  PROVE WorkerParts(w)'
  <2>1. WorkerParts(w) /\ work[w].seen \in Transition \cup {None}
    BY ReadersParts, LocalsOf DEF Locals
  <2>0. work[w].seen # None => /\ work[w].seen.generation \in Nat
                               /\ work[w].seen.generation <= transition.generation
    BY <2>1, GenerationType DEF WorkerParts, SeenInv
  <2>2. /\ work'[w] = work[w] /\ lock'[w] = lock[w]
        /\ work[w].seen # None => /\ work[w].seen.generation <= transition'.generation
                                  /\ work[w].seen.generation # transition'.generation
    BY <1>0, <1>1, <2>0
  <2>3. SeenInv(w)' /\ RemoveInv(w)'
    BY <1>3, <2>2, ReadersParts, JobAt DEF SeenInv, RemoveInv, LockLabels, RemoveLabels
  <2>4. TodoInv(w)'
    BY <2>1, <2>2 DEF WorkerParts, TodoInv, Publishing, IsPass, IsDelete, TheDoc
  <2>5. PassInv(w)'
    BY <2>1, <2>2 DEF WorkerParts, PassInv, IsPass
  <2>6. Publishing(w) => work[w].seen # None
    BY ReadersParts, PublisherHas, NullAssumption
  <2>7. CommitInv(w)'
    <3>1. SUFFICES ASSUME Publishing(w)', MayCommit(w)'  PROVE CommitInv(w)'
      BY DEF CommitInv
    <3>2. Publishing(w) /\ MayCommit(w)
      BY <2>2, <3>1 DEF Publishing, MayCommit, IsPass, IsDelete, StillCurrent,
         RequestIsCurrent, ClaimIsCurrent, JobClaimIsCurrent, TheDoc, TheRequest
    <3>3. ~OfThisSwitch(work[w].seen)'
      BY <2>2, <2>6, <3>2 DEF OfThisSwitch
    <3> QED  BY <2>1, <2>2, <3>2, <3>3 DEF WorkerParts, CommitInv, TheDoc, TheRequest
  <2>8. WriteInv(w)'
    <3>1. work[w].pc \in {"write", "verify", "record"} => Publishing(w)
      BY ReadersParts, JobAt DEF Publishing, PublishLabels
    <3> QED  BY <2>2, <2>6, <3>1 DEF WriteInv
  <2> QED  BY <2>3, <2>4, <2>5, <2>7, <2>8 DEF WorkerParts
<1>6. \A p \in Pairs : ServedInv(p)'
  BY <1>3 DEF ServedInv
<1> QED  BY <1>1, <1>4, <1>5, <1>6 DEF ReadersInv, WorkerParts

-----------------------------------------------------------------------------
(* What the steps do to the transition. *)

LEMMA TransitionStays ==
    ASSUME ReadersInv, UNCHANGED transition
    PROVE  SwitchStays
BY ReadersParts DEF SwitchStays, TransitionInv, DesiredIsEffective

LEMMA StatusStays ==
    ASSUME ReadersInv, NEW status \in TransitionStatuses \ {"active"},
           NEW error \in {"", "not_provisioned", "cleanup"},
           transition' = [transition EXCEPT !.status = status, !.error = error],
           transition.desired # "unset"
    PROVE  SwitchStays
<1>1. /\ Grows /\ transition'.status = status /\ transition'.active = transition.active
      /\ transition'.provisioned = transition.provisioned
  BY ReadersParts, StateTypes, StatusGrows DEF TransitionTypeOK
<1>2. TransitionInv
  BY ReadersParts
<1> QED  BY <1>1, <1>2
    DEF Grows, SwitchStays, TransitionInv, DesiredIsEffective, EffectiveTarget

LEMMA SetStatusStays ==
    ASSUME ReadersInv, NEW w \in Workers, work[w].pc \in PassLabels,
           NEW status \in TransitionStatuses \ {"active"},
           NEW error \in {"", "not_provisioned", "cleanup"}, SetStatus(w, status, error)
    PROVE  SwitchStays /\ (transition'.status = "active" => transition.status = "active")
<1>1. PassInv(w) /\ IsPass(w) /\ work[w].seen \in Transition
  BY ReadersParts, PassAt DEF WorkerParts, IsPass
<1>2. work[w].seen.desired # "unset"
  BY <1>1, NullAssumption DEF PassInv
<1>3. CASE SetTransitionStatus(work[w].seen, status, error)
  <2>1. transition.desired # "unset"
    BY <1>2, <1>3 DEF SetTransitionStatus, Matches
  <2>2. transition'.status = status
    BY <1>3, ReadersParts, StateTypes, StatusGrows DEF SetTransitionStatus, TransitionTypeOK
  <2> QED  BY <1>3, <2>1, <2>2, StatusStays DEF SetTransitionStatus
<1> QED  BY <1>3, TransitionStays DEF SetStatus

LEMMA ProvisionStays ==
    ASSUME ReadersInv, NEW f, SetColumnProvisioned(f)
    PROVE  SwitchStays /\ (transition'.status = "active" => transition.status = "active")
<1>1. /\ Grows /\ transition'.active = transition.active /\ transition'.provisioned
      /\ transition.desired = "sharepoint_column"
      /\ transition'.status \in {"staging", transition.status}
  BY ReadersParts, StateTypes, ProvisionGrows DEF SetColumnProvisioned, Transition, TransitionTypeOK
<1>2. TransitionInv
  BY ReadersParts
<1> QED  BY <1>1, <1>2
    DEF Grows, SwitchStays, TransitionInv, DesiredIsEffective, EffectiveTarget

LEMMA ConfirmationStays ==
    ASSUME ReadersInv, NEW f,
           SetReindexRequested(f) \/ SetSearchVerified(f) \/ SetCopilotVerified(f)
    PROVE  SwitchStays /\ (transition'.status = "active" => transition.status = "active")
<1>1. /\ Grows /\ transition'.active = transition.active
      /\ transition'.provisioned = transition.provisioned
  BY ReadersParts, StateTypes, ConfirmationGrows DEF TransitionTypeOK
<1>2. transition.status # "active" /\ transition'.status # "active"
  BY ReadersParts, StateTypes
  DEF SetReindexRequested, SetSearchVerified, SetCopilotVerified, Transition
<1>3. TransitionInv
  BY ReadersParts
<1> QED  BY <1>1, <1>2, <1>3
    DEF Grows, SwitchStays, TransitionInv, DesiredIsEffective, EffectiveTarget

LEMMA ActivationStays ==
    ASSUME ReadersInv, NEW s, ActivateTarget(s)
    PROVE  SwitchStays
BY ReadersParts, StateTypes, ActivationGrows
DEF Grows, SwitchStays, DesiredIsEffective, EffectiveTarget, TransitionTypeOK

-----------------------------------------------------------------------------
(* What the steps do to the tables. *)

LEMMA ClaimsHold ==
    ASSUME ReadersInv, StoreMove,
           \A v \in Workers : Publishing(v) =>
               LET j == work[v].job IN
                 /\ jobs'[j].status = "processing"
                 /\ jobs'[j].attempts = work[v].attempt
                 /\ jobs'[j].owner = v
                 => ClaimIsCurrent(v)
    PROVE  ClaimsStay
<1> SUFFICES ASSUME NEW v \in Workers, Publishing(v),
                    docs'[TheDoc(v)].request = TheRequest(v),
                    jobs'[work[v].job].status = "processing",
                    jobs'[work[v].job].attempts = work[v].attempt,
                    jobs'[work[v].job].owner = v
             PROVE  MayCommit(v)
  BY DEF ClaimsStay
<1>1. ClaimIsCurrent(v)
  OBVIOUS
<1>2. docs[TheDoc(v)].request = TheRequest(v)
  BY ReadersParts, PublisherHas DEF StoreMove, TheDoc, TheRequest
<1> QED  BY <1>1, <1>2 DEF MayCommit, StillCurrent, RequestIsCurrent

LEMMA SameJobsHold ==
    ASSUME ReadersInv, StoreMove, UNCHANGED jobs
    PROVE  ClaimsStay
BY ClaimsHold DEF ClaimIsCurrent, JobClaimIsCurrent

\* Neither documents nor rows.
LEMMA JobsOnly ==
    ASSUME ReadersInv, ClaimsStay, UNCHANGED <<docs, rows>>
    PROVE  TablesStep
BY ReadersParts
DEF TablesStep, DocsStep, RowsStep, TransitionInv, DocsInv, RowsOf, HasRow

\* Rows that serve nobody are settled or removed.
LEMMA RowsLeave ==
    ASSUME ReadersInv, ClaimsStay, UNCHANGED docs,
           \A p \in Pairs :
               \/ rows'[p] = rows[p]
               \/ /\ ~ServedPair(p)
                  /\ rows'[p].status \in {"none", "failed", "removing"}
                  /\ rows'[p].generation <= transition.generation
    PROVE  TablesStep
<1>1. RowsStep
  BY ReadersParts DEF RowsStep, TransitionInv
<1>2. DocsInv'
  <2>1. ASSUME NEW d \in Docs, ~docs[d].desired, NEW p \in Pairs, RowDoc(p) = d, HasRow(p)'
        PROVE  rows'[p].status \notin {"pending", "ready"}
    BY <2>1, ReadersParts DEF DocsInv, RowsOf, HasRow
  <2> QED  BY <2>1, ReadersParts DEF DocsInv, RowsOf
<1> QED  BY <1>1, <1>2 DEF TablesStep, DocsStep

\* A failure is recorded in rows that are pending.
LEMMA FailuresLeave ==
    ASSUME ReadersInv, ClaimsStay, UNCHANGED docs,
           \/ rows' = rows
           \/ \E o : FailPendingForOperation(o)
           \/ \E p \in Pairs : \E g, o : RecordPublicationError(p, g, o)
    PROVE  TablesStep
<1>1. rows \in [Pairs -> Publication] /\ TransitionInv
  BY ReadersParts, StateTypes
<1>2. ASSUME NEW p \in Pairs, rows'[p] # rows[p]
      PROVE  rows[p].status = "pending" /\ rows'[p] = FailRow(rows[p])
  <2>1. CASE \E o : FailPendingForOperation(o)
    BY <1>1, <1>2, <2>1 DEF FailPendingForOperation
  <2>2. CASE \E q \in Pairs : \E g, o : RecordPublicationError(q, g, o)
    BY <1>1, <1>2, <2>2 DEF RecordPublicationError, OperationIsPending, publicationVars
  <2> QED  BY <1>2, <2>1, <2>2
<1>3. ASSUME NEW p \in Pairs
      PROVE  \/ rows'[p] = rows[p]
             \/ /\ ~ServedPair(p)
                /\ rows'[p].status \in {"none", "failed", "removing"}
                /\ rows'[p].generation <= transition.generation
  BY <1>1, <1>2, FailRowType DEF ServedPair, TransitionInv
<1> QED  BY <1>3, RowsLeave

\* A request: the document is queued, and what it withdraws is removed.
LEMMA SubmitSteps ==
    ASSUME ReadersInv, NEW d \in Docs, NEW r \in Requests, NEW type \in JobTypes,
           Submit(d, r, type), UNCHANGED remote
    PROVE  TablesStep
<1>0. /\ FlowInv /\ DocsInv /\ TransitionInv
      /\ docs \in [Docs -> Document] /\ jobs \in [JobIds -> Job]
      /\ rows \in [Pairs -> Publication] /\ StoreTypeOK
  BY ReadersParts, StateTypes DEF FlowInv, TypeOK, PublicationTypeOK
<1>1. /\ docs' = [docs EXCEPT ![d].desired = (type = "upsert"), ![d].status = "Queued",
                              ![d].request = r]
      /\ jobs' = Enqueued(<<d, r, type>>)
      /\ r = lastRequest + 1
      /\ SetRequestIntent(d, r, type)
  BY DEF Submit, UpsertDocumentAndEnqueue, FreshRequest
<1>2. docs'[d].request # docs[d].request
  <2>1. docs'[d].request = r /\ docs[d].request <= lastRequest
    BY <1>0, <1>1 DEF Document, FlowInv, RequestsInv
  <2>2. lastRequest \in Nat /\ docs[d].request \in Nat
    BY <1>0, StoreAssumption DEF StoreTypeOK, RequestIds, Document
  <2> QED  BY <1>1, <2>1, <2>2
<1>3. /\ \A e \in Docs : e # d => docs'[e] = docs[e]
      /\ \A e \in Docs : docs'[e].processed = docs[e].processed
      /\ docs'[d].status = "Queued" /\ docs'[d].desired = (type = "upsert")
  BY <1>0, <1>1 DEF Document
<1>4. ASSUME NEW p \in Pairs
      PROVE  /\ RowDoc(p) # d => rows'[p] = rows[p]
             /\ rows'[p].generation = rows[p].generation
             /\ rows'[p].status = "ready" => rows'[p] = rows[p]
             /\ RowDoc(p) = d /\ type = "delete" => rows'[p].status \in {"none", "removing"}
  <2> DEFINE none == NoOperation
             operation == RemoveOperation(r)
  <2>1. \/ rows'[p] = rows[p] /\ (~HasRow(p) \/ RowDoc(p) # d \/ type # "delete")
        \/ RowDoc(p) = d /\ rows'[p] = [rows[p] EXCEPT !.status = "removing", !.operation = operation]
        \/ /\ RowDoc(p) = d /\ type # "delete"
           /\ rows'[p] = [rows[p] EXCEPT !.status = "failed", !.operation = none]
    BY <1>1 DEF SetRequestIntent, RowsOf
  <2> HIDE DEF none, operation
  <2> QED  BY <1>0, <2>1 DEF Publication, HasRow
<1>5. StoreMove
  BY <1>0, SubmitMoves
<1>6. ClaimsStay
  <2>1. <<d, r, type>> \in JobIds
    BY DEF JobIds
  <2>2. \A j \in JobIds : jobs'[j] = jobs[j] \/ jobs'[j].status = "queued"
    BY <1>0, <1>1, <2>1, EnqueuedRow
  <2> QED  BY <1>0, <1>5, <2>2, ClaimsHold, PublisherHas DEF ClaimIsCurrent, JobClaimIsCurrent
<1>7. DocsStep
  BY <1>3 DEF DocsStep
<1>8. RowsStep
  BY <1>0, <1>2, <1>4 DEF RowsStep, TransitionInv
<1>9. DocsInv'
  BY <1>0, <1>3, <1>4 DEF DocsInv, RowsOf, HasRow, JobTypes
<1> QED  BY <1>6, <1>7, <1>8, <1>9 DEF TablesStep

\* A worker takes the row of its pair to publish it once more.
LEMMA PendingSteps ==
    ASSUME ReadersInv, NEW w \in Workers, At(w, "guard"),
           MayRecordPending(w, work[w].job, work[w].attempt, work[w].seen, lock[w]),
           RecordPublicationPending(lock[w], work[w].seen.generation, Operation(w)),
           work'[w] # work[w], UNCHANGED storeVars
    PROVE  TablesStep /\ MayCommit(w) /\ TheDoc(w) = RowDoc(lock[w])
<1>1. /\ Publishing(w) /\ lock[w] \in Pairs /\ work[w].seen \in Transition
      /\ TodoInv(w) /\ SeenInv(w) /\ FlowInv /\ DocsInv /\ TransitionInv
      /\ work[w].pc \in LockLabels /\ work[w].pc # "process"
  BY ReadersParts, JobAt, PublisherHas
  DEF WorkerParts, At, Publishing, PublishLabels, LockLabels
<1>2. RowDoc(lock[w]) = TheDoc(w)
  BY <1>1 DEF TodoInv
<1>3. MayCommit(w) /\ docs[RowDoc(lock[w])].desired
  BY <1>2 DEF MayRecordPending, MayCommit, StillCurrent, RequestIsCurrent, ClaimIsCurrent,
              TheRequest, TheDoc
<1>4. work[w].seen.generation <= transition.generation
  BY <1>1, NullAssumption DEF SeenInv
<1>5. rows \in [Pairs -> Publication]
  BY <1>1, StateTypes
<1>6. \A p \in Pairs : /\ p # lock[w] => rows'[p] = rows[p]
                       /\ p = lock[w] => /\ rows'[p].status = "pending"
                                         /\ rows'[p].generation = work[w].seen.generation
  BY <1>5 DEF RecordPublicationPending
<1>7. RowsStep
  BY <1>1, <1>2, <1>3, <1>4, <1>6 DEF RowsStep, TransitionInv, TakesBack
<1>8. DocsInv'
  BY <1>1, <1>3, <1>6 DEF DocsInv, RowsOf, HasRow, storeVars
<1>9. ClaimsStay
  BY <1>1, StoreStays, SameJobsHold DEF storeVars
<1> QED  BY <1>2, <1>3, <1>7, <1>8, <1>9 DEF TablesStep, DocsStep, storeVars

\* A publication is recorded in a row that was pending.
LEMMA SuccessSteps ==
    ASSUME ReadersInv, NEW w \in Workers, At(w, "record"), NEW r,
           rows[lock[w]].status = "pending",
           RecordPublicationSuccess(lock[w], work[w].seen.generation, r),
           UNCHANGED storeVars
    PROVE  TablesStep
<1>1. /\ lock[w] \in Pairs /\ work[w].seen \in Transition /\ SeenInv(w)
      /\ FlowInv /\ DocsInv /\ TransitionInv
  BY ReadersParts, JobAt, PublisherHas
  DEF WorkerParts, At, Publishing, PublishLabels, LockLabels
<1>2. work[w].seen.generation <= transition.generation
  BY <1>1, NullAssumption DEF SeenInv
<1>3. \A p \in Pairs : /\ p # lock[w] => rows'[p] = rows[p]
                       /\ p = lock[w] => /\ rows'[p].status = "ready"
                                         /\ rows'[p].generation = work[w].seen.generation
  BY <1>1, StateTypes DEF RecordPublicationSuccess
<1>4. RowsStep
  BY <1>1, <1>2, <1>3 DEF RowsStep, TransitionInv, Records, At, ServedPair, storeVars
<1>5. DocsInv'
  BY <1>1, <1>3 DEF DocsInv, RowsOf, HasRow, storeVars
<1>6. ClaimsStay
  BY <1>1, StoreStays, SameJobsHold DEF storeVars
<1> QED  BY <1>4, <1>5, <1>6 DEF TablesStep, DocsStep, storeVars

\* The row of the worker's pair, which serves nobody, is claimed or removed.
LEMMA RemovalSteps ==
    ASSUME ReadersInv, NEW w \in Workers, ~ServedPair(lock[w]), lock[w] \in Pairs,
           \/ \E o : ClaimPublicationRemoval(lock[w], o)
           \/ RemovePublicationRecord(lock[w]),
           UNCHANGED storeVars
    PROVE  TablesStep
<1>1. FlowInv /\ TransitionInv /\ rows \in [Pairs -> Publication]
      /\ transition.generation \in Nat
  BY ReadersParts, StateTypes, GenerationType
<1>2. \A p \in Pairs : p # lock[w] => rows'[p] = rows[p]
  BY <1>1 DEF ClaimPublicationRemoval, RemovePublicationRecord
<1>3. /\ rows'[lock[w]].status \in {"none", "removing"}
      /\ rows'[lock[w]].generation <= transition.generation
  <2>1. CASE RemovePublicationRecord(lock[w])
    <3>1. rows'[lock[w]] = NoRow
      BY <1>1, <2>1 DEF RemovePublicationRecord
    <3> QED  BY <1>1, <3>1 DEF NoRow
  <2>2. ASSUME NEW o, ClaimPublicationRemoval(lock[w], o)
        PROVE  /\ rows'[lock[w]].status = "removing"
               /\ rows'[lock[w]].generation = rows[lock[w]].generation
    BY <1>1, <2>2 DEF ClaimPublicationRemoval, Publication
  <2> QED  BY <1>1, <2>1, <2>2 DEF TransitionInv
<1>4. ClaimsStay
  BY <1>1, StoreStays, SameJobsHold DEF storeVars
<1> QED  BY <1>2, <1>3, <1>4, RowsLeave DEF storeVars

\* An outcome: a document is ready, removed or failed.
LEMMA CommitSteps ==
    ASSUME ReadersInv, NEW w \in Workers, Commit(w)
    PROVE  TablesStep
<1>1. /\ FlowInv /\ DocsInv /\ TransitionInv /\ docs \in [Docs -> Document]
      /\ UNCHANGED <<jobs, lastRequest, transition, rows, fresh, lock, remote>>
      /\ work[w].pc = "targets" /\ work[w].todo = {} /\ ~IsPass(w)
      /\ work[w].job \in JobIds /\ DeleteSeesRows(w)
  BY ReadersParts, StateTypes, JobAt, LocalsOf DEF Commit, At, publicationVars
<1>2. TheDoc(w) \in Docs /\ TheRequest(w) # NoRequest
  BY <1>1, JobParts DEF TheDoc, TheRequest
<1>3. CASE ~MayCommit(w)
  <2>1. UNCHANGED storeVars
    BY <1>1, <1>3 DEF Commit, MayCommit, storeVars
  <2> QED  BY <1>1, <2>1, StoreStays, SameJobsHold, JobsOnly DEF storeVars
<1>4. CASE MayCommit(w)
  <2> DEFINE d == TheDoc(w)
  <2>1. /\ docs[d].request = TheRequest(w)
        /\ work'[w].pc = "complete"
    BY <1>1, <1>4, LocalsOf DEF Commit, MayCommit, StillCurrent, RequestIsCurrent, Goto, Locals
  <2>2. /\ \A e \in Docs : e # d => docs'[e] = docs[e]
        /\ docs'[d].request = docs[d].request /\ docs'[d].processed = TheRequest(w)
        /\ IF IsDelete(w) THEN docs'[d].status = "NotEnabled" /\ ~docs'[d].desired
                          ELSE docs'[d].status = "Ready" /\ docs'[d].desired
    BY <1>1, <1>2, <1>4 DEF Commit, MayCommit, RecordSuccess, RecordRemoved, Document
  <2>3. IsDelete(w) => RowsOf(d) = {}
    BY <1>1, <1>4 DEF DeleteSeesRows, MayCommit
  <2>4. DocsStep
    BY <1>1, <1>4, <2>1, <2>2 DEF DocsStep, Commits, Settles
  <2>5. DocsInv'
    BY <1>1, <1>2, <2>1, <2>2, <2>3 DEF DocsInv, RowsOf, HasRow
  <2>6. ClaimsStay
    BY <1>1, <2>1, <2>2, PublisherHas
    DEF ClaimsStay, MayCommit, StillCurrent, RequestIsCurrent, ClaimIsCurrent,
        JobClaimIsCurrent
  <2> QED  BY <1>1, <2>4, <2>5, <2>6 DEF TablesStep, RowsStep, TransitionInv
<1> QED  BY <1>3, <1>4

LEMMA ErrorSteps ==
    ASSUME ReadersInv, NEW d \in Docs, RecordDocumentError(d),
           UNCHANGED <<jobs, rows>>
    PROVE  TablesStep
<1>1. /\ FlowInv /\ DocsInv /\ TransitionInv /\ docs \in [Docs -> Document]
  BY ReadersParts, StateTypes
<1>2. /\ \A e \in Docs : e # d => docs'[e] = docs[e]
      /\ \A e \in Docs : /\ docs'[e].request = docs[e].request
                         /\ docs'[e].processed = docs[e].processed
                         /\ docs'[e].desired = docs[e].desired
      /\ docs'[d].status = "Failed"
  BY <1>1 DEF RecordDocumentError, Document
<1>3. DocsStep
  BY <1>2 DEF DocsStep
<1>4. DocsInv'
  BY <1>1, <1>2 DEF DocsInv, RowsOf, HasRow
<1>5. ClaimsStay
  BY <1>1, <1>2, PublisherHas
  DEF ClaimsStay, MayCommit, StillCurrent, RequestIsCurrent, ClaimIsCurrent, JobClaimIsCurrent
<1> QED  BY <1>1, <1>3, <1>4, <1>5 DEF TablesStep, RowsStep, TransitionInv

-----------------------------------------------------------------------------
(* A step of one worker. *)

\* What it keeps when it goes on with its work.
Keeps(w) ==
    /\ SameWork(w)
    /\ ServesOn(w)
    /\ work'[w].pc \in WriteLabels => work[w].pc \in WriteLabels /\ lock'[w] = lock[w]
    /\ work'[w].pc = "claim" => work[w].pc = "claim" /\ lock'[w] = lock[w]
    /\ IsPass(w) /\ work'[w].pc \in CleanLabels => work[w].pc \in CleanLabels
    /\ work'[w].pc = "rows" => work[w].pc = "rows" /\ work'[w].listed = work[w].listed

LEMMA OneWorker ==
    ASSUME ReadersInv, NEW w \in Workers, Placed(w), SwitchStays, TablesStep, GoesOn(w)
    PROVE  SameSwitch({w})
BY DEF SameSwitch, Placed

LEMMA StepServes ==
    ASSUME ReadersInv, FlowInv', NEW w \in Workers, SameSwitch({w}), WorkerParts(w)',
           transition'.status = "active" =>
               transition.status = "active" \/ (SwitchServed /\ DesiredIsEffective)
    PROVE  ReadersInv'
BY SwitchKeeps

LEMMA NobodyServes ==
    ASSUME ReadersInv, FlowInv', SwitchStays, TablesStep, UNCHANGED <<work, lock>>,
           transition'.status = "active" => transition.status = "active"
    PROVE  ReadersInv'
<1>1. SameSwitch({})
  BY DEF SameSwitch
<1> QED  BY <1>1, SwitchKeeps

LEMMA KeepsServes ==
    ASSUME ReadersInv, FlowInv', NEW w \in Workers, Placed(w), UNCHANGED transition,
           TablesStep, Keeps(w), TodoInv(w)'
    PROVE  ReadersInv'
<1>1. GoesOn(w)
  BY DEF Keeps, SameWork, ServesOn, GoesOn
<1>2. SwitchStays
  BY TransitionStays
<1>3. SameSwitch({w}) /\ SameWork(w)
  BY <1>1, <1>2, OneWorker DEF Keeps
<1>4. CommitInv(w)'
  BY <1>3, CommitStays DEF Keeps
<1>5. WriteInv(w)' /\ RemoveInv(w)' /\ PassInv(w)'
  BY <1>3, WriteStays, RemoveStays, PassStays DEF Keeps
<1>6. SeenInv(w)'
  BY <1>2, SeenStays DEF Keeps, SameWork
<1>7. WorkerParts(w)'
  BY <1>4, <1>5, <1>6 DEF WorkerParts
<1> QED  BY <1>3, <1>7, StepServes

\* A worker ends its job or its pass.
LEMMA DropServes ==
    ASSUME ReadersInv, FlowInv', NEW w \in Workers, Drop(w), SwitchStays, TablesStep,
           transition'.status = "active" =>
               transition.status = "active" \/ (SwitchServed /\ DesiredIsEffective)
    PROVE  ReadersInv'
<1>1. Placed(w) /\ work'[w] = Idle
  BY ReadersParts, DropPlaces, LocalsOf DEF Drop
<1>2. /\ work'[w].pc = "idle" /\ work'[w].seen = None /\ work'[w].job = None
  BY <1>1 DEF Idle
<1>3. ~Publishing(w)'
  BY <1>2 DEF Publishing, IsPass
<1>4. SameSwitch({w})
  BY <1>1, <1>3, OneWorker DEF GoesOn
<1>5. WorkerParts(w)'
  BY <1>2, <1>3
  DEF WorkerParts, SeenInv, TodoInv, CommitInv, WriteInv, RemoveInv, PassInv, IsPass,
      LockLabels, PublishLabels, RemoveLabels
<1> QED  BY <1>4, <1>5, StepServes

\* A job comes to a place where nothing is published or removed any more.
LEMMA RestServes ==
    ASSUME ReadersInv, FlowInv', NEW w \in Workers, Placed(w), NEW label \in RestLabels,
           work'[w] = [work[w] EXCEPT !.pc = label], ~IsPass(w),
           UNCHANGED transition, TablesStep
    PROVE  ReadersInv'
<1>1. SameWork(w) /\ work'[w].pc = label
  BY ReadersParts, LocalsOf DEF SameWork, Locals
<1>2. /\ label \notin LockLabels \cup PassLabels \cup {"process", "targets"}
      /\ label \notin WriteLabels \cup CleanLabels
  BY DEF RestLabels, LockLabels, PublishLabels, RemoveLabels, PassLabels, WriteLabels, CleanLabels
<1>3. ~Publishing(w)' /\ ~IsPass(w)'
  BY <1>1, <1>2 DEF Publishing, LockLabels, IsPass, SameWork
<1>4. Keeps(w)
  BY <1>1, <1>2, <1>3 DEF Keeps, ServesOn, PassLabels, CleanLabels, RemoveLabels
<1>5. TodoInv(w)'
  BY <1>1, <1>2, <1>3 DEF TodoInv, LockLabels
<1> QED  BY <1>4, <1>5, KeepsServes

\* An upsert goes on under its lock.
LEMMA PublishServes ==
    ASSUME ReadersInv, FlowInv', NEW w \in Workers, NEW label \in WriteLabels,
           Goto(w, label), lock' = lock, work[w].pc \in WriteLabels,
           UNCHANGED transition, UNCHANGED rows, TablesStep
    PROVE  ReadersInv'
<1>1. label \in LockLabels /\ work[w].pc \in LockLabels /\ label \in Labels
  BY DEF WriteLabels, LockLabels, PublishLabels, Labels
<1>2. Placed(w) /\ work'[w] = [work[w] EXCEPT !.pc = label] /\ lock'[w] = lock[w]
  BY <1>1, ReadersParts, GotoPlaces
<1>3. SameWork(w) /\ work'[w].pc = label /\ work'[w].todo = work[w].todo
  BY <1>2, ReadersParts, LocalsOf DEF SameWork, Locals
<1>4. Publishing(w) /\ ~IsPass(w) /\ ~IsDelete(w) /\ TodoInv(w)
  BY ReadersParts, JobAt DEF Publishing, WriteLabels, PublishLabels, WorkerParts
<1>5. /\ label \notin CleanLabels \cup {"claim", "rows", "process"}
      /\ work[w].pc # "process"
  BY DEF WriteLabels, CleanLabels, RemoveLabels
<1>6. Keeps(w)
  BY <1>2, <1>3, <1>4, <1>5 DEF Keeps, ServesOn
<1>7. TodoInv(w)'
  BY <1>1, <1>2, <1>3, <1>4, <1>5
  DEF TodoInv, Publishing, SameWork, IsPass, IsDelete, TheDoc
<1> QED  BY <1>2, <1>6, <1>7, KeepsServes

\* A delete or a clean-up goes on under its lock.
LEMMA RemovalServes ==
    ASSUME ReadersInv, FlowInv', NEW w \in Workers, NEW label \in RemoveLabels \ {"claim"},
           Goto(w, label), lock' = lock, work[w].pc \in RemoveLabels,
           UNCHANGED transition, TablesStep
    PROVE  ReadersInv'
<1>1. label \in LockLabels /\ work[w].pc \in LockLabels /\ label \in Labels
  BY DEF LockLabels, RemoveLabels, Labels
<1>2. Placed(w) /\ work'[w] = [work[w] EXCEPT !.pc = label] /\ lock'[w] = lock[w]
  BY <1>1, ReadersParts, GotoPlaces
<1>3. SameWork(w) /\ work'[w].pc = label /\ work'[w].todo = work[w].todo
  BY <1>2, ReadersParts, LocalsOf DEF SameWork, Locals
<1>4. label \notin PublishLabels \cup WriteLabels \cup {"process", "targets", "claim", "rows"}
  BY DEF RemoveLabels, PublishLabels, WriteLabels
<1>5. ~Publishing(w)' /\ TodoInv(w)
  BY <1>3, <1>4, ReadersParts DEF Publishing, WorkerParts
<1>6. Keeps(w)
  BY <1>3, <1>4, <1>5 DEF Keeps, ServesOn, CleanLabels
<1>7. TodoInv(w)'
  BY <1>1, <1>2, <1>3, <1>5 DEF TodoInv, SameWork, IsPass, IsDelete, TheDoc
<1> QED  BY <1>2, <1>6, <1>7, KeepsServes

\* It has removed its pair, and goes on with the next one.
LEMMA RemovedServes ==
    ASSUME ReadersInv, FlowInv', NEW w \in Workers, work[w].pc \in RemoveLabels,
           NextPair(w, IF IsPass(w) THEN "clean" ELSE "targets"),
           UNCHANGED transition, TablesStep
    PROVE  ReadersInv'
<1> DEFINE label == IF IsPass(w) THEN "clean" ELSE "targets"
<1>1. label \in Labels \ LockLabels
  BY DEF Labels, LockLabels, PublishLabels, RemoveLabels
<1>2. /\ Placed(w) /\ lock'[w] = None
      /\ work'[w] = [work[w] EXCEPT !.pc = label, !.todo = work[w].todo \ {lock[w]}]
  BY <1>1, ReadersParts, NextPairPlaces
<1>3. /\ SameWork(w) /\ work'[w].pc = label
      /\ work'[w].todo = work[w].todo \ {lock[w]}
  BY <1>2, ReadersParts, LocalsOf DEF SameWork, Locals
<1>4. IsPass(w) \/ IsDelete(w)
  BY ReadersParts, LocalsOf DEF InScope
<1>5. ~Publishing(w)' /\ TodoInv(w)
  BY <1>3, <1>4, ReadersParts
  DEF Publishing, WorkerParts, IsPass, IsDelete, SameWork, PublishLabels
<1>6. label \notin WriteLabels \cup {"claim", "rows"}
  BY DEF WriteLabels
<1>7. Keeps(w)
  BY <1>3, <1>5, <1>6 DEF Keeps, ServesOn, CleanLabels
<1>8. TodoInv(w)'
  BY <1>1, <1>3, <1>5 DEF TodoInv, SameWork, IsPass, IsDelete, TheDoc
<1> QED  BY <1>2, <1>7, <1>8, KeepsServes

-----------------------------------------------------------------------------
(* The steps of a job that publishes. *)

LEMMA TablesStill ==
    ASSUME ReadersInv, UNCHANGED <<docs, jobs, lastRequest, rows>>
    PROVE  TablesStep
BY ReadersParts, StoreStays, SameJobsHold, JobsOnly DEF storeVars

LEMMA FailuresStep ==
    ASSUME ReadersInv, UNCHANGED storeVars,
           \/ rows' = rows
           \/ \E o : FailPendingForOperation(o)
           \/ \E p \in Pairs : \E g, o : RecordPublicationError(p, g, o)
    PROVE  TablesStep
BY ReadersParts, StoreStays, SameJobsHold, FailuresLeave DEF storeVars

LEMMA GotoRests ==
    ASSUME ReadersInv, FlowInv', NEW w \in Workers, NEW label \in RestLabels,
           Goto(w, label), ~IsPass(w), UNCHANGED transition, TablesStep,
           Release(w) \/ (lock' = lock /\ work[w].pc \notin LockLabels)
    PROVE  ReadersInv'
<1>1. label \in Labels \ LockLabels
  BY DEF RestLabels, Labels, LockLabels, PublishLabels, RemoveLabels
<1>2. Placed(w) /\ work'[w] = [work[w] EXCEPT !.pc = label]
  BY <1>1, ReadersParts, GotoReleases, GotoPlaces
<1> QED  BY <1>2, RestServes

\* A worker that claims a job does not publish.
LEMMA ClaimHolds ==
    ASSUME ReadersInv, NEW w \in Workers, Claim(w)
    PROVE  ClaimsStay
<1>1. PICK j \in JobIds : ClaimJob(w, j)
  BY DEF Claim
<1>2. FlowInv /\ work[w].pc = "idle" /\ UNCHANGED <<docs, lastRequest>>
  BY ReadersParts DEF Claim, At
<1>3. StoreMove
  BY <1>1, <1>2, ClaimMoves
<1>4. ASSUME NEW v \in Workers, Publishing(v),
             jobs'[work[v].job].status = "processing",
             jobs'[work[v].job].attempts = work[v].attempt,
             jobs'[work[v].job].owner = v
      PROVE  ClaimIsCurrent(v)
  <2>1. v # w /\ work[v].job \in JobIds
    BY <1>2, <1>4, PublisherHas DEF Publishing, PublishLabels
  <2>2. jobs'[work[v].job] = jobs[work[v].job]
    BY <1>1, <1>2, <1>4, <2>1, StateTypes DEF ClaimJob, Job
  <2> QED  BY <1>4, <2>2 DEF ClaimIsCurrent, JobClaimIsCurrent
<1> QED  BY <1>3, <1>4, ClaimsHold

LEMMA ClaimServes ==
    ASSUME ReadersInv, FlowInv', NEW w \in Workers, Claim(w)
    PROVE  ReadersInv'
<1>1. PICK j \in JobIds :
         /\ ClaimJob(w, j)
         /\ work' = [work EXCEPT ![w] = [Idle EXCEPT !.pc = "claimed", !.job = j,
                                                     !.attempt = NextAttempt(j)]]
  BY DEF Claim
<1>2. /\ FlowInv /\ work[w].pc = "idle" /\ lock' = lock
      /\ UNCHANGED <<docs, lastRequest, transition, rows>>
  BY ReadersParts DEF Claim, At, publicationVars
<1>3. StoreMove /\ NextAttempt(j) \in 0..MaxAttempts
  BY <1>1, <1>2, ClaimMoves
<1> DEFINE l == [Idle EXCEPT !.pc = "claimed", !.job = j, !.attempt = NextAttempt(j)]
<1>4. l \in Locals /\ l.pc = "claimed" /\ l.seen = None /\ l.job = j
  BY <1>3 DEF Idle, Locals, Labels
<1>5. Placed(w) /\ work'[w] = l
  <2>1. l.pc \notin LockLabels /\ work[w].pc \notin LockLabels
    BY <1>2, <1>4 DEF LockLabels, PublishLabels, RemoveLabels
  <2> QED  BY <1>1, <1>2, <1>4, <2>1, PlacesUnderLock
<1>6. ClaimsStay
  BY ClaimHolds
<1>7. SwitchStays /\ TablesStep
  BY <1>2, <1>6, TransitionStays, JobsOnly
<1>8. ~Publishing(w)' /\ ~IsPass(w)'
  BY <1>4, <1>5, NullAssumption DEF Publishing, PublishLabels, IsPass
<1>9. SameSwitch({w})
  BY <1>5, <1>7, <1>8, OneWorker DEF GoesOn
<1>10. WorkerParts(w)'
  BY <1>4, <1>5, <1>8
  DEF WorkerParts, SeenInv, TodoInv, CommitInv, WriteInv, RemoveInv, PassInv,
      LockLabels, PublishLabels, RemoveLabels
<1> QED  BY <1>2, <1>9, <1>10, StepServes

LEMMA BeginJobServes ==
    ASSUME ReadersInv, FlowInv', NEW w \in Workers, BeginJob(w)
    PROVE  ReadersInv'
<1> DEFINE label == IF docs[TheDoc(w)].processed = TheRequest(w) THEN "complete"
                    ELSE IF ~StillCurrent(w) THEN "stale"
                    ELSE IF ~IsDelete(w) THEN "process"
                    ELSE IF ClaimIsCurrent(w) THEN "targets" ELSE "stale"
           bare  == IsDelete(w) /\ RowsOf(TheDoc(w)) = {}
           seen  == IF IsDelete(w) THEN None ELSE transition
           pairs == IF ~IsDelete(w) THEN {}
                    ELSE IF RowsOf(TheDoc(w)) # {} THEN RowsOf(TheDoc(w))
                    ELSE {<<TheDoc(w), EffectiveTarget(transition)>>} \cap Pairs
           l     == [work[w] EXCEPT !.pc = label, !.seen = seen, !.bare = bare, !.todo = pairs]
<1>1. /\ FlowInv /\ work[w].pc = "claimed" /\ work' = [work EXCEPT ![w] = l] /\ lock' = lock
      /\ UNCHANGED <<storeVars, transition, rows>> /\ work[w] \in Locals
      /\ work[w].job \in JobIds /\ ~IsPass(w)
      /\ transition \in Transition
  BY ReadersParts, LocalsOf, JobAt, StateTypes DEF BeginJob, At, RestLabels, publicationVars
<1>2. label \in {"complete", "stale", "process", "targets"} /\ pairs \subseteq Pairs
      /\ seen \in Transition \cup {None} /\ bare \in BOOLEAN
      /\ (\A p \in pairs : RowDoc(p) = TheDoc(w))
  BY <1>1 DEF RowsOf, RowDoc
<1>3. /\ label = "process" => docs[TheDoc(w)].processed # TheRequest(w) /\ ~IsDelete(w)
      /\ label = "targets" => IsDelete(w)
      /\ ~IsDelete(w) => seen = transition
      /\ IsDelete(w) => seen = None
  OBVIOUS
<1> HIDE DEF label, bare, seen, pairs
<1>4. /\ l \in Locals /\ l.pc = label /\ l.seen = seen /\ l.job = work[w].job
      /\ l.todo = pairs
  BY <1>1, <1>2 DEF Locals, Labels
<1>5. Placed(w) /\ work'[w] = l
  <2>1. l.pc \notin LockLabels /\ work[w].pc \notin LockLabels
    BY <1>1, <1>2, <1>4 DEF LockLabels, PublishLabels, RemoveLabels
  <2> QED  BY <1>1, <1>4, <2>1, PlacesUnderLock
<1>6. SwitchStays /\ TablesStep
  BY <1>1, TransitionStays, TablesStill DEF storeVars
<1>7. /\ Publishing(w)' => label = "process" /\ ~IsDelete(w)
      /\ ~IsPass(w)' /\ (IsDelete(w)' <=> IsDelete(w)) /\ TheDoc(w)' = TheDoc(w)
  BY <1>1, <1>2, <1>3, <1>4, <1>5
  DEF Publishing, PublishLabels, IsPass, IsDelete, TheDoc
<1>8. SameSwitch({w})
  BY <1>3, <1>4, <1>5, <1>6, <1>7, OneWorker DEF GoesOn
<1>9. SeenInv(w)'
  <2>1. CASE seen = transition
    <3>1. work'[w].seen = transition /\ transition' = transition
      BY <1>1, <1>4, <1>5, <2>1
    <3>2. transition.generation \in Nat
      BY <1>1, GenerationType
    <3> QED  BY <3>1, <3>2 DEF SeenInv, OfThisSwitch, DesiredIsEffective
  <2> QED  BY <1>3, <1>4, <1>5, <2>1 DEF SeenInv
<1>10. TodoInv(w)'
  BY <1>2, <1>4, <1>5, <1>7 DEF TodoInv, LockLabels, PublishLabels, RemoveLabels
<1>11. CommitInv(w)'
  BY <1>1, <1>3, <1>4, <1>5, <1>7 DEF CommitInv, TheDoc, TheRequest, storeVars
<1>12. WriteInv(w)' /\ RemoveInv(w)' /\ PassInv(w)'
  BY <1>2, <1>4, <1>5, <1>7 DEF WriteInv, RemoveInv, PassInv
<1>13. WorkerParts(w)'
  BY <1>9, <1>10, <1>11, <1>12 DEF WorkerParts
<1> QED  BY <1>1, <1>8, <1>13, StepServes

\* An upsert that may go on has everything before it.
LEMMA ProcessServes ==
    ASSUME ReadersInv, FlowInv', NEW w \in Workers, Process(w)
    PROVE  ReadersInv'
<1> DEFINE label == IF EffectiveTarget(work[w].seen) = "unset" THEN "error"
                    ELSE IF StillCurrent(w) /\ Matches(work[w].seen, work[w].seen.status)
                    THEN "targets" ELSE "stale"
           pairs == {<<TheDoc(w), t>> : t \in PublicationTargets(work[w].seen)}
           l     == [work[w] EXCEPT !.pc = label, !.todo = pairs]
<1>1. /\ FlowInv /\ work[w].pc = "process" /\ work' = [work EXCEPT ![w] = l] /\ lock' = lock
      /\ UNCHANGED <<storeVars, transition, rows>> /\ work[w] \in Locals
      /\ work[w].job \in JobIds /\ ~IsPass(w) /\ TheDoc(w) \in Docs
      /\ work[w].seen \in Transition /\ Publishing(w) /\ CommitInv(w)
  <2>1. work[w].pc = "process" /\ Publishing(w)
    BY ReadersParts, LocalsOf, JobAt DEF Process, At, InScope, Publishing
  <2> QED  BY <2>1, ReadersParts, LocalsOf, PublisherHas
           DEF Process, WorkerParts, publicationVars, Publishing
<1>2. /\ label \in {"error", "targets", "stale"} /\ pairs \subseteq Pairs
      /\ \A p \in pairs : RowDoc(p) = TheDoc(w) /\ RowTarget(p) \in PublicationTargets(work[w].seen)
      /\ \A p \in Pairs : RowDoc(p) = TheDoc(w) /\ RowTarget(p) \in PublicationTargets(work[w].seen)
                            => p \in pairs
      /\ label = "targets" => EffectiveTarget(work[w].seen) # "unset"
  BY <1>1, TargetsPublished DEF Pairs, RowDoc, RowTarget
<1> HIDE DEF label, pairs
<1>3. l \in Locals /\ l.pc = label /\ l.seen = work[w].seen /\ l.job = work[w].job
      /\ l.todo = pairs /\ l.attempt = work[w].attempt
  BY <1>1, <1>2 DEF Locals, Labels
<1>4. Placed(w) /\ work'[w] = l
  <2>1. l.pc \notin LockLabels /\ work[w].pc \notin LockLabels
    BY <1>1, <1>2, <1>3 DEF LockLabels, PublishLabels, RemoveLabels
  <2> QED  BY <1>1, <1>3, <2>1, PlacesUnderLock
<1>5. SwitchStays /\ TablesStep
  BY <1>1, TransitionStays, TablesStill DEF storeVars
<1>6. /\ GoesOn(w) /\ ~IsPass(w)' /\ ~IsDelete(w)' /\ TheDoc(w)' = TheDoc(w)
      /\ TheRequest(w)' = TheRequest(w)
      /\ Publishing(w)' => label = "targets"
  BY <1>1, <1>2, <1>3, <1>4
  DEF GoesOn, Publishing, IsPass, IsDelete, TheDoc, TheRequest, PublishLabels
<1>7. SameSwitch({w})
  BY <1>4, <1>5, <1>6, OneWorker
<1>8. SeenInv(w)'
  BY <1>3, <1>4, <1>5, SeenStays
<1>9. TodoInv(w)'
  BY <1>2, <1>3, <1>4, <1>6 DEF TodoInv, LockLabels, PublishLabels, RemoveLabels
<1>10. CommitInv(w)'
  <2>1. MayCommit(w)' => MayCommit(w)
    BY <1>1, <1>3, <1>4
    DEF MayCommit, StillCurrent, RequestIsCurrent, ClaimIsCurrent, JobClaimIsCurrent,
        TheDoc, TheRequest, storeVars
  <2>2. MayCommit(w)' => docs'[TheDoc(w)].processed # TheRequest(w)
    BY <1>1, <2>1 DEF CommitInv, storeVars
  <2>3. ASSUME OfThisSwitch(work[w].seen)', Publishing(w)', NEW p \in Pairs,
               RowDoc(p) = TheDoc(w), RowTarget(p) = transition'.desired
        PROVE  p \in work'[w].todo
    <3>1. RowTarget(p) = EffectiveTarget(work[w].seen) /\ EffectiveTarget(work[w].seen) # "unset"
      BY <1>1, <1>2, <1>3, <1>4, <1>6, <2>3 DEF OfThisSwitch
    <3>2. RowTarget(p) \in PublicationTargets(work[w].seen)
      BY <3>1 DEF PublicationTargets
    <3> QED  BY <1>2, <1>3, <1>4, <2>3, <3>2
  <2> QED  BY <1>6, <2>2, <2>3 DEF CommitInv, RowDoc, RowTarget
<1>11. WriteInv(w)' /\ RemoveInv(w)' /\ PassInv(w)'
  BY <1>2, <1>3, <1>4, <1>6 DEF WriteInv, RemoveInv, PassInv
<1>12. WorkerParts(w)'
  BY <1>8, <1>9, <1>10, <1>11 DEF WorkerParts
<1> QED  BY <1>1, <1>7, <1>12, StepServes

LEMMA LockServes ==
    ASSUME ReadersInv, FlowInv', NEW w \in Workers, Lock(w)
    PROVE  ReadersInv'
<1>1. PICK p \in Pairs : EnterLock(w, p)
  BY DEF Lock
<1> DEFINE label == IF At(w, "targets") /\ ~IsDelete(w) THEN "guard" ELSE "fence"
           l     == [work[w] EXCEPT !.pc = label]
<1>2. /\ FlowInv /\ work[w] \in Locals /\ TodoInv(w)
      /\ work[w].pc \in {"targets", "clean"}
      /\ work' = [work EXCEPT ![w] = l]
      /\ lock' = [lock EXCEPT ![w] = p] /\ (\A v \in Workers : lock[v] # p)
      /\ UNCHANGED <<storeVars, transition, rows>>
      /\ p \in work[w].todo
  BY <1>1, ReadersParts, LocalsOf
  DEF WorkerParts, Lock, At, Goto, EnterLock, NextPairs, publicationVars
<1>3. /\ work[w].pc = "targets" => ~IsPass(w)
      /\ work[w].pc = "clean" => IsPass(w)
  BY <1>2, LocalsOf, JobAt DEF InScope, PassLabels
<1>4. /\ label \in {"guard", "fence"} /\ label \in Labels /\ label \in LockLabels
      /\ label = "guard" => work[w].pc = "targets" /\ ~IsDelete(w)
      /\ label = "fence" => work[w].pc = "clean" \/ IsDelete(w)
  BY <1>2 DEF Labels, LockLabels, PublishLabels, RemoveLabels, At
<1> HIDE DEF label
<1>5. l \in Locals /\ l.pc = label /\ l.seen = work[w].seen /\ l.job = work[w].job
      /\ l.todo = work[w].todo /\ l.attempt = work[w].attempt
  BY <1>2, <1>4 DEF Locals
<1> HIDE DEF l
<1>0. p # None
  BY NullAssumption
<1>6. Placed(w) /\ work'[w] = l /\ lock'[w] = p
  BY <1>0, <1>2, <1>4, <1>5, Places
<1>7. /\ SameWork(w) /\ (IsPass(w)' <=> IsPass(w)) /\ (IsDelete(w)' <=> IsDelete(w))
      /\ TheDoc(w)' = TheDoc(w)
  BY <1>5, <1>6 DEF SameWork, IsPass, IsDelete, TheDoc
<1>8. Publishing(w)' => Publishing(w) /\ label = "guard"
  BY <1>3, <1>4, <1>5, <1>6, <1>7 DEF Publishing, PublishLabels
<1>9. Keeps(w)
  BY <1>2, <1>3, <1>4, <1>5, <1>6, <1>7, <1>8
  DEF Keeps, ServesOn, WriteLabels, CleanLabels
<1>10. TodoInv(w)'
  <2>1. lock'[w] \in work'[w].todo
    BY <1>2, <1>5, <1>6
  <2>2. Publishing(w)' =>
           /\ EffectiveTarget(work'[w].seen) # "unset"
           /\ \A q \in work'[w].todo : /\ RowDoc(q) = TheDoc(w)
                                        /\ RowTarget(q) \in PublicationTargets(work'[w].seen)
    BY <1>2, <1>4, <1>5, <1>6, <1>8 DEF TodoInv
  <2>3. ~IsPass(w)' /\ IsDelete(w)' => \A q \in work'[w].todo : RowDoc(q) = TheDoc(w)
    BY <1>2, <1>3, <1>5, <1>6, <1>7 DEF TodoInv
  <2>4. IsPass(w)' => \A q \in work'[w].todo : RowTarget(q) # work'[w].seen.desired
    BY <1>2, <1>3, <1>5, <1>6, <1>7 DEF TodoInv
  <2> QED  BY <1>7, <2>1, <2>2, <2>3, <2>4 DEF TodoInv, RowDoc, RowTarget
<1>11. TablesStep
  BY <1>2, TablesStill DEF storeVars
<1> QED  BY <1>2, <1>6, <1>9, <1>10, <1>11, KeepsServes

\* What is written for a document that nobody could have made ready.
LEMMA GuardServes ==
    ASSUME ReadersInv, FlowInv', NEW w \in Workers, Guard(w)
    PROVE  ReadersInv'
<1>1. /\ FlowInv /\ work[w].pc = "guard" /\ ~IsPass(w) /\ ~IsDelete(w)
      /\ UNCHANGED <<storeVars, transition>> /\ work[w] \in Locals /\ TodoInv(w)
      /\ lock[w] \in Pairs /\ Publishing(w) /\ SeenInv(w) /\ work[w].seen \in Transition
  <2>1. work[w].pc = "guard" /\ Publishing(w)
    BY ReadersParts, JobAt DEF Guard, At, Publishing, PublishLabels
  <2> QED  BY <2>1, ReadersParts, LocalsOf, JobAt, PublisherHas
           DEF Guard, WorkerParts, PublishLabels, LockLabels
<1>2. CASE ~MayRecordPending(w, work[w].job, work[w].attempt, work[w].seen, ThePair(w))
  <2>1. Goto(w, "stale") /\ Release(w) /\ rows' = rows
    BY <1>2 DEF Guard, publicationVars
  <2>2. TablesStep
    BY <1>1, <2>1, TablesStill DEF storeVars
  <2> QED  BY <1>1, <2>1, <2>2, GotoRests DEF RestLabels
<1>3. CASE MayRecordPending(w, work[w].job, work[w].attempt, work[w].seen, ThePair(w))
  <2>1. /\ RecordPublicationPending(lock[w], work[w].seen.generation, Operation(w))
        /\ Goto(w, "write") /\ lock' = lock
    BY <1>3 DEF Guard, ThePair
  <2>2. Placed(w) /\ work'[w] = [work[w] EXCEPT !.pc = "write"] /\ lock'[w] = lock[w]
    BY <1>1, <2>1, GotoPlaces DEF Labels, LockLabels, PublishLabels
  <2>3. SameWork(w) /\ work'[w].pc = "write" /\ work'[w].todo = work[w].todo
    BY <1>1, <2>2 DEF SameWork, Locals
  <2>4. /\ TablesStep /\ MayCommit(w) /\ TheDoc(w) = RowDoc(lock[w])
    BY <1>1, <1>3, <2>1, <2>3, PendingSteps DEF At, ThePair
  <2>5. SwitchStays /\ GoesOn(w)
    BY <1>1, <2>3, TransitionStays DEF GoesOn, SameWork
  <2>6. SameSwitch({w})
    BY <2>2, <2>4, <2>5, OneWorker
  <2>7. lock[w] \in work[w].todo /\ \A p \in Pairs : p # lock[w] => rows'[p] = rows[p]
    BY <1>1, <2>1, StateTypes
    DEF TodoInv, LockLabels, PublishLabels, RecordPublicationPending
  <2>8. CommitInv(w)'
    BY <1>1, <2>3, <2>6, <2>7, CommitStays DEF ServesOn
  <2>9. WriteInv(w)'
    <3> SUFFICES ASSUME work[w].seen.generation = transition.generation,
                        RowTarget(lock[w]) = transition.desired
                 PROVE  /\ docs[RowDoc(lock[w])].status # "Ready"
                        /\ \A v \in Workers : Outsider(v)' => TheDoc(v)' # RowDoc(lock[w])
      BY <1>1, <2>2, <2>3 DEF WriteInv, SameWork, RowDoc, RowTarget, storeVars
    <3>1. OfThisSwitch(work[w].seen) /\ DesiredIsEffective
      BY <1>1, InsiderTarget DEF PublishLabels
    <3>2. docs[RowDoc(lock[w])].status # "Ready"
      BY <1>1, <2>4, UnsettledIsNotReady
    <3>3. ASSUME NEW v \in Workers, Outsider(v)', TheDoc(v)' = RowDoc(lock[w])
          PROVE  FALSE
      <4>1. Outsider(v) /\ TheDoc(v) = TheDoc(w)
        BY <2>4, <2>6, <3>1, <3>3, OutsidersStay DEF TheDoc
      <4>2. v = w
        BY <1>1, <2>4, <4>1, OneCommitter DEF Outsider
      <4> QED  BY <3>1, <4>1, <4>2 DEF Outsider
    <3> QED  BY <3>2, <3>3
  <2>10. SeenInv(w)' /\ TodoInv(w)'
    <3>1. SeenInv(w)'
      BY <2>3, <2>5, SeenStays DEF SameWork
    <3>2. TodoInv(w)'
      BY <1>1, <2>2, <2>3
      DEF TodoInv, Publishing, SameWork, IsPass, IsDelete, TheDoc, LockLabels, PublishLabels
    <3> QED  BY <3>1, <3>2
  <2>11. RemoveInv(w)' /\ PassInv(w)'
    BY <1>1, <2>3 DEF RemoveInv, PassInv, IsPass, SameWork
  <2>12. WorkerParts(w)'
    BY <2>8, <2>9, <2>10, <2>11 DEF WorkerParts
  <2> QED  BY <1>1, <2>6, <2>12, StepServes
<1> QED  BY <1>2, <1>3

LEMMA PublishStepServes ==
    ASSUME ReadersInv, FlowInv', NEW w \in Workers, Publish(w)
    PROVE  ReadersInv'
<1>1. TablesStep
  BY TablesStill DEF Publish, storeVars, publicationVars
<1> QED  BY <1>1, PublishServes DEF Publish, At, WriteLabels, publicationVars

LEMMA PublishFailsServes ==
    ASSUME ReadersInv, FlowInv', NEW w \in Workers, PublishFails(w)
    PROVE  ReadersInv'
<1>1. ~IsPass(w) /\ lock[w] \in Pairs
  BY ReadersParts, JobAt DEF PublishFails, At, PublishLabels, LockLabels
<1>2. TablesStep
  BY <1>1, FailuresStep DEF PublishFails, ThePair
<1> QED  BY <1>1, <1>2, GotoRests DEF PublishFails, RestLabels

LEMMA VerifyServes ==
    ASSUME ReadersInv, FlowInv', NEW w \in Workers, Verify(w)
    PROVE  ReadersInv'
<1>1. ~IsPass(w) /\ lock[w] \in Pairs /\ work[w].pc = "verify"
      /\ UNCHANGED <<storeVars, transition>>
  BY ReadersParts, JobAt DEF Verify, At, PublishLabels, LockLabels
<1>2. CASE Goto(w, "record") /\ UNCHANGED <<publicationVars, lock>>
  <2>1. TablesStep
    BY <1>1, <1>2, TablesStill DEF storeVars, publicationVars
  <2> QED  BY <1>1, <1>2, <2>1, PublishServes DEF WriteLabels, publicationVars
<1>3. CASE /\ RecordPublicationError(ThePair(w), work[w].seen.generation, Operation(w))
           /\ Goto(w, "stale") /\ Release(w)
  <2>1. TablesStep
    BY <1>1, <1>3, FailuresStep DEF ThePair
  <2> QED  BY <1>1, <1>3, <2>1, GotoRests DEF RestLabels
<1> QED  BY <1>2, <1>3 DEF Verify

LEMMA RecordPublishedServes ==
    ASSUME ReadersInv, FlowInv', NEW w \in Workers, RecordPublished(w)
    PROVE  ReadersInv'
<1>1. /\ FlowInv /\ work[w].pc = "record" /\ ~IsPass(w) /\ ~IsDelete(w)
      /\ UNCHANGED <<storeVars, transition>> /\ work[w] \in Locals /\ TodoInv(w)
      /\ lock[w] \in Pairs /\ Publishing(w)
  BY ReadersParts, LocalsOf, JobAt
  DEF RecordPublished, At, WorkerParts, Publishing, PublishLabels, LockLabels
<1>2. CASE Goto(w, "stale") /\ Release(w) /\ UNCHANGED publicationVars
  <2>1. TablesStep
    BY <1>1, <1>2, TablesStill DEF storeVars, publicationVars
  <2> QED  BY <1>1, <1>2, <2>1, GotoRests DEF RestLabels
<1>3. CASE /\ OperationIsPending(ThePair(w), work[w].seen.generation, Operation(w))
           /\ RecordPublicationSuccess(ThePair(w), work[w].seen.generation, TheRequest(w))
           /\ NextPair(w, "targets")
  <2>1. TablesStep
    BY <1>1, <1>3, SuccessSteps DEF OperationIsPending, ThePair, At
  <2>2. /\ Placed(w) /\ lock'[w] = None
        /\ work'[w] = [work[w] EXCEPT !.pc = "targets", !.todo = work[w].todo \ {lock[w]}]
    BY <1>1, <1>3, NextPairPlaces DEF Labels, LockLabels, PublishLabels, RemoveLabels
  <2>3. /\ SameWork(w) /\ work'[w].pc = "targets" /\ work'[w].todo = work[w].todo \ {lock[w]}
    BY <1>1, <2>2 DEF SameWork, Locals
  <2>4. /\ \A p \in Pairs : p # lock[w] => rows'[p] = rows[p]
        /\ rows'[lock[w]].status = "ready" /\ rows'[lock[w]].content = TheRequest(w)
        /\ rows'[lock[w]].generation = work[w].seen.generation
    BY <1>1, <1>3, StateTypes DEF RecordPublicationSuccess, ThePair
  <2>5. lock[w] \in work[w].todo
    BY <1>1 DEF TodoInv, LockLabels, PublishLabels
  <2>6. ServesOn(w)
    BY <1>1, <2>3, <2>4, <2>5 DEF ServesOn, ServedPair, RowTarget
  <2>7. Keeps(w)
    BY <1>1, <2>3, <2>6 DEF Keeps, WriteLabels, CleanLabels
  <2>8. TodoInv(w)'
    BY <1>1, <2>3 DEF TodoInv, SameWork, IsPass, IsDelete, TheDoc, Publishing,
       LockLabels, PublishLabels, RemoveLabels
  <2> QED  BY <1>1, <2>1, <2>2, <2>7, <2>8, KeepsServes
<1> QED  BY <1>2, <1>3 DEF RecordPublished

-----------------------------------------------------------------------------
(* The outcomes of a job. *)

LEMMA CommitServes ==
    ASSUME ReadersInv, FlowInv', NEW w \in Workers, Commit(w)
    PROVE  ReadersInv'
<1>1. ~IsPass(w) /\ work[w].pc \notin LockLabels
  BY ReadersParts, JobAt DEF Commit, At
<1>2. TablesStep
  BY CommitSteps
<1>3. Goto(w, "complete") \/ Goto(w, "stale")
  BY DEF Commit
<1>4. "complete" \in RestLabels /\ "stale" \in RestLabels
  BY DEF RestLabels
<1> QED  BY <1>1, <1>2, <1>3, <1>4, GotoRests DEF Commit

LEMMA CloseHolds ==
    ASSUME ReadersInv, NEW w \in Workers, Complete(w) \/ Cancel(w) \/ FailJob(w)
    PROVE  ClaimsStay
<1>1. /\ UNCHANGED <<docs, lastRequest>>
      /\ work[w].job \in JobIds
  <2>1. work[w].pc \in RestLabels
    BY DEF Complete, Cancel, FailJob, At, RestLabels
  <2> QED  BY <2>1, ReadersParts, JobAt DEF Complete, Cancel, FailJob
<1>2. PICK status \in {"completed", "cancelled", "failed"} :
        CloseJob(w, work[w].job, work[w].attempt, status)
  BY DEF Complete, Cancel, FailJob
<1>3. StoreMove
  BY <1>1, <1>2, ReadersParts, CloseMoves
<1>4. \A j \in JobIds : jobs'[j] = jobs[j] \/ jobs'[j].status # "processing"
  BY <1>1, <1>2, ReadersParts, StateTypes DEF CloseJob, Job
<1> QED  BY <1>3, <1>4, ClaimsHold, ReadersParts, PublisherHas DEF ClaimIsCurrent, JobClaimIsCurrent

LEMMA CloseServes ==
    ASSUME ReadersInv, FlowInv', NEW w \in Workers, Complete(w) \/ Cancel(w) \/ FailJob(w)
    PROVE  ReadersInv'
<1>1. Drop(w) /\ UNCHANGED <<docs, transition, rows>>
  BY DEF Complete, Cancel, FailJob, publicationVars
<1>2. ClaimsStay
  BY CloseHolds
<1> QED  BY <1>1, <1>2, JobsOnly, TransitionStays, DropServes

LEMMA StaleServes ==
    ASSUME ReadersInv, FlowInv', NEW w \in Workers, Stale(w)
    PROVE  ReadersInv'
<1>1. ~IsPass(w) /\ work[w].pc \notin LockLabels
  BY ReadersParts, JobAt DEF Stale, At, RestLabels
<1>2. TablesStep
  BY FailuresStep DEF Stale
<1> QED  BY <1>1, <1>2, GotoRests DEF Stale, RestLabels

LEMMA JudgeErrorServes ==
    ASSUME ReadersInv, FlowInv', NEW w \in Workers, JudgeError(w)
    PROVE  ReadersInv'
<1>1. ~IsPass(w) /\ work[w].pc \notin LockLabels
  BY ReadersParts, JobAt DEF JudgeError, At, RestLabels
<1>2. TablesStep
  BY TablesStill DEF JudgeError, storeVars, publicationVars
<1>3. PICK label \in RestLabels : Goto(w, label)
  BY DEF JudgeError, RestLabels
<1> QED  BY <1>1, <1>2, <1>3, GotoRests DEF JudgeError

LEMMA RecordErrorServes ==
    ASSUME ReadersInv, FlowInv', NEW w \in Workers, RecordError(w)
    PROVE  ReadersInv'
<1>1. /\ ~IsPass(w) /\ work[w].pc \notin LockLabels /\ TheDoc(w) \in Docs
      /\ UNCHANGED <<jobs, lastRequest, transition, rows>>
  BY ReadersParts, JobAt, JobParts DEF RecordError, At, RestLabels, TheDoc, publicationVars
<1>2. CASE RecordDocumentError(TheDoc(w)) /\ Goto(w, "fail_job") /\ UNCHANGED lock
  <2>1. TablesStep
    BY <1>1, <1>2, ErrorSteps
  <2> QED  BY <1>1, <1>2, <2>1, GotoRests DEF RestLabels
<1>3. CASE UNCHANGED docs /\ Drop(w)
  <2>1. TablesStep
    BY <1>1, <1>3, TablesStill
  <2> QED  BY <1>1, <1>3, <2>1, TransitionStays, DropServes
<1> QED  BY <1>2, <1>3 DEF RecordError

-----------------------------------------------------------------------------
(* The steps of a removal. *)

LEMMA StopServes ==
    ASSUME ReadersInv, FlowInv', NEW w \in Workers, Stop(w), UNCHANGED <<storeVars, transition>>
    PROVE  ReadersInv'
<1>1. TablesStep /\ SwitchStays
  BY TablesStill, TransitionStays DEF Stop, storeVars, publicationVars
<1>2. CASE IsPass(w)
  BY <1>1, <1>2, DropServes DEF Stop
<1>3. CASE ~IsPass(w)
  BY <1>1, <1>3, GotoRests DEF Stop, RestLabels
<1> QED  BY <1>2, <1>3

\* What may be removed serves nobody: a pass removes from other targets, and a
\* document that is deleted is not wanted.
LEMMA RemovedServesNobody ==
    ASSUME ReadersInv, NEW w \in Workers, work[w].pc = "fence", MayRemove(w)
    PROVE  ~ServedPair(lock[w])
<1>1. /\ FlowInv /\ TodoInv(w) /\ lock[w] \in work[w].todo /\ lock[w] \in Pairs
      /\ IsPass(w) \/ (IsDelete(w) /\ work[w].job \in JobIds /\ Known(work[w].job))
  BY ReadersParts, LocalsOf, JobAt
  DEF WorkerParts, TodoInv, LockLabels, RemoveLabels, InScope
<1>2. CASE IsPass(w)
  BY <1>1, <1>2 DEF TodoInv, RemoveLabels, MayRemove, Matches, ServedPair
<1>3. CASE ~IsPass(w)
  <2>1. RowDoc(lock[w]) = TheDoc(w) /\ TheDoc(w) \in Docs
    BY <1>1, <1>3, JobParts DEF TodoInv, RemoveLabels, TheDoc
  <2>2. ~docs[TheDoc(w)].desired
    BY <1>1, <1>3
    DEF MayRemove, StillCurrent, RequestIsCurrent, TheRequest, TheDoc, IsDelete,
        FlowInv, RequestsInv
  <2> QED  BY <1>1, <2>1, <2>2, ReadersParts DEF DocsInv, RowsOf, HasRow, ServedPair
<1> QED  BY <1>2, <1>3

LEMMA FenceServes ==
    ASSUME ReadersInv, FlowInv', NEW w \in Workers, Fence(w)
    PROVE  ReadersInv'
<1>1. /\ FlowInv /\ work[w].pc = "fence" /\ UNCHANGED <<storeVars, transition>>
      /\ work[w] \in Locals /\ TodoInv(w) /\ lock[w] \in Pairs
  BY ReadersParts, LocalsOf, JobAt DEF Fence, At, WorkerParts, LockLabels, RemoveLabels
<1>2. CASE Stop(w)
  BY <1>1, <1>2, StopServes
<1>3. CASE /\ MayRemove(w) /\ Goto(w, "claim") /\ UNCHANGED <<rows, lock>>
  <2>1. Placed(w) /\ work'[w] = [work[w] EXCEPT !.pc = "claim"] /\ lock'[w] = lock[w]
    BY <1>1, <1>3, GotoPlaces DEF Labels, LockLabels, RemoveLabels
  <2>2. SameWork(w) /\ work'[w].pc = "claim" /\ work'[w].todo = work[w].todo
    BY <1>1, <2>1 DEF SameWork, Locals
  <2>3. ~Publishing(w)'
    BY <2>2 DEF Publishing, PublishLabels
  <2>4. SwitchStays /\ TablesStep
    BY <1>1, <1>3, TransitionStays, TablesStill DEF storeVars
  <2>5. SameSwitch({w})
    BY <2>1, <2>3, <2>4, OneWorker DEF GoesOn
  <2>6. RemoveInv(w)'
    BY <1>1, <1>3, <2>1, RemovedServesNobody DEF RemoveInv, ServedPair, RowTarget
  <2>7. SeenInv(w)' /\ PassInv(w)'
    BY <1>1, <2>2, <2>4, <2>5, SeenStays, PassStays DEF CleanLabels, RemoveLabels, SameWork
  <2>8. TodoInv(w)'
    BY <1>1, <2>1, <2>2, <2>3
    DEF TodoInv, SameWork, IsPass, IsDelete, TheDoc, LockLabels, RemoveLabels
  <2>9. CommitInv(w)' /\ WriteInv(w)'
    BY <2>2, <2>3 DEF CommitInv, WriteInv
  <2>10. WorkerParts(w)'
    BY <2>6, <2>7, <2>8, <2>9 DEF WorkerParts
  <2> QED  BY <1>1, <2>5, <2>10, StepServes
<1>4. CASE Goto(w, "remote_remove") /\ UNCHANGED <<publicationVars, lock>>
  <2>1. TablesStep
    BY <1>1, <1>4, TablesStill DEF storeVars, publicationVars
  <2> QED  BY <1>1, <1>4, <2>1, RemovalServes DEF RemoveLabels
<1>5. CASE NextPair(w, IF IsPass(w) THEN "clean" ELSE "targets") /\ UNCHANGED publicationVars
  <2>1. TablesStep
    BY <1>1, <1>5, TablesStill DEF storeVars, publicationVars
  <2> QED  BY <1>1, <1>5, <2>1, RemovedServes DEF RemoveLabels
<1> QED  BY <1>2, <1>3, <1>4, <1>5 DEF Fence

LEMMA ClaimRemovalServes ==
    ASSUME ReadersInv, FlowInv', NEW w \in Workers, ClaimRemoval(w)
    PROVE  ReadersInv'
<1>1. /\ work[w].pc = "claim" /\ UNCHANGED <<storeVars, transition, lock>>
      /\ RemoveInv(w) /\ lock[w] \in Pairs
  BY ReadersParts, JobAt DEF ClaimRemoval, At, WorkerParts, LockLabels, RemoveLabels
<1>2. TablesStep
  <2>1. CASE ClaimPublicationRemoval(lock[w], Operation(w))
    BY <1>1, <2>1, RemovalSteps DEF RemoveInv
  <2>2. CASE UNCHANGED publicationVars
    BY <1>1, <2>2, TablesStill DEF storeVars, publicationVars
  <2> QED  BY <2>1, <2>2 DEF ClaimRemoval, ThePair
<1>3. Goto(w, "claimed_row") \/ Goto(w, "conflict")
  BY DEF ClaimRemoval
<1> QED  BY <1>1, <1>2, <1>3, RemovalServes DEF RemoveLabels

LEMMA CheckRemovalClaimServes ==
    ASSUME ReadersInv, FlowInv', NEW w \in Workers, CheckRemovalClaim(w)
    PROVE  ReadersInv'
<1>1. TablesStep
  BY TablesStill DEF CheckRemovalClaim, storeVars, publicationVars
<1>2. Goto(w, "remote_remove") \/ Goto(w, "conflict")
  BY DEF CheckRemovalClaim
<1> QED  BY <1>1, <1>2, RemovalServes DEF CheckRemovalClaim, At, RemoveLabels

LEMMA RemoteRemoveServes ==
    ASSUME ReadersInv, FlowInv', NEW w \in Workers, RemoteRemove(w)
    PROVE  ReadersInv'
<1>1. TablesStep /\ UNCHANGED transition /\ work[w].pc \in RemoveLabels
  BY TablesStill DEF RemoteRemove, storeVars, publicationVars, At, RemoveLabels
<1>2. CASE Goto(w, "forget") /\ UNCHANGED lock
  BY <1>1, <1>2, RemovalServes DEF RemoveLabels
<1>3. CASE work[w].bare /\ NextPair(w, "targets")
  <2>1. ~IsPass(w)
    BY <1>3, ReadersParts, LocalsOf DEF InScope
  <2> QED  BY <1>1, <1>3, <2>1, RemovedServes
<1> QED  BY <1>2, <1>3 DEF RemoteRemove

LEMMA RemoteRemoveFailsServes ==
    ASSUME ReadersInv, FlowInv', NEW w \in Workers, RemoteRemoveFails(w)
    PROVE  ReadersInv'
<1>1. TablesStep /\ work[w].pc = "remote_remove"
  BY TablesStill DEF RemoteRemoveFails, storeVars, publicationVars, At
<1>2. CASE IsPass(w)
  <2>1. PassInv(w) /\ work[w].seen \in Transition
    BY <1>1, <1>2, ReadersParts, LocalsOf DEF WorkerParts, InScope, RemoveLabels
  <2>2. work[w].seen.desired # "unset"
    BY <1>2, <2>1, NullAssumption DEF PassInv
  <2>3. CASE /\ Matches(work[w].seen, "cleaning")
             /\ transition' = [transition EXCEPT !.status = "failed", !.error = "cleanup"]
    <3>1. SwitchStays
      BY <2>2, <2>3, StatusStays DEF Matches, TransitionStatuses
    <3>2. transition'.status # "active"
      BY <2>3, ReadersParts, StateTypes DEF Transition
    <3> QED  BY <1>1, <1>2, <3>1, <3>2, DropServes DEF RemoteRemoveFails
  <2>4. CASE UNCHANGED transition
    BY <1>1, <1>2, <2>4, TransitionStays, DropServes DEF RemoteRemoveFails
  <2> QED  BY <1>2, <2>3, <2>4 DEF RemoteRemoveFails
<1>3. CASE ~IsPass(w)
  BY <1>1, <1>3, GotoRests DEF RemoteRemoveFails, RestLabels
<1> QED  BY <1>2, <1>3

LEMMA ForgetRowServes ==
    ASSUME ReadersInv, FlowInv', NEW w \in Workers, ForgetRow(w)
    PROVE  ReadersInv'
<1>1. /\ work[w].pc = "forget" /\ work[w].pc \in RemoveLabels /\ lock[w] \in Pairs
      /\ UNCHANGED <<storeVars, transition>>
  BY ReadersParts, JobAt DEF ForgetRow, At, LockLabels, RemoveLabels
<1>2. CASE /\ RemovalIsClaimed(ThePair(w), Operation(w))
           /\ RemovePublicationRecord(ThePair(w))
           /\ NextPair(w, IF IsPass(w) THEN "clean" ELSE "targets")
  <2>1. TablesStep
    BY <1>1, <1>2, RemovalSteps DEF ThePair, RemovalIsClaimed, ServedPair
  <2> QED  BY <1>1, <1>2, <2>1, RemovedServes
<1>3. CASE Goto(w, "conflict") /\ UNCHANGED <<publicationVars, lock>>
  <2>1. TablesStep
    BY <1>1, <1>3, TablesStill DEF storeVars, publicationVars
  <2> QED  BY <1>1, <1>3, <2>1, RemovalServes DEF RemoveLabels
<1> QED  BY <1>2, <1>3 DEF ForgetRow

LEMMA ConflictServes ==
    ASSUME ReadersInv, FlowInv', NEW w \in Workers, Conflict(w)
    PROVE  ReadersInv'
<1>1. TablesStep /\ SwitchStays
  BY TablesStill, TransitionStays DEF Conflict, storeVars, publicationVars
<1>2. CASE IsPass(w)
  BY <1>1, <1>2, DropServes DEF Conflict
<1>3. CASE ~IsPass(w)
  <2>1. PICK label \in RestLabels : Goto(w, label)
    BY <1>3 DEF Conflict, RestLabels
  <2> QED  BY <1>1, <1>3, <2>1, GotoRests DEF Conflict
<1> QED  BY <1>2, <1>3

-----------------------------------------------------------------------------
(* Requests, the administrator, and what nobody does. *)

LEMMA CrashServes ==
    ASSUME ReadersInv, FlowInv', NEW w \in Workers, Crash(w)
    PROVE  ReadersInv'
<1>1. TablesStep /\ SwitchStays
  BY TablesStill, TransitionStays DEF Crash, storeVars
<1> QED  BY <1>1, DropServes DEF Crash

LEMMA LeaseHolds ==
    ASSUME ReadersInv, NEW j \in JobIds, LeaseExpires(j)
    PROVE  ClaimsStay
<1>1. /\ UNCHANGED <<docs, lastRequest>>
      /\ jobs \in [JobIds -> Job] /\ jobs' = [jobs EXCEPT ![j].leased = FALSE]
  BY ReadersParts, StateTypes DEF LeaseExpires
<1>2. \A k \in JobIds : /\ jobs'[k].status = jobs[k].status
                        /\ jobs'[k].attempts = jobs[k].attempts
                        /\ jobs'[k].owner = jobs[k].owner
  BY <1>1 DEF Job
<1>3. jobs' \in [JobIds -> Job]
  BY <1>1 DEF Job
<1>4. StoreMove
  BY <1>1, <1>2, <1>3, ReadersParts, JobsMove DEF Known
<1> QED  BY <1>2, <1>4, ReadersParts, PublisherHas, ClaimsHold DEF ClaimIsCurrent, JobClaimIsCurrent

LEMMA LeaseExpiresServes ==
    ASSUME ReadersInv, FlowInv', NEW j \in JobIds, LeaseExpires(j)
    PROVE  ReadersInv'
<1>1. UNCHANGED <<docs, transition, rows, work, lock>>
  BY DEF LeaseExpires, publicationVars
<1> QED  BY <1>1, LeaseHolds, JobsOnly, TransitionStays, NobodyServes

LEMMA UserRequestServes ==
    ASSUME ReadersInv, FlowInv', NEW d \in Docs, NEW r \in Requests, NEW type \in JobTypes,
           UserRequest(d, r, type)
    PROVE  ReadersInv'
<1>1. TablesStep /\ SwitchStays
  BY SubmitSteps, TransitionStays DEF UserRequest, flowVars
<1> QED  BY <1>1, NobodyServes DEF UserRequest, flowVars

LEMMA AdminRequestsServes ==
    ASSUME ReadersInv, FlowInv', NEW target \in Targets, AdminRequestsTarget(target)
    PROVE  ReadersInv'
<1>1. UNCHANGED <<docs, jobs, lastRequest, rows, work, lock>> /\ target # "unset"
  BY DEF AdminRequestsTarget, storeVars, publicationVars
<1>2. CASE RequestTarget(target)
  BY <1>1, <1>2, NewSwitchKeeps
<1>3. CASE UNCHANGED transition
  BY <1>1, <1>3, TablesStill, TransitionStays, NobodyServes
<1> QED  BY <1>2, <1>3 DEF AdminRequestsTarget

LEMMA AdminServes ==
    ASSUME ReadersInv, FlowInv', AdminProvisions \/ AdminConfirms
    PROVE  ReadersInv'
<1>1. UNCHANGED <<docs, jobs, lastRequest, rows, work, lock>>
  BY DEF AdminProvisions, AdminConfirms, storeVars, publicationVars, flowVars
<1>2. SwitchStays /\ (transition'.status = "active" => transition.status = "active")
  BY ProvisionStays, ConfirmationStays DEF AdminProvisions, AdminConfirms
<1> QED  BY <1>1, <1>2, TablesStill, NobodyServes

LEMMA AdminRepublishesServes ==
    ASSUME ReadersInv, FlowInv', NEW item \in republish, NEW r \in Requests,
           AdminRepublishes(item, r)
    PROVE  ReadersInv'
<1>1. UNCHANGED <<transition, work, lock, remote>>
  BY DEF AdminRepublishes
<1>2. CASE UNCHANGED <<storeVars, publicationVars>>
  <2>1. TablesStep
    BY <1>2, TablesStill DEF storeVars, publicationVars
  <2> QED  BY <1>1, <2>1, TransitionStays, NobodyServes
<1>3. CASE Submit(RowDoc(item[1]), r, "upsert")
  <2>1. RowDoc(item[1]) \in Docs
    BY ReadersParts DEF FlowInv, TypeOK, Pairs, RowDoc
  <2>2. TablesStep
    BY <1>1, <1>3, <2>1, SubmitSteps DEF JobTypes
  <2> QED  BY <1>1, <2>2, TransitionStays, NobodyServes
<1> QED  BY <1>2, <1>3 DEF AdminRepublishes

-----------------------------------------------------------------------------
(* The steps of a pass. *)

LEMMA BeginPassServes ==
    ASSUME ReadersInv, FlowInv', NEW w \in Workers, BeginPass(w)
    PROVE  ReadersInv'
<1> DEFINE l == [Idle EXCEPT !.pc = "advance", !.seen = transition]
<1>1. /\ FlowInv /\ work[w].pc = "idle" /\ lock' = lock /\ work' = [work EXCEPT ![w] = l]
      /\ UNCHANGED <<docs, jobs, lastRequest, transition, rows>>
      /\ transition.status # "active" /\ transition \in Transition
  BY ReadersParts, StateTypes DEF BeginPass, At, storeVars, publicationVars
<1>0. 0 \in 0..MaxAttempts
  BY StoreAssumption
<1>2. l \in Locals /\ l.pc = "advance" /\ l.seen = transition /\ l.job = None
  BY <1>0, <1>1 DEF Idle, Locals, Labels
<1>3. Placed(w) /\ work'[w] = l
  <2>1. l.pc \notin LockLabels /\ work[w].pc \notin LockLabels
    BY <1>1, <1>2 DEF LockLabels, PublishLabels, RemoveLabels
  <2> QED  BY <1>1, <1>2, <2>1, PlacesUnderLock
<1>4. SwitchStays /\ TablesStep
  BY <1>1, TransitionStays, TablesStill
<1>5. /\ work'[w].pc = "advance" /\ work'[w].seen = transition /\ transition' = transition
      /\ IsPass(w)' /\ ~Publishing(w)'
  BY <1>1, <1>2, <1>3 DEF IsPass, Publishing
<1>6. SameSwitch({w})
  BY <1>3, <1>4, <1>5, OneWorker DEF GoesOn
<1>7. SeenInv(w)'
  <2>1. transition.generation \in Nat
    BY <1>1, GenerationType
  <2> QED  BY <1>5, <2>1 DEF SeenInv, OfThisSwitch, DesiredIsEffective
<1>8. PassInv(w)'
  BY <1>1, <1>5, ReadersParts DEF PassInv, TransitionInv, RemoveLabels
<1>9. TodoInv(w)' /\ CommitInv(w)' /\ WriteInv(w)' /\ RemoveInv(w)'
  BY <1>5 DEF TodoInv, CommitInv, WriteInv, RemoveInv, LockLabels, PublishLabels, RemoveLabels
<1>10. WorkerParts(w)'
  BY <1>7, <1>8, <1>9 DEF WorkerParts
<1> QED  BY <1>1, <1>6, <1>10, StepServes

\* Whoever does not publish to the desired target works on a document that the pass
\* finds waiting, and a ready document is one that is wanted.
LEMMA ListDocumentsServes ==
    ASSUME ReadersInv, FlowInv', NEW w \in Workers, ListDocuments(w)
    PROVE  ReadersInv'
<1> DEFINE l == [work[w] EXCEPT !.pc = "rows", !.listed = docs]
<1>1. /\ FlowInv /\ work[w].pc = "advance" /\ lock' = lock /\ work' = [work EXCEPT ![w] = l]
      /\ UNCHANGED <<docs, jobs, lastRequest, transition, rows>> /\ work[w] \in Locals
      /\ docs \in [Docs -> Document] /\ DocsInv /\ ~NeedsColumn(work[w].seen)
      /\ SeenInv(w) /\ PassInv(w)
  BY ReadersParts, StateTypes, LocalsOf
  DEF ListDocuments, At, storeVars, publicationVars, WorkerParts
<1>2. IsPass(w) /\ work[w].seen \in Transition
  BY <1>1, PassAt DEF PassLabels, IsPass
<1>3. l \in Locals /\ l.pc = "rows" /\ l.seen = work[w].seen /\ l.job = work[w].job
      /\ l.listed = docs
  BY <1>1 DEF Locals, Labels
<1>4. Placed(w) /\ work'[w] = l
  <2>1. l.pc \notin LockLabels /\ work[w].pc \notin LockLabels
    BY <1>1, <1>3 DEF LockLabels, PublishLabels, RemoveLabels
  <2> QED  BY <1>1, <1>3, <2>1, PlacesUnderLock
<1>5. /\ work'[w].pc = "rows" /\ work'[w].seen = work[w].seen /\ work'[w].listed = docs
      /\ IsPass(w)' /\ ~Publishing(w)' /\ transition' = transition
  BY <1>1, <1>2, <1>3, <1>4 DEF IsPass, Publishing
<1>6. SwitchStays /\ TablesStep
  BY <1>1, TransitionStays, TablesStill
<1>7. SameSwitch({w})
  BY <1>4, <1>5, <1>6, OneWorker DEF GoesOn
<1>8. SeenInv(w)'
  BY <1>5, <1>6, SeenStays
<1>9. PassInv(w)'
  <2> SUFFICES ASSUME work[w].seen.generation = transition.generation
               PROVE  /\ \A v \in Workers : Outsider(v)' => TheDoc(v)' \in Waiting(w)'
                      /\ \A d \in Docs : Behind(d)' => d \in ListedDesired(w)'
    BY <1>1, <1>2, <1>5, NullAssumption DEF PassInv, RemoveLabels
  <2>1. DesiredIsEffective
    BY <1>1, <1>2, EffectiveStays, NullAssumption DEF SeenInv
  <2>2. /\ ListedDesired(w)' = {d \in Docs : docs[d].desired /\ docs[d].status # "Absent"}
        /\ Waiting(w)' = {d \in ListedDesired(w)' : docs[d].status # "Ready"}
    BY <1>5 DEF ListedDesired, Waiting
  <2>3. ASSUME NEW v \in Workers, Outsider(v)'  PROVE TheDoc(v)' \in Waiting(w)'
    <3>1. Outsider(v) /\ TheDoc(v)' = TheDoc(v)
      BY <1>7, <2>1, <2>3, OutsidersStay DEF TheDoc
    <3>2. /\ TheDoc(v) \in Docs /\ TheRequest(v) \in Requests
          /\ Publishing(v) /\ MayCommit(v) /\ docs[TheDoc(v)].request = TheRequest(v)
      BY <1>1, <3>1, PublisherHas DEF Outsider, MayCommit, StillCurrent, RequestIsCurrent
    <3>3. docs[TheDoc(v)].desired
      BY <1>1, <3>2, PublisherHas DEF FlowInv, RequestsInv, TheDoc, TheRequest
    <3>4. docs[TheDoc(v)].status # "Absent"
      BY <1>1, <3>2 DEF DocsInv, Requests, NoRequest
    <3>5. docs[TheDoc(v)].status # "Ready"
      BY <3>2, UnsettledIsNotReady
    <3> QED  BY <2>2, <3>1, <3>2, <3>3, <3>4, <3>5
  <2>4. ASSUME NEW d \in Docs, Behind(d)'  PROVE d \in ListedDesired(w)'
    <3>1. docs[d].status = "Ready"
      BY <1>1, <2>4 DEF Behind
    <3> QED  BY <1>1, <2>2, <3>1 DEF DocsInv
  <2> QED  BY <2>3, <2>4
<1>10. TodoInv(w)' /\ CommitInv(w)' /\ WriteInv(w)' /\ RemoveInv(w)'
  BY <1>5 DEF TodoInv, CommitInv, WriteInv, RemoveInv, LockLabels, PublishLabels, RemoveLabels
<1>11. WorkerParts(w)'
  BY <1>8, <1>9, <1>10 DEF WorkerParts
<1> QED  BY <1>1, <1>7, <1>11, StepServes

LEMMA ColumnMissingServes ==
    ASSUME ReadersInv, FlowInv', NEW w \in Workers, ColumnMissing(w)
    PROVE  ReadersInv'
<1>1. TablesStep
  BY TablesStill DEF ColumnMissing, storeVars, publicationVars
<1>2. SwitchStays /\ (transition'.status = "active" => transition.status = "active")
  BY SetStatusStays DEF ColumnMissing, At, PassLabels, TransitionStatuses
<1> QED  BY <1>1, <1>2, DropServes DEF ColumnMissing

LEMMA AwaitStepServes ==
    ASSUME ReadersInv, FlowInv', NEW w \in Workers, AwaitStep(w)
    PROVE  ReadersInv'
<1>1. TablesStep
  BY TablesStill DEF AwaitStep, storeVars, publicationVars
<1>2. PICK status \in Awaited(work[w].seen) : SetStatus(w, status, "")
  BY DEF AwaitStep
<1>3. status \in TransitionStatuses \ {"active"}
  BY <1>2 DEF Awaited, TransitionStatuses
<1>4. SwitchStays /\ (transition'.status = "active" => transition.status = "active")
  BY <1>2, <1>3, SetStatusStays DEF AwaitStep, At, PassLabels
<1> QED  BY <1>1, <1>4, DropServes DEF AwaitStep

LEMMA QueuesServe ==
    ASSUME ReadersInv, FlowInv', NEW w \in Workers, WaitForDocuments(w) \/ RequeueMissing(w)
    PROVE  ReadersInv'
<1>1. Drop(w) /\ UNCHANGED <<transition, remote>>
  BY DEF WaitForDocuments, RequeueMissing
<1>2. CASE UNCHANGED <<storeVars, publicationVars>>
  <2>1. TablesStep
    BY <1>2, TablesStill DEF storeVars, publicationVars
  <2> QED  BY <1>1, <2>1, TransitionStays, DropServes
<1>3. ASSUME NEW d \in Docs, NEW r \in Requests, Submit(d, r, "upsert")  PROVE ReadersInv'
  <2>1. TablesStep
    BY <1>1, <1>3, SubmitSteps DEF JobTypes
  <2> QED  BY <1>1, <2>1, TransitionStays, DropServes
<1> QED  BY <1>2, <1>3 DEF WaitForDocuments, RequeueMissing, Waiting, ListedDesired

\* A pass that found every document published: the desired target serves them all.
LEMMA PublishedIsServed ==
    ASSUME ReadersInv, NEW w \in Workers, work[w].pc = "rows", AllPublished(w),
           work[w].seen.generation = transition.generation
    PROVE  SwitchServed
<1>1. /\ FlowInv /\ PassInv(w) /\ SeenInv(w) /\ IsPass(w) /\ work[w].seen \in Transition
  BY ReadersParts, PassAt DEF WorkerParts, IsPass, PassLabels
<1>2. /\ work[w].seen.desired = transition.desired /\ transition.desired # "unset"
      /\ transition.desired \in Targets
      /\ \A v \in Workers : Outsider(v) => TheDoc(v) \in Waiting(w)
      /\ \A d \in Docs : Behind(d) => d \in ListedDesired(w)
  BY <1>1, NullAssumption DEF PassInv, SeenInv, Transition
<1>3. ASSUME NEW d \in Docs, Behind(d)  PROVE FALSE
  <2> DEFINE p == <<d, transition.desired>>
  <2>1. p \in Pairs /\ RowDoc(p) = d /\ RowTarget(p) = transition.desired
    BY <1>2 DEF Pairs, PublishedTargets, RowDoc, RowTarget
  <2>2. rows[p].status = "ready" /\ rows[p].generation = transition.generation
    BY <1>2, <1>3 DEF AllPublished, PublishedNow
  <2> QED  BY <1>3, <2>1, <2>2 DEF Behind, ServedPair
<1> QED  BY <1>2, <1>3 DEF AllPublished, SwitchServed

LEMMA ListToCleanServes ==
    ASSUME ReadersInv, FlowInv', NEW w \in Workers, ListToClean(w)
    PROVE  ReadersInv'
<1> DEFINE found == UNION {RowsAt(t) : t \in ToClean(work[w].seen)}
           l     == [work[w] EXCEPT !.pc = "clean", !.todo = found]
<1>1. /\ FlowInv /\ work[w].pc = "rows" /\ work[w] \in Locals /\ AllPublished(w)
      /\ UNCHANGED <<docs, jobs, lastRequest, rows>> /\ SeenInv(w) /\ PassInv(w)
      /\ IsPass(w) /\ work[w].seen \in Transition
  BY ReadersParts, LocalsOf, PassAt
  DEF ListToClean, At, storeVars, publicationVars, WorkerParts, IsPass, PassLabels
<1>2. SwitchStays /\ (transition'.status = "active" => transition.status = "active")
  <2>1. CASE UNCHANGED transition
    BY <2>1, TransitionStays
  <2>2. CASE SetStatus(w, "cleaning", "")
    BY <1>1, <2>2, SetStatusStays DEF PassLabels, TransitionStatuses
  <2> QED  BY <2>1, <2>2 DEF ListToClean
<1>3. TablesStep
  BY <1>1, TablesStill
<1>4. CASE Drop(w)
  BY <1>2, <1>3, <1>4, DropServes
<1>5. CASE /\ work' = [work EXCEPT ![w] = l] /\ lock' = lock
           /\ work[w].seen.desired \notin ToClean(work[w].seen)
  <2>1. /\ found \subseteq Pairs
        /\ \A p \in found : RowTarget(p) # work[w].seen.desired
    BY <1>5 DEF RowsAt
  <2> HIDE DEF found
  <2>2. l \in Locals /\ l.pc = "clean" /\ l.seen = work[w].seen /\ l.job = work[w].job
        /\ l.todo = found
    BY <1>1, <2>1 DEF Locals, Labels
  <2>3. Placed(w) /\ work'[w] = l
    <3>1. l.pc \notin LockLabels /\ work[w].pc \notin LockLabels
      BY <1>1, <2>2 DEF LockLabels, PublishLabels, RemoveLabels
    <3> QED  BY <1>1, <1>5, <2>2, <3>1, PlacesUnderLock
  <2>4. /\ work'[w].pc = "clean" /\ work'[w].seen = work[w].seen /\ work'[w].todo = found
        /\ IsPass(w)' /\ ~Publishing(w)'
    BY <1>1, <2>2, <2>3 DEF IsPass, Publishing
  <2>5. SameSwitch({w})
    BY <1>2, <1>3, <2>3, <2>4, OneWorker DEF GoesOn
  <2>6. SeenInv(w)'
    BY <1>2, <2>4, SeenStays
  <2>7. TodoInv(w)'
    BY <2>1, <2>4 DEF TodoInv, LockLabels, PublishLabels, RemoveLabels, RowTarget
  <2>8. PassInv(w)'
    <3> SUFFICES ASSUME work[w].seen.generation = transition.generation
                 PROVE  ~NeedsColumn(work[w].seen) /\ SwitchServed'
      BY <1>1, <1>2, <2>4, NullAssumption DEF PassInv, SwitchStays
    <3>1. ~NeedsColumn(work[w].seen)
      BY <1>1, NullAssumption DEF PassInv
    <3>2. DesiredIsEffective
      BY <1>1, <3>1, EffectiveStays, NullAssumption DEF SeenInv
    <3>3. SwitchServed
      BY <1>1, PublishedIsServed
    <3> QED  BY <2>5, <3>1, <3>2, <3>3, SwitchServedStays
  <2>9. CommitInv(w)' /\ WriteInv(w)' /\ RemoveInv(w)'
    BY <2>4 DEF CommitInv, WriteInv, RemoveInv
  <2>10. WorkerParts(w)'
    BY <2>6, <2>7, <2>8, <2>9 DEF WorkerParts
  <2> QED  BY <1>2, <2>5, <2>10, StepServes
<1> QED  BY <1>4, <1>5 DEF ListToClean

LEMMA CleanedUpServes ==
    ASSUME ReadersInv, FlowInv', NEW w \in Workers, CleanedUp(w)
    PROVE  ReadersInv'
<1>1. /\ FlowInv /\ work[w].pc = "clean" /\ work[w] \in Locals
      /\ IsPass(w) /\ UNCHANGED transition
  BY ReadersParts, LocalsOf, PassAt DEF CleanedUp, At, IsPass, PassLabels
<1>2. TablesStep /\ SwitchStays
  BY TablesStill, TransitionStays DEF CleanedUp, storeVars, publicationVars
<1>3. CASE Goto(w, "activate") /\ UNCHANGED lock
  <2>1. Placed(w) /\ work'[w] = [work[w] EXCEPT !.pc = "activate"]
    BY <1>1, <1>3, GotoPlaces DEF Labels, LockLabels, PublishLabels, RemoveLabels
  <2>2. SameWork(w) /\ work'[w].pc = "activate"
    BY <1>1, <2>1 DEF SameWork, Locals
  <2>3. ~Publishing(w)' /\ IsPass(w)'
    BY <1>1, <2>2 DEF Publishing, PublishLabels, IsPass, SameWork
  <2>4. Keeps(w)
    BY <1>1, <2>2, <2>3 DEF Keeps, ServesOn, WriteLabels, CleanLabels
  <2>5. TodoInv(w)'
    BY <2>2, <2>3 DEF TodoInv, LockLabels, PublishLabels, RemoveLabels
  <2> QED  BY <1>1, <1>2, <2>1, <2>4, <2>5, KeepsServes
<1> QED  BY <1>2, <1>3, DropServes DEF CleanedUp

\* The activation comes from a pass that found everything served.
LEMMA ActivationIsServed ==
    ASSUME ReadersInv, NEW w \in Workers, work[w].pc = "activate", MayActivate(work[w].seen)
    PROVE  SwitchServed /\ DesiredIsEffective
<1>1. /\ PassInv(w) /\ SeenInv(w) /\ IsPass(w) /\ work[w].seen \in Transition
      /\ work[w].seen.generation = transition.generation
  BY ReadersParts, PassAt DEF WorkerParts, IsPass, PassLabels, MayActivate, Matches
<1>2. /\ ~NeedsColumn(work[w].seen) /\ SwitchServed
  BY <1>1, NullAssumption DEF PassInv
<1> QED  BY <1>1, <1>2, EffectiveStays, NullAssumption DEF SeenInv

LEMMA ActivateServes ==
    ASSUME ReadersInv, FlowInv', NEW w \in Workers, Activate(w)
    PROVE  ReadersInv'
<1>1. TablesStep /\ work[w].pc = "activate" /\ Drop(w)
  BY TablesStill DEF Activate, At, storeVars, publicationVars
<1>2. CASE MayActivate(work[w].seen) /\ ActivateTarget(work[w].seen)
  BY <1>1, <1>2, ActivationStays, ActivationIsServed, DropServes
<1>3. CASE UNCHANGED transition
  BY <1>1, <1>3, TransitionStays, DropServes
<1> QED  BY <1>2, <1>3 DEF Activate

-----------------------------------------------------------------------------
(* The invariant. *)

LEMMA ReadersStart == Init => ReadersInv
<1> SUFFICES ASSUME Init PROVE ReadersInv
  OBVIOUS
<1>1. FlowInv
  BY FlowStarts
<1>2. PICK initial \in {"unset", "copilot_connector"} :
        transition = [active |-> initial, desired |-> initial, generation |-> 0,
                      status |-> "active", provisioned |-> FALSE, reindexed |-> FALSE,
                      searched |-> FALSE, asked |-> FALSE, error |-> ""]
  BY DEF Init, FreshStore, PublishedStore, TransitionInit
<1>3. /\ transition.active = initial /\ transition.desired = initial
      /\ transition.generation = 0 /\ transition.status = "active"
  BY <1>2
<1>4. DesiredIsEffective
  BY <1>3 DEF DesiredIsEffective, EffectiveTarget
<1>5. \A w \in Workers : /\ work[w].pc = "idle" /\ work[w].seen = None
                         /\ work[w].job = None
  BY DEF Init, WorkersIdle, Idle
<1>6. \A w \in Workers : ~Publishing(w)
  BY <1>5 DEF Publishing, IsPass
<1>7. \A w \in Workers : WorkerParts(w) /\ ~Outsider(w)
  BY <1>5, <1>6
  DEF WorkerParts, Outsider, SeenInv, TodoInv, CommitInv, WriteInv, RemoveInv, PassInv,
      IsPass, LockLabels, PublishLabels, RemoveLabels
<1>8. CASE FreshStore
  <2>1. /\ \A d \in Docs : docs[d].status = "Absent" /\ docs[d].request = NoRequest
        /\ \A p \in Pairs : rows[p].status = "none" /\ rows[p].generation = 0
    BY <1>8 DEF FreshStore, StoreInit, NoRow
  <2>2. DocsInv /\ TransitionInv /\ \A p \in Pairs : ServedInv(p)
    BY <1>3, <2>1 DEF DocsInv, TransitionInv, ServedInv, ServedPair, RowsOf, HasRow
  <2>3. SwitchServed
    BY <1>7, <2>1 DEF SwitchServed, Behind
  <2> QED  BY <1>1, <1>7, <2>2, <2>3 DEF ReadersInv, WorkerParts
<1>9. CASE PublishedStore
  <2> PICK ready : ready = [NoRow EXCEPT !.status = "ready", !.content = 1]
    OBVIOUS
  <2>1. /\ \A d \in Docs : /\ docs[d].status = "Ready" /\ docs[d].desired
                           /\ docs[d].request = 1 /\ docs[d].processed = 1
        /\ initial = "copilot_connector"
        /\ \A p \in Pairs : rows[p] = IF RowTarget(p) = "copilot_connector" THEN ready ELSE NoRow
    BY <1>3, <1>9 DEF PublishedStore
  <2>2. /\ ready.status = "ready" /\ ready.content = 1 /\ ready.generation = 0
        /\ NoRow.status = "none" /\ NoRow.generation = 0
    BY DEF NoRow
  <2>3. DocsInv /\ TransitionInv
    <3>1. \A p \in Pairs : rows[p].generation = 0
      BY <2>1, <2>2
    <3>2. TransitionInv
      BY <1>3, <3>1 DEF TransitionInv
    <3> QED  BY <2>1, <3>2 DEF DocsInv, NoRequest
  <2>4. \A p \in Pairs : ServedInv(p)
    BY <1>4, <1>7, <2>1, <2>2 DEF ServedInv, ServedPair, Pairs, RowDoc
  <2>5. ASSUME NEW d \in Docs  PROVE ~Behind(d)
    <3> DEFINE p == <<d, "copilot_connector">>
    <3>1. p \in Pairs /\ RowDoc(p) = d /\ RowTarget(p) = "copilot_connector"
      BY DEF Pairs, PublishedTargets, Targets, RowDoc, RowTarget
    <3>2. ServedPair(p)
      BY <1>3, <2>1, <2>2, <3>1 DEF ServedPair
    <3> QED  BY <3>1, <3>2 DEF Behind
  <2> QED  BY <1>1, <1>7, <2>3, <2>4, <2>5 DEF ReadersInv, WorkerParts, SwitchServed
<1> QED  BY <1>8, <1>9 DEF Init

LEMMA ReadersGoOn == ReadersInv /\ [Next]_vars => ReadersInv'
<1> SUFFICES ASSUME ReadersInv, [Next]_vars PROVE ReadersInv'
  OBVIOUS
<1>0. FlowInv'
  BY ReadersParts, FlowGoesOn
<1>1. CASE UNCHANGED vars
  <2>1. UNCHANGED <<docs, jobs, lastRequest, transition, rows, work, lock>>
    BY <1>1 DEF vars, storeVars, publicationVars, flowVars
  <2> QED  BY <1>0, <2>1, TablesStill, TransitionStays, NobodyServes
<1>2. ASSUME NEW d \in Docs, NEW r \in Requests, NEW type \in JobTypes,
             UserRequest(d, r, type)
      PROVE  ReadersInv'
  BY <1>0, <1>2, UserRequestServes
<1>3. ASSUME NEW target \in Targets, AdminRequestsTarget(target)
      PROVE  ReadersInv'
  BY <1>0, <1>3, AdminRequestsServes
<1>4. CASE AdminStep
  BY <1>0, <1>4, AdminServes, AdminRepublishesServes DEF AdminStep
<1>5. ASSUME NEW w \in Workers, PublishStep(w)
      PROVE  ReadersInv'
  BY <1>0, <1>5, ProcessServes, GuardServes, PublishStepServes, VerifyServes,
     RecordPublishedServes DEF PublishStep
<1>6. ASSUME NEW w \in Workers, RemoveStep(w)
      PROVE  ReadersInv'
  BY <1>0, <1>6, FenceServes, ClaimRemovalServes, CheckRemovalClaimServes,
     RemoteRemoveServes, ForgetRowServes, ConflictServes DEF RemoveStep
<1>7. ASSUME NEW w \in Workers, OutcomeStep(w)
      PROVE  ReadersInv'
  BY <1>0, <1>7, BeginJobServes, CommitServes, CloseServes, StaleServes, JudgeErrorServes,
     RecordErrorServes DEF OutcomeStep
<1>8. ASSUME NEW w \in Workers, PassStep(w)
      PROVE  ReadersInv'
  BY <1>0, <1>8, ColumnMissingServes, ListDocumentsServes, QueuesServe, AwaitStepServes,
     ListToCleanServes, CleanedUpServes, ActivateServes DEF PassStep
<1>9. ASSUME NEW w \in Workers,
             \/ Claim(w) \/ Lock(w) \/ BeginPass(w) \/ PublishFails(w)
             \/ RemoteRemoveFails(w) \/ Crash(w)
      PROVE  ReadersInv'
  BY <1>0, <1>9, ClaimServes, LockServes, BeginPassServes, PublishFailsServes,
     RemoteRemoveFailsServes, CrashServes
<1>10. ASSUME NEW j \in JobIds, LeaseExpires(j)
       PROVE  ReadersInv'
  BY <1>0, <1>10, LeaseExpiresServes
<1> QED
  BY <1>1, <1>2, <1>3, <1>4, <1>5, <1>6, <1>7, <1>8, <1>9, <1>10 DEF Next, Step

\* What serves readers, who may still record an outcome, and what the passes rely on
\* hold together at every step of the jobs, the passes, the requests and the
\* administrator (publication_transition_matches, _advance_publication_transition).
THEOREM ReadersInvariant == Spec => []ReadersInv
BY ReadersStart, ReadersGoOn, PTL DEF Spec

\* A document whose target serves it is found there with the request it stands at.
LEMMA ServedIsFound ==
    ASSUME ReadersInv, SwitchServed, NEW d \in Docs, docs[d].status = "Ready"
    PROVE  \E p \in Pairs : /\ RowDoc(p) = d /\ RowTarget(p) = transition.desired
                            /\ remote[p] = docs[d].request /\ remote[p] # NoRequest
<1>1. PICK p \in Pairs : RowDoc(p) = d /\ ServedPair(p)
  BY DEF SwitchServed, Behind
<1>2. /\ ServedInv(p) /\ DocsInv /\ ReadyRowsArePublished
  BY ReadersParts DEF FlowInv
<1> QED  BY <1>1, <1>2 DEF ServedInv, DocsInv, ReadyRowsArePublished, ServedPair

\* Only ActivateTarget makes a transition active that was open.
LEMMA OnlyActivation ==
    ASSUME ReadersInv, Next, transition.status # "active", transition'.status = "active"
    PROVE  \E w \in Workers : /\ work[w].pc = "activate" /\ MayActivate(work[w].seen)
                              /\ ActivateTarget(work[w].seen) /\ docs' = docs /\ remote' = remote
<1> USE DEF storeVars, publicationVars, flowVars
<1>1. transition' # transition
  OBVIOUS
<1>2. ASSUME NEW d \in Docs, NEW r \in Requests, NEW type \in JobTypes,
             UserRequest(d, r, type)
      PROVE  FALSE
  BY <1>1, <1>2 DEF UserRequest
<1>3. ASSUME NEW target \in Targets, AdminRequestsTarget(target)
      PROVE  FALSE
  BY <1>1, <1>3, RequestBegins, ReadersParts, StateTypes
  DEF AdminRequestsTarget, TransitionTypeOK
<1>4. ASSUME AdminStep  PROVE FALSE
  BY <1>1, <1>4, ProvisionStays, ConfirmationStays
  DEF AdminStep, AdminProvisions, AdminConfirms, AdminRepublishes
<1>5. ASSUME NEW w \in Workers, PublishStep(w) \/ OutcomeStep(w) \/ RemoveStep(w)
      PROVE  FALSE
  BY <1>1, <1>5 DEF PublishStep, OutcomeStep, RemoveStep, Process, Guard, Publish, Verify,
     RecordPublished, Fence, ClaimRemoval, CheckRemovalClaim, RemoteRemove, ForgetRow,
     Conflict, BeginJob, Commit, Complete, Stale, Cancel, JudgeError, RecordError, FailJob
<1>6. ASSUME NEW w \in Workers, PassStep(w), ~Activate(w)
      PROVE  FALSE
  <2>1. CASE ListDocuments(w) \/ WaitForDocuments(w) \/ RequeueMissing(w) \/ CleanedUp(w)
    BY <1>1, <2>1 DEF ListDocuments, WaitForDocuments, RequeueMissing, CleanedUp
  <2>2. CASE ColumnMissing(w)
    BY <2>2, SetStatusStays DEF ColumnMissing, At, PassLabels, TransitionStatuses
  <2>3. CASE AwaitStep(w)
    <3>1. PICK status \in Awaited(work[w].seen) : SetStatus(w, status, "")
      BY <2>3 DEF AwaitStep
    <3>2. status \in TransitionStatuses \ {"active"}
      BY <3>1 DEF Awaited, TransitionStatuses
    <3> QED  BY <2>3, <3>1, <3>2, SetStatusStays DEF AwaitStep, At, PassLabels
  <2>4. CASE ListToClean(w)
    BY <1>1, <2>4, SetStatusStays DEF ListToClean, At, PassLabels, TransitionStatuses
  <2> QED  BY <1>6, <2>1, <2>2, <2>3, <2>4 DEF PassStep
<1>7. ASSUME NEW w \in Workers,
             Claim(w) \/ Lock(w) \/ BeginPass(w) \/ PublishFails(w) \/ Crash(w)
      PROVE  FALSE
  BY <1>1, <1>7 DEF Claim, Lock, BeginPass, PublishFails, Crash
<1>8. ASSUME NEW w \in Workers, RemoteRemoveFails(w)
      PROVE  FALSE
  <2>1. transition' = [transition EXCEPT !.status = "failed", !.error = "cleanup"]
    BY <1>1, <1>8 DEF RemoteRemoveFails
  <2>2. transition'.status = "failed"
    BY <2>1, ReadersParts, StateTypes DEF Transition
  <2> QED  BY <2>2
<1>9. ASSUME NEW j \in JobIds, LeaseExpires(j)
      PROVE  FALSE
  BY <1>1, <1>9 DEF LeaseExpires
<1>10. PICK w \in Workers : Activate(w)
  <2>1. \E w \in Workers : PassStep(w)
    BY <1>2, <1>3, <1>4, <1>5, <1>7, <1>8, <1>9 DEF Next, Step
  <2> QED  BY <1>6, <2>1
<1> QED  BY <1>1, <1>10 DEF Activate, At

\* The step that activates a target finds every document that is wanted in it, with
\* the text of its request (MayActivate, and the passes' two looks at the documents).
THEOREM ActivationsAreServed == Spec => ActivatedWhenServed
<1> DEFINE Found == (transition.status # "active" /\ transition'.status = "active") =>
                       \A d \in Docs : (Exists(d) /\ docs[d].desired) =>
                           /\ docs[d].status = "Ready"
                           /\ \E p \in Pairs : /\ RowDoc(p) = d
                                                /\ RowTarget(p) = transition'.active
                                                /\ remote[p] = docs[d].request
<1>1. ReadersInv /\ [Next]_vars => [Found]_vars
  <2> SUFFICES ASSUME ReadersInv, Next, transition.status # "active",
                      transition'.status = "active", NEW d \in Docs, Exists(d), docs[d].desired
               PROVE  /\ docs[d].status = "Ready"
                      /\ \E p \in Pairs : /\ RowDoc(p) = d
                                           /\ RowTarget(p) = transition'.active
                                           /\ remote[p] = docs[d].request
    OBVIOUS
  <2>1. PICK w \in Workers : /\ work[w].pc = "activate" /\ MayActivate(work[w].seen)
                             /\ ActivateTarget(work[w].seen)
    BY OnlyActivation
  <2>2. SwitchServed /\ docs[d].status = "Ready"
    BY <2>1, ActivationIsServed DEF MayActivate, AllDesiredReady
  <2>3. transition'.active = transition.desired
    BY <2>1, ReadersParts, StateTypes, ActivationGrows DEF TransitionTypeOK
  <2> QED  BY <2>2, <2>3, ServedIsFound
<1> QED  BY <1>1, ReadersInvariant, PTL DEF Spec, ActivatedWhenServed

-----------------------------------------------------------------------------
(* What lasts while others write and remove. *)

ChangeLabels == {"write", "claim", "claimed_row", "remote_remove"}

\* A worker is let through to its pair: the checks under the lock.
LetThrough(w) ==
    \/ work[w].pc = "guard" /\ MayCommit(w)
    \/ work[w].pc = "fence" /\ MayRemove(w)

\* Who is about to change a pair was let through, and has stayed there.
ChangesOn(w) ==
    work'[w].pc \in ChangeLabels =>
        lock'[w] = lock[w] /\ (work[w].pc \in ChangeLabels \/ LetThrough(w))

\* The last target of an upsert is published in one way only.
PublishesOn(w) ==
    (/\ Publishing(w)' /\ work'[w].pc # "process"
     /\ EffectivePair(w)' \notin work'[w].todo)
    => /\ Publishing(w) /\ work[w].pc # "process" /\ SameWork(w)
       /\ \/ EffectivePair(w) \notin work[w].todo
          \/ work[w].pc = "record" /\ lock[w] = EffectivePair(w)

OutcomesStep == DocsStep /\ ClaimsStay

ServingStep ==
    /\ OutcomesStep
    /\ \A p \in Pairs : remote'[p] = remote[p] \/ BeingChanged(p)
    /\ \A w \in Workers : ChangesOn(w) /\ PublishesOn(w)

\* Only one that is let through ends what lasts.
LEMMA LastsUnlessLetThrough ==
    ASSUME ServingStep, NEW p \in Pairs, NEW r, Lasts(p, r),
           \A w \in Workers : lock[w] = p => ~LetThrough(w)
    PROVE  Lasts(p, r)'
<1>1. remote'[p] = r
  BY DEF ServingStep, Lasts
<1>2. ASSUME NEW w \in Workers, lock'[w] = p, work'[w].pc \in ChangeLabels
      PROVE  FALSE
  BY <1>2 DEF ServingStep, ChangesOn, Lasts, BeingChanged, ChangeLabels
<1> QED  BY <1>1, <1>2 DEF Lasts, BeingChanged, ChangeLabels

\* Who is let through publishes or deletes the current request of the document, or
\* is a pass that works for the running switch and serves it.
LEMMA WhoIsLetThrough ==
    ASSUME ReadersInv, NEW w \in Workers, LetThrough(w)
    PROVE  /\ lock[w] \in Pairs
           /\ \/ /\ ~IsPass(w) /\ MayCommit(w) /\ TheDoc(w) = RowDoc(lock[w])
                 /\ docs[RowDoc(lock[w])].status # "Ready"
              \/ /\ IsPass(w) /\ SwitchServed
                 /\ RowTarget(lock[w]) # transition.desired
<1>1. /\ FlowInv /\ TodoInv(w) /\ lock[w] \in work[w].todo /\ lock[w] \in Pairs
      /\ DocsInv /\ PassInv(w) /\ SeenInv(w)
  BY ReadersParts, JobAt
  DEF WorkerParts, TodoInv, LockLabels, PublishLabels, RemoveLabels, LetThrough
<1>2. CASE work[w].pc = "guard" /\ MayCommit(w)
  <2>1. Publishing(w)
    BY <1>1, <1>2, JobAt DEF Publishing, PublishLabels
  <2>2. TheDoc(w) = RowDoc(lock[w])
    BY <1>1, <1>2, <2>1 DEF TodoInv
  <2> QED  BY <1>1, <1>2, <2>1, <2>2, UnsettledIsNotReady DEF Publishing
<1>3. CASE work[w].pc = "fence" /\ MayRemove(w) /\ ~IsPass(w)
  <2>1. IsDelete(w) /\ work[w].job \in JobIds /\ Known(work[w].job) /\ TheDoc(w) \in Docs
    BY <1>1, <1>3, LocalsOf, JobAt, JobParts DEF InScope, RemoveLabels, TheDoc
  <2>2. TheDoc(w) = RowDoc(lock[w])
    BY <1>1, <1>3, <2>1 DEF TodoInv, RemoveLabels
  <2>3. MayCommit(w) /\ ~docs[TheDoc(w)].desired
    BY <1>1, <1>3, <2>1
    DEF MayRemove, MayCommit, StillCurrent, RequestIsCurrent, TheRequest, TheDoc, IsDelete,
        FlowInv, RequestsInv
  <2> QED  BY <1>1, <1>3, <2>1, <2>2, <2>3 DEF DocsInv
<1>4. CASE work[w].pc = "fence" /\ MayRemove(w) /\ IsPass(w)
  <2>1. work[w].seen \in Transition /\ work[w].seen.generation = transition.generation
    BY <1>1, <1>4, LocalsOf DEF InScope, MayRemove, Matches, RemoveLabels
  <2>2. SwitchServed /\ work[w].seen.desired = transition.desired
    BY <1>1, <1>4, <2>1, NullAssumption DEF PassInv, SeenInv, RemoveLabels
  <2> QED  BY <1>1, <1>4, <2>2 DEF TodoInv, RemoveLabels
<1> QED  BY <1>2, <1>3, <1>4 DEF LetThrough

\* Where a row serves a ready document, nothing is about to change.
LEMMA ServedLasts ==
    ASSUME ReadersInv, NEW p \in Pairs, ServedPair(p), docs[RowDoc(p)].status = "Ready"
    PROVE  Lasts(p, docs[RowDoc(p)].request)
<1>1. /\ FlowInv /\ ServedInv(p)
  BY ReadersParts
<1>2. remote[p] = docs[RowDoc(p)].request
  BY <1>1 DEF FlowInv, ReadyRowsArePublished, ServedInv, ServedPair
<1>3. ASSUME NEW w \in Workers, lock[w] = p, work[w].pc \in ChangeLabels
      PROVE  FALSE
  <2>1. PairInv(w) /\ RemoveInv(w)
    BY <1>1, ReadersParts, LocalsOf DEF WorkerParts
  <2> QED  BY <1>3, <2>1 DEF PairInv, RemoveInv, ServedPair, ThePair, ChangeLabels
<1> QED  BY <1>2, <1>3 DEF Lasts, BeingChanged, ChangeLabels

\* Nobody else is let through to what an upsert has published and may record.
LEMMA PublishedStays ==
    ASSUME ReadersInv, NEW v \in Workers, Publishing(v), MayCommit(v),
           work[v].pc # "process",
           EffectivePair(v) \notin work[v].todo,
           NEW w \in Workers, lock[w] = EffectivePair(v)
    PROVE  ~LetThrough(w)
<1> SUFFICES ASSUME LetThrough(w)  PROVE FALSE
  OBVIOUS
<1>1. /\ RowDoc(lock[w]) = TheDoc(v)
      /\ RowTarget(lock[w]) = EffectiveTarget(work[v].seen)
  BY DEF EffectivePair, RowDoc, RowTarget
<1>2. CASE ~IsPass(w) /\ MayCommit(w) /\ TheDoc(w) = TheDoc(v)
  <2>1. v = w
    BY <1>2, ReadersParts, OneCommitter
  <2>2. work[v].pc \in LockLabels /\ TodoInv(v)
    BY <2>1, ReadersParts
    DEF LetThrough, LockLabels, PublishLabels, RemoveLabels, WorkerParts
  <2> QED  BY <2>1, <2>2 DEF TodoInv
<1>3. CASE SwitchServed /\ RowTarget(lock[w]) # transition.desired
  <2>1. OfThisSwitch(work[v].seen)
    BY <1>3 DEF SwitchServed, Outsider
  <2> QED  BY <1>1, <1>3, <2>1 DEF OfThisSwitch
<1> QED  BY <1>1, <1>2, <1>3, WhoIsLetThrough

LEMMA EffectivePairType ==
    ASSUME ReadersInv, NEW v \in Workers, Publishing(v), work[v].pc # "process"
    PROVE  EffectivePair(v) \in Pairs /\ RowDoc(EffectivePair(v)) = TheDoc(v)
<1>1. /\ TheDoc(v) \in Docs /\ work[v].seen \in Transition
      /\ EffectiveTarget(work[v].seen) # "unset"
  BY ReadersParts, PublisherHas DEF WorkerParts, TodoInv
<1>2. EffectiveTarget(work[v].seen) \in Targets
  BY <1>1 DEF EffectiveTarget, Transition
<1> QED  BY <1>1, <1>2 DEF EffectivePair, Pairs, PublishedTargets, RowDoc

\* A ready document keeps a pair that lasts, in one step of any actor.
LEMMA ReadyGoesOn ==
    ASSUME ServingInv, ServingStep
    PROVE  ReadyLasts'
<1> SUFFICES ASSUME NEW d \in Docs, docs'[d].status = "Ready"
             PROVE  \E p \in Pairs : RowDoc(p) = d /\ Lasts(p, docs[d].request)'
  BY DEF ReadyLasts, RowDoc
<1>1. ReadersInv /\ ReadyLasts
  BY DEF ServingInv
<1>2. CASE docs'[d] = docs[d]
  <2>1. PICK p \in Pairs : RowDoc(p) = d /\ Lasts(p, docs[d].request)
    BY <1>1, <1>2 DEF ReadyLasts
  <2>2. CASE SwitchServed
    <3>1. PICK q \in Pairs : RowDoc(q) = d /\ ServedPair(q)
      BY <1>2, <2>2 DEF SwitchServed, Behind
    <3>2. Lasts(q, docs[d].request)
      BY <1>1, <1>2, <3>1, ServedLasts
    <3>3. ASSUME NEW w \in Workers, lock[w] = q  PROVE ~LetThrough(w)
      BY <1>1, <1>2, <3>1, <3>3, WhoIsLetThrough DEF ServedPair
    <3>4. Lasts(q, docs[d].request)'
      BY <1>2, <3>2, <3>3, LastsUnlessLetThrough DEF Lasts, BeingChanged
    <3> QED  BY <3>1, <3>4
  <2>3. CASE ~SwitchServed
    <3>1. ASSUME NEW w \in Workers, lock[w] = p  PROVE ~LetThrough(w)
      BY <1>1, <1>2, <2>1, <2>3, <3>1, WhoIsLetThrough
    <3>2. Lasts(p, docs[d].request)'
      BY <1>2, <2>1, <3>1, LastsUnlessLetThrough DEF Lasts, BeingChanged
    <3> QED  BY <2>1, <3>2
  <2> QED  BY <2>2, <2>3
<1>3. ASSUME NEW w \in Workers, Commits(w, d)
      PROVE  \E p \in Pairs : RowDoc(p) = d /\ Lasts(p, docs[d].request)'
  <2>1. /\ Publishing(w) /\ MayCommit(w) /\ TheDoc(w) = d
        /\ work[w].pc = "targets" /\ work[w].todo = {}
        /\ docs'[d].request = TheRequest(w)
    BY <1>3 DEF Commits, Settles, Publishing, MayCommit, StillCurrent, RequestIsCurrent
  <2> DEFINE p == EffectivePair(w)
  <2>2. p \in Pairs /\ RowDoc(p) = d
    BY <1>1, <2>1, EffectivePairType
  <2>3. Lasts(p, TheRequest(w))
    BY <2>1 DEF ServingInv, PublishedLasts
  <2>4. \A v \in Workers : lock[v] = p => ~LetThrough(v)
    BY <1>1, <2>1, PublishedStays
  <2> HIDE DEF p
  <2>5. PICK q \in Pairs : q = p
    BY <2>2
  <2>6. PICK r : r = TheRequest(w)
    OBVIOUS
  <2>7. Lasts(q, r)'
    BY <2>3, <2>4, <2>5, <2>6, LastsUnlessLetThrough
  <2> QED  BY <2>1, <2>2, <2>5, <2>6, <2>7 DEF Lasts, BeingChanged
<1> QED  BY <1>2, <1>3 DEF ServingStep, OutcomesStep, DocsStep

\* What an upsert has published and may record lasts.
LEMMA PublishedGoesOn ==
    ASSUME ServingInv, ServingStep, NEW v \in Workers
    PROVE  PublishedLasts(v)'
<1> SUFFICES ASSUME Publishing(v)', MayCommit(v)', work'[v].pc # "process",
                    EffectivePair(v)' \notin work'[v].todo
             PROVE  Lasts(EffectivePair(v), TheRequest(v))'
  BY DEF PublishedLasts
<1>1. ReadersInv /\ FlowInv /\ PublishedLasts(v)
  BY ReadersParts DEF ServingInv
<1>2. /\ Publishing(v) /\ work[v].pc # "process" /\ SameWork(v)
      /\ \/ EffectivePair(v) \notin work[v].todo
         \/ work[v].pc = "record" /\ lock[v] = EffectivePair(v)
  BY DEF ServingStep, PublishesOn
<1>3. TheDoc(v)' = TheDoc(v) /\ TheRequest(v)' = TheRequest(v)
      /\ EffectivePair(v)' = EffectivePair(v)
  BY <1>2 DEF SameWork, TheDoc, TheRequest, EffectivePair
<1>4. MayCommit(v)
  BY <1>2, <1>3 DEF MayCommit, StillCurrent, RequestIsCurrent, ClaimIsCurrent,
        JobClaimIsCurrent, SameWork, ServingStep, OutcomesStep, ClaimsStay, TheDoc, TheRequest
<1>5. PICK p \in Pairs : p = EffectivePair(v)
  BY <1>1, <1>2, EffectivePairType
<1>6. PICK r : r = TheRequest(v)
  OBVIOUS
<1>7. Lasts(p, r) /\ \A w \in Workers : lock[w] = p => ~LetThrough(w)
  <2>1. CASE EffectivePair(v) \notin work[v].todo
    BY <1>1, <1>2, <1>4, <1>5, <1>6, <2>1, PublishedStays DEF PublishedLasts
  <2>2. CASE work[v].pc = "record" /\ lock[v] = p
    <3>1. PairInv(v) /\ LocksInv /\ lock[v] # None
      BY <1>1, <2>2, LocalsOf, JobAt DEF FlowInv, LockLabels, PublishLabels
    <3>2. \A w \in Workers : lock[w] = p => w = v
      BY <2>2, <3>1 DEF LocksInv
    <3>3. remote[p] = r
      BY <1>6, <2>2, <3>1 DEF PairInv, ThePair
    <3> QED  BY <2>2, <3>2, <3>3 DEF Lasts, BeingChanged, LetThrough
  <2> QED  BY <1>2, <1>5, <2>1, <2>2
<1>8. Lasts(p, r)'
  BY <1>7, LastsUnlessLetThrough
<1> QED  BY <1>3, <1>5, <1>6, <1>8 DEF Lasts, BeingChanged

LEMMA ServingStepKeeps ==
    ASSUME ServingInv, ReadersInv', ServingStep
    PROVE  ServingInv'
BY ReadyGoesOn, PublishedGoesOn DEF ServingInv

-----------------------------------------------------------------------------
(* The steps of one worker. *)

RemoteStep(w) ==
    \/ remote' = remote
    \/ /\ work[w].pc \in {"write", "remote_remove"}
       /\ \A p \in Pairs : p # lock[w] => remote'[p] = remote[p]

LEMMA OutcomesStill ==
    ASSUME ReadersInv, UNCHANGED storeVars
    PROVE  OutcomesStep
BY ReadersParts, StoreStays, SameJobsHold DEF OutcomesStep, DocsStep, storeVars

LEMMA TablesOutcomes == TablesStep => OutcomesStep
BY DEF TablesStep, OutcomesStep

LEMMA StationaryLasts ==
    ASSUME NEW v \in Workers, work'[v] = work[v], lock'[v] = lock[v]
    PROVE  ChangesOn(v) /\ PublishesOn(v)
BY DEF ChangesOn, PublishesOn, Publishing, IsPass, IsDelete, EffectivePair, SameWork, TheDoc

LEMMA WorkerLasts ==
    ASSUME NEW w \in Workers, Placed(w), OutcomesStep, RemoteStep(w),
           ChangesOn(w), PublishesOn(w)
    PROVE  ServingStep
<1>1. \A v \in Workers : ChangesOn(v) /\ PublishesOn(v)
  BY StationaryLasts DEF Placed
<1>2. \A p \in Pairs : remote'[p] = remote[p] \/ BeingChanged(p)
  BY DEF RemoteStep, BeingChanged
<1> QED  BY <1>1, <1>2 DEF ServingStep

LEMMA NobodyLasts ==
    ASSUME OutcomesStep, UNCHANGED <<work, lock, remote>>
    PROVE  ServingStep
BY StationaryLasts DEF ServingStep

\* A worker that neither publishes nor is about to change anything.
LEMMA AsideLasts ==
    ASSUME NEW w \in Workers, Placed(w), OutcomesStep, RemoteStep(w),
           ~Publishing(w)', work'[w].pc \notin ChangeLabels
    PROVE  ServingStep
BY WorkerLasts DEF ChangesOn, PublishesOn

LEMMA DropLasts ==
    ASSUME ReadersInv, NEW w \in Workers, Drop(w), OutcomesStep, RemoteStep(w)
    PROVE  ServingStep
<1>1. Placed(w) /\ work'[w] = Idle
  BY ReadersParts, DropPlaces, LocalsOf DEF Drop
<1> QED  BY <1>1, AsideLasts DEF Idle, Publishing, IsPass, ChangeLabels

LEMMA RestLasts ==
    ASSUME ReadersInv, NEW w \in Workers, NEW label \in RestLabels, Goto(w, label),
           Release(w) \/ (lock' = lock /\ work[w].pc \notin LockLabels),
           OutcomesStep, RemoteStep(w)
    PROVE  ServingStep
<1>1. label \in Labels \ LockLabels
  BY DEF RestLabels, Labels, LockLabels, PublishLabels, RemoveLabels
<1>2. Placed(w) /\ work'[w] = [work[w] EXCEPT !.pc = label]
  BY <1>1, ReadersParts, GotoReleases, GotoPlaces
<1>3. work'[w].pc = label
  BY <1>2, ReadersParts, LocalsOf DEF Locals
<1> QED  BY <1>2, <1>3, AsideLasts DEF Publishing, RestLabels, PublishLabels, ChangeLabels

\* Under its lock a worker changes nothing that it was not let through to.
LEMMA LockedLasts ==
    ASSUME ReadersInv, NEW w \in Workers, NEW label \in LockLabels,
           Goto(w, label), lock' = lock, work[w].pc \in LockLabels,
           OutcomesStep, RemoteStep(w),
           label \in PublishLabels => work[w].pc \in PublishLabels,
           label \in ChangeLabels => work[w].pc \in ChangeLabels \/ LetThrough(w)
    PROVE  ServingStep
<1>1. label \in Labels
  BY DEF LockLabels, PublishLabels, RemoveLabels, Labels
<1>2. Placed(w) /\ work'[w] = [work[w] EXCEPT !.pc = label] /\ lock'[w] = lock[w]
  BY <1>1, ReadersParts, GotoPlaces
<1>3. SameWork(w) /\ work'[w].pc = label /\ work'[w].todo = work[w].todo
  BY <1>2, ReadersParts, LocalsOf DEF SameWork, Locals
<1>4. ChangesOn(w)
  BY <1>2, <1>3 DEF ChangesOn
<1>5. PublishesOn(w)
  <2> SUFFICES ASSUME Publishing(w)', EffectivePair(w)' \notin work'[w].todo
               PROVE  /\ Publishing(w) /\ work[w].pc # "process" /\ SameWork(w)
                      /\ EffectivePair(w) \notin work[w].todo
    BY DEF PublishesOn
  <2>1. label \in PublishLabels
    BY <1>3 DEF Publishing, LockLabels, PublishLabels, RemoveLabels
  <2> QED  BY <1>3, <2>1
           DEF Publishing, PublishLabels, IsPass, IsDelete, SameWork, EffectivePair, TheDoc
<1> QED  BY <1>2, <1>4, <1>5, WorkerLasts

\* A removal is over.
LEMMA RemovedLasts ==
    ASSUME ReadersInv, NEW w \in Workers, work[w].pc \in RemoveLabels,
           NextPair(w, IF IsPass(w) THEN "clean" ELSE "targets"),
           OutcomesStep, RemoteStep(w)
    PROVE  ServingStep
<1> DEFINE label == IF IsPass(w) THEN "clean" ELSE "targets"
<1>1. label \in Labels \ LockLabels
  BY DEF Labels, LockLabels, PublishLabels, RemoveLabels
<1>2. /\ Placed(w)
      /\ work'[w] = [work[w] EXCEPT !.pc = label, !.todo = work[w].todo \ {lock[w]}]
  BY <1>1, ReadersParts, NextPairPlaces
<1>3. SameWork(w) /\ work'[w].pc = label
  BY <1>2, ReadersParts, LocalsOf DEF SameWork, Locals
<1>4. IsPass(w) \/ IsDelete(w)
  BY ReadersParts, LocalsOf DEF InScope
<1>5. ~Publishing(w)' /\ label \notin ChangeLabels
  BY <1>3, <1>4 DEF Publishing, IsPass, IsDelete, SameWork, ChangeLabels
<1> QED  BY <1>2, <1>3, <1>5, AsideLasts

-----------------------------------------------------------------------------
(* The steps of a job. *)

LEMMA ClaimLasts ==
    ASSUME ReadersInv, NEW w \in Workers, Claim(w)
    PROVE  ServingStep
<1>1. PICK j \in JobIds :
         /\ ClaimJob(w, j)
         /\ work' = [work EXCEPT ![w] = [Idle EXCEPT !.pc = "claimed", !.job = j,
                                                     !.attempt = NextAttempt(j)]]
  BY DEF Claim
<1>2. /\ FlowInv /\ work[w].pc = "idle" /\ lock' = lock
      /\ UNCHANGED <<docs, lastRequest, rows, remote>>
  BY ReadersParts DEF Claim, At, publicationVars
<1>3. NextAttempt(j) \in 0..MaxAttempts
  BY <1>1, <1>2, ClaimMoves
<1> DEFINE l == [Idle EXCEPT !.pc = "claimed", !.job = j, !.attempt = NextAttempt(j)]
<1>4. l \in Locals /\ l.pc = "claimed"
  BY <1>3 DEF Idle, Locals, Labels
<1>5. Placed(w) /\ work'[w] = l
  <2>1. l.pc \notin LockLabels /\ work[w].pc \notin LockLabels
    BY <1>2, <1>4 DEF LockLabels, PublishLabels, RemoveLabels
  <2> QED  BY <1>1, <1>2, <1>4, <2>1, PlacesUnderLock
<1>6. OutcomesStep
  BY <1>2, ClaimHolds DEF OutcomesStep, DocsStep
<1>7. ~Publishing(w)' /\ work'[w].pc \notin ChangeLabels
  BY <1>4, <1>5 DEF Publishing, PublishLabels, ChangeLabels
<1> QED  BY <1>2, <1>5, <1>6, <1>7, AsideLasts DEF RemoteStep

LEMMA WorkerPlaced ==
    ASSUME ReadersInv, ReadersInv', NEW w \in Workers,
           \A v \in Workers \ {w} : work'[v] = work[v] /\ lock'[v] = lock[v]
    PROVE  Placed(w)
BY DEF ReadersInv, FlowInv, TypeOK, Placed

LEMMA BeginJobLasts ==
    ASSUME ReadersInv, ReadersInv', NEW w \in Workers, BeginJob(w)
    PROVE  ServingStep
<1>1. /\ work'[w].pc \in {"complete", "stale", "process", "targets"}
      /\ work'[w].pc = "targets" => IsDelete(w)
      /\ work'[w].job = work[w].job
  BY ReadersParts, LocalsOf DEF BeginJob, Locals
<1>2. Placed(w) /\ OutcomesStep /\ RemoteStep(w)
  BY ReadersParts, StateTypes, WorkerPlaced, OutcomesStill DEF BeginJob, RemoteStep
<1>3. ChangesOn(w)
  BY <1>1 DEF ChangesOn, ChangeLabels
<1>4. PublishesOn(w)
  BY <1>1 DEF PublishesOn, Publishing, PublishLabels, IsDelete
<1> QED  BY <1>2, <1>3, <1>4, WorkerLasts

\* Its last target is still before it.
LEMMA ProcessLasts ==
    ASSUME ReadersInv, ReadersInv', NEW w \in Workers, Process(w)
    PROVE  ServingStep
<1>1. /\ work'[w].pc \in {"error", "targets", "stale"}
      /\ work'[w].pc = "targets" => EffectiveTarget(work[w].seen) # "unset"
      /\ work'[w].todo = {<<TheDoc(w), t>> : t \in PublicationTargets(work[w].seen)}
      /\ work'[w].job = work[w].job /\ work'[w].seen = work[w].seen
  BY ReadersParts, LocalsOf DEF Process, Locals
<1>2. Placed(w) /\ OutcomesStep /\ RemoteStep(w)
  BY ReadersParts, StateTypes, WorkerPlaced, OutcomesStill DEF Process, RemoteStep
<1>3. ChangesOn(w)
  BY <1>1 DEF ChangesOn, ChangeLabels
<1>4. PublishesOn(w)
  <2>1. Publishing(w)' => work'[w].pc = "targets"
    BY <1>1 DEF Publishing, PublishLabels
  <2>2. work'[w].pc = "targets" => EffectivePair(w)' \in work'[w].todo
    BY <1>1 DEF EffectivePair, PublicationTargets, TheDoc
  <2> QED  BY <2>1, <2>2 DEF PublishesOn
<1> QED  BY <1>2, <1>3, <1>4, WorkerLasts

LEMMA LockLasts ==
    ASSUME ReadersInv, ReadersInv', NEW w \in Workers, Lock(w)
    PROVE  ServingStep
<1>1. /\ work[w].pc \in {"targets", "clean"}
      /\ work'[w].pc = IF work[w].pc = "targets" /\ ~IsDelete(w) THEN "guard" ELSE "fence"
      /\ SameWork(w) /\ work'[w].todo = work[w].todo
  BY ReadersParts, LocalsOf DEF Lock, At, Goto, SameWork, Locals
<1>2. Placed(w) /\ OutcomesStep /\ RemoteStep(w)
  BY ReadersParts, StateTypes, WorkerPlaced, OutcomesStill DEF Lock, Goto, EnterLock, RemoteStep
<1>3. ChangesOn(w)
  BY <1>1 DEF ChangesOn, ChangeLabels
<1>4. PublishesOn(w)
  <2>1. Publishing(w)' => Publishing(w)
    BY <1>1 DEF Publishing, PublishLabels, IsPass, IsDelete, SameWork
  <2> QED  BY <1>1, <2>1 DEF PublishesOn, SameWork, EffectivePair, TheDoc
<1> QED  BY <1>2, <1>3, <1>4, WorkerLasts

\* The checks under the lock let an upsert through.
LEMMA GuardLasts ==
    ASSUME ReadersInv, NEW w \in Workers, Guard(w)
    PROVE  ServingStep
<1>1. work[w].pc = "guard" /\ OutcomesStep /\ RemoteStep(w)
  BY OutcomesStill DEF Guard, At, RemoteStep
<1>2. CASE /\ MayRecordPending(w, work[w].job, work[w].attempt, work[w].seen, ThePair(w))
           /\ Goto(w, "write") /\ UNCHANGED lock
  <2>1. /\ work[w].pc \in LockLabels /\ lock[w] \in work[w].todo /\ ~IsPass(w) /\ ~IsDelete(w)
        /\ TodoInv(w)
    BY <1>1, ReadersParts, JobAt DEF WorkerParts, TodoInv, LockLabels, PublishLabels
  <2>2. RowDoc(lock[w]) = TheDoc(w)
    BY <1>1, <2>1 DEF TodoInv, Publishing, PublishLabels
  <2>3. LetThrough(w)
    BY <1>1, <1>2, <2>2
    DEF LetThrough, MayRecordPending, MayCommit, StillCurrent, RequestIsCurrent,
        ClaimIsCurrent, TheRequest, TheDoc, ThePair
  <2> QED  BY <1>1, <1>2, <2>1, <2>3, LockedLasts DEF LockLabels, PublishLabels
<1>3. CASE Goto(w, "stale") /\ Release(w)
  BY <1>1, <1>3, RestLasts DEF RestLabels
<1> QED  BY <1>2, <1>3 DEF Guard

LEMMA PublishLasts ==
    ASSUME ReadersInv, NEW w \in Workers, Publish(w)
    PROVE  ServingStep
<1>1. work[w].pc = "write" /\ OutcomesStep /\ Goto(w, "verify") /\ lock' = lock
  BY OutcomesStill DEF Publish, At
<1>2. RemoteStep(w)
  BY <1>1, ReadersParts DEF Publish, RemoteStep, ThePair, FlowInv, TypeOK
<1> QED  BY <1>1, <1>2, LockedLasts DEF LockLabels, PublishLabels, ChangeLabels

LEMMA PublishFailsLasts ==
    ASSUME ReadersInv, NEW w \in Workers, PublishFails(w)
    PROVE  ServingStep
<1>1. work[w].pc = "write" /\ OutcomesStep /\ Goto(w, "error") /\ Release(w)
  BY OutcomesStill DEF PublishFails, At
<1>2. RemoteStep(w)
  BY <1>1, ReadersParts DEF PublishFails, RemoteStep, ThePair, FlowInv, TypeOK
<1> QED  BY <1>1, <1>2, RestLasts DEF RestLabels

LEMMA VerifyLasts ==
    ASSUME ReadersInv, NEW w \in Workers, Verify(w)
    PROVE  ServingStep
<1>1. work[w].pc = "verify" /\ OutcomesStep /\ RemoteStep(w)
  BY OutcomesStill DEF Verify, At, RemoteStep
<1>2. CASE Goto(w, "record") /\ UNCHANGED lock
  BY <1>1, <1>2, LockedLasts DEF LockLabels, PublishLabels, ChangeLabels
<1>3. CASE Goto(w, "stale") /\ Release(w)
  BY <1>1, <1>3, RestLasts DEF RestLabels
<1> QED  BY <1>2, <1>3 DEF Verify

\* What was verified is done.
LEMMA RecordPublishedLasts ==
    ASSUME ReadersInv, NEW w \in Workers, RecordPublished(w)
    PROVE  ServingStep
<1>1. /\ work[w].pc = "record" /\ OutcomesStep /\ RemoteStep(w)
      /\ ~IsPass(w) /\ ~IsDelete(w) /\ FlowInv
  BY OutcomesStill, ReadersParts, JobAt
  DEF RecordPublished, At, RemoteStep, PublishLabels
<1>2. CASE NextPair(w, "targets")
  <2>1. /\ Placed(w)
        /\ work'[w] = [work[w] EXCEPT !.pc = "targets", !.todo = work[w].todo \ {lock[w]}]
    BY <1>1, <1>2, NextPairPlaces DEF Labels, LockLabels, PublishLabels, RemoveLabels
  <2>2. SameWork(w) /\ work'[w].pc = "targets" /\ work'[w].todo = work[w].todo \ {lock[w]}
    BY <1>1, <2>1, LocalsOf DEF SameWork, Locals
  <2>3. ChangesOn(w)
    BY <2>2 DEF ChangesOn, ChangeLabels
  <2>4. PublishesOn(w)
    BY <1>1, <2>2 DEF PublishesOn, Publishing, PublishLabels, EffectivePair, SameWork, TheDoc
  <2> QED  BY <1>1, <2>1, <2>3, <2>4, WorkerLasts
<1>3. CASE Goto(w, "stale") /\ Release(w)
  BY <1>1, <1>3, RestLasts DEF RestLabels
<1> QED  BY <1>2, <1>3 DEF RecordPublished

\* Complete, Cancel and FailJob close a job; no claim of another worker starts.
LEMMA CloseLasts ==
    ASSUME ReadersInv, NEW w \in Workers, Complete(w) \/ Cancel(w) \/ FailJob(w)
    PROVE  ServingStep
<1>1. Drop(w) /\ RemoteStep(w) /\ docs' = docs
  BY DEF Complete, Cancel, FailJob, RemoteStep
<1>2. OutcomesStep
  BY <1>1, CloseHolds DEF OutcomesStep, DocsStep
<1> QED  BY <1>1, <1>2, DropLasts

LEMMA OutcomeLasts ==
    ASSUME ReadersInv, NEW w \in Workers,
           Commit(w) \/ Stale(w) \/ JudgeError(w) \/ RecordError(w)
    PROVE  ServingStep
<1>1. /\ work[w].pc \in RestLabels \cup {"targets"} /\ work[w].pc \notin LockLabels
      /\ RemoteStep(w)
  BY DEF Commit, Stale, JudgeError, RecordError, At, RestLabels, LockLabels, PublishLabels,
     RemoveLabels, RemoteStep
<1>2. OutcomesStep
  <2>1. CASE Commit(w)
    BY <2>1, CommitSteps, TablesOutcomes
  <2>2. CASE Stale(w) \/ JudgeError(w)
    BY <2>2, OutcomesStill DEF Stale, JudgeError
  <2>3. CASE RecordError(w)
    <3>1. TheDoc(w) \in Docs /\ UNCHANGED <<jobs, lastRequest, rows>>
      BY <2>3, ReadersParts, JobAt, JobParts DEF RecordError, At, RestLabels, TheDoc,
         publicationVars
    <3> QED  BY <2>3, <3>1, ErrorSteps, TablesStill, TablesOutcomes DEF RecordError
  <2> QED  BY <2>1, <2>2, <2>3
<1>3. Drop(w) \/ \E label \in RestLabels : Goto(w, label) /\ lock' = lock
  BY DEF Commit, Stale, JudgeError, RecordError, RestLabels
<1> QED  BY <1>1, <1>2, <1>3, DropLasts, RestLasts

-----------------------------------------------------------------------------
(* The steps of a removal and of a pass. *)

LEMMA StopLasts ==
    ASSUME ReadersInv, NEW w \in Workers, Stop(w), OutcomesStep, RemoteStep(w)
    PROVE  ServingStep
BY DropLasts, RestLasts DEF Stop, RestLabels

LEMMA RemovalLasts ==
    ASSUME ReadersInv, NEW w \in Workers, RemoveStep(w) \/ RemoteRemoveFails(w)
    PROVE  ServingStep
<1> DEFINE step == RemoteStep(w) /\ OutcomesStep /\ work[w].pc \in RemoveLabels
<1>1. step
  <2>1. work[w].pc \in RemoveLabels /\ UNCHANGED storeVars
    BY DEF RemoveStep, Fence, ClaimRemoval, CheckRemovalClaim, RemoteRemove, ForgetRow,
       Conflict, RemoteRemoveFails, At, RemoveLabels
  <2>2. RemoteStep(w)
    BY ReadersParts
    DEF RemoveStep, Fence, ClaimRemoval, CheckRemovalClaim, RemoteRemove, ForgetRow,
        Conflict, RemoteRemoveFails, At, RemoteStep, ThePair, FlowInv, TypeOK
  <2> QED  BY <2>1, <2>2, OutcomesStill
<1>2. \/ Drop(w) \/ Stop(w)
      \/ \E label \in RestLabels : Goto(w, label) /\ Release(w)
      \/ NextPair(w, IF IsPass(w) THEN "clean" ELSE "targets")
      \/ \E label \in RemoveLabels :
           /\ Goto(w, label) /\ lock' = lock
           /\ label \in ChangeLabels => work[w].pc \in ChangeLabels \/ LetThrough(w)
  <2>1. CASE Fence(w)
    BY <2>1 DEF Fence, At, LetThrough, RemoveLabels
  <2>2. CASE ClaimRemoval(w) \/ CheckRemovalClaim(w)
    BY <2>2 DEF ClaimRemoval, CheckRemovalClaim, At, ChangeLabels, RemoveLabels
  <2>3. CASE RemoteRemove(w)
    <3>1. work[w].bare => ~IsPass(w)
      BY ReadersParts, LocalsOf DEF InScope
    <3> QED  BY <2>3, <3>1 DEF RemoteRemove, ChangeLabels, RemoveLabels
  <2>4. CASE RemoteRemoveFails(w)
    BY <2>4 DEF RemoteRemoveFails, RestLabels
  <2>5. CASE ForgetRow(w)
    BY <2>5 DEF ForgetRow, ChangeLabels, RemoveLabels
  <2>6. CASE Conflict(w)
    BY <2>6 DEF Conflict, RestLabels
  <2> QED  BY <2>1, <2>2, <2>3, <2>4, <2>5, <2>6 DEF RemoveStep
<1>3. ASSUME NEW label \in RemoveLabels, Goto(w, label), lock' = lock,
             label \in ChangeLabels => work[w].pc \in ChangeLabels \/ LetThrough(w)
      PROVE  ServingStep
  <2>1. label \in LockLabels /\ work[w].pc \in LockLabels /\ label \notin PublishLabels
    BY <1>1 DEF LockLabels, PublishLabels, RemoveLabels
  <2> QED  BY <1>1, <1>3, <2>1, LockedLasts
<1> QED  BY <1>1, <1>2, <1>3, DropLasts, StopLasts, RestLasts, RemovedLasts

LEMMA PassLasts ==
    ASSUME ReadersInv, ReadersInv', NEW w \in Workers, PassStep(w) \/ BeginPass(w)
    PROVE  ServingStep
<1>1. RemoteStep(w)
  BY DEF PassStep, BeginPass, ColumnMissing, ListDocuments, WaitForDocuments, RequeueMissing,
     AwaitStep, ListToClean, CleanedUp, Activate, RemoteStep
<1>2. OutcomesStep
  <2>1. CASE UNCHANGED storeVars
    BY <2>1, OutcomesStill
  <2>2. ASSUME NEW d \in Docs, NEW r \in Requests, Submit(d, r, "upsert"), UNCHANGED remote
        PROVE  OutcomesStep
    BY <2>2, SubmitSteps, TablesOutcomes DEF JobTypes
  <2> QED  BY <2>1, <2>2
           DEF PassStep, BeginPass, ColumnMissing, ListDocuments, WaitForDocuments,
               RequeueMissing, AwaitStep, ListToClean, CleanedUp, Activate, Waiting,
               ListedDesired
<1>3. CASE Drop(w)
  BY <1>1, <1>2, <1>3, DropLasts
<1>4. ASSUME NEW label \in {"rows", "clean", "activate", "advance"}, work'[w].pc = label,
             \A v \in Workers \ {w} : work'[v] = work[v] /\ lock'[v] = lock[v]
      PROVE  ServingStep
  <2>1. Placed(w)
    BY <1>4, WorkerPlaced
  <2> QED  BY <1>1, <1>2, <1>4, <2>1, AsideLasts DEF Publishing, PublishLabels, ChangeLabels
<1>5. ASSUME BeginPass(w) \/ ListDocuments(w) \/ ListToClean(w) \/ CleanedUp(w), ~Drop(w)
      PROVE  /\ work'[w].pc \in {"rows", "clean", "activate", "advance"}
             /\ \A v \in Workers \ {w} : work'[v] = work[v] /\ lock'[v] = lock[v]
  BY <1>5, ReadersParts, LocalsOf
  DEF BeginPass, ListDocuments, ListToClean, CleanedUp, Goto, Idle, Locals
<1> QED  BY <1>3, <1>4, <1>5
         DEF PassStep, ColumnMissing, WaitForDocuments, RequeueMissing, AwaitStep, Activate

-----------------------------------------------------------------------------
(* The invariant. *)

LEMMA ServingSteps ==
    ASSUME ServingInv, ReadersInv', [Next]_vars
    PROVE  ServingStep
<1>0. ReadersInv
  BY DEF ServingInv
<1>1. CASE UNCHANGED vars
  BY <1>0, <1>1, OutcomesStill, NobodyLasts DEF vars, storeVars, flowVars
<1>2. ASSUME NEW d \in Docs, NEW r \in Requests, NEW type \in JobTypes,
             UserRequest(d, r, type)
      PROVE  ServingStep
  BY <1>0, <1>2, SubmitSteps, TablesOutcomes, NobodyLasts DEF UserRequest, flowVars
<1>3. ASSUME NEW target \in Targets, AdminRequestsTarget(target)
      PROVE  ServingStep
  BY <1>0, <1>3, OutcomesStill, NobodyLasts DEF AdminRequestsTarget
<1>4. CASE AdminProvisions \/ AdminConfirms
  BY <1>0, <1>4, OutcomesStill, NobodyLasts DEF AdminProvisions, AdminConfirms, flowVars
<1>5. ASSUME NEW item \in republish, NEW r \in Requests, AdminRepublishes(item, r)
      PROVE  ServingStep
  <2>1. UNCHANGED <<work, lock, remote>> /\ RowDoc(item[1]) \in Docs
    BY <1>0, <1>5, ReadersParts DEF AdminRepublishes, FlowInv, TypeOK, Pairs, RowDoc
  <2>2. OutcomesStep
    BY <1>0, <1>5, <2>1, OutcomesStill, SubmitSteps, TablesOutcomes
    DEF AdminRepublishes, JobTypes
  <2> QED  BY <2>1, <2>2, NobodyLasts
<1>6. ASSUME NEW w \in Workers, Step(w)
      PROVE  ServingStep
  BY <1>0, <1>6, ProcessLasts, GuardLasts, PublishLasts, VerifyLasts, RecordPublishedLasts,
     RemovalLasts, BeginJobLasts, CloseLasts, OutcomeLasts, PassLasts
  DEF Step, PublishStep, OutcomeStep
<1>7. ASSUME NEW w \in Workers,
             \/ Claim(w) \/ Lock(w) \/ BeginPass(w) \/ PublishFails(w)
             \/ RemoteRemoveFails(w) \/ Crash(w)
      PROVE  ServingStep
  <2>1. CASE Crash(w)
    BY <1>0, <2>1, OutcomesStill, DropLasts DEF Crash, RemoteStep
  <2> QED  BY <1>0, <1>7, <2>1, ClaimLasts, LockLasts, PassLasts, PublishFailsLasts,
              RemovalLasts
<1>8. ASSUME NEW j \in JobIds, LeaseExpires(j)
      PROVE  ServingStep
  BY <1>0, <1>8, LeaseHolds, NobodyLasts DEF LeaseExpires, OutcomesStep, DocsStep
<1> QED
  BY <1>1, <1>2, <1>3, <1>4, <1>5, <1>6, <1>7, <1>8 DEF Next, AdminStep

LEMMA ServingStarts == Init => ServingInv
<1> SUFFICES ASSUME Init PROVE ServingInv
  OBVIOUS
<1>1. ReadersInv
  BY ReadersStart
<1>2. \A w \in Workers : work[w].pc = "idle"
  BY DEF Init, WorkersIdle, Idle
<1>3. \A w \in Workers : PublishedLasts(w)
  BY <1>2 DEF PublishedLasts, Publishing, PublishLabels
<1>4. ASSUME NEW d \in Docs, docs[d].status = "Ready"
      PROVE  \E p \in Pairs : RowDoc(p) = d /\ Lasts(p, docs[d].request)
  <2>1. PublishedStore
    BY <1>4 DEF Init, FreshStore, StoreInit
  <2> DEFINE p == <<d, "copilot_connector">>
  <2>2. p \in Pairs /\ RowDoc(p) = d /\ RowTarget(p) = "copilot_connector"
    BY DEF Pairs, PublishedTargets, Targets, RowDoc, RowTarget
  <2>3. docs[d].request = 1 /\ remote[p] = 1
    BY <2>1, <2>2 DEF PublishedStore
  <2> QED  BY <1>2, <2>2, <2>3 DEF Lasts, BeingChanged
<1> QED  BY <1>1, <1>3, <1>4 DEF ServingInv, ReadyLasts

LEMMA ServingGoesOn == ServingInv /\ [Next]_vars => ServingInv'
<1> SUFFICES ASSUME ServingInv, [Next]_vars PROVE ServingInv'
  OBVIOUS
<1>1. ReadersInv'
  BY ReadersGoOn DEF ServingInv
<1> QED  BY <1>1, ServingSteps, ServingStepKeeps

\* What was published for a document that is ready, or about to be recorded as ready,
\* stays where it is: whoever is let through to a pair under the lock finds that no
\* ready document needs it (publication_operation_lock, _process_delete,
\* _cleanup_previous_target).
THEOREM ServingInvariant == Spec => []ServingInv
BY ServingStarts, ServingGoesOn, PTL DEF Spec

\* What a document the control calls ready was made for is found in a target at every
\* step of a switch, a rollback or a clean-up, and in the active one while no
\* transition is open, for any number of documents, workers, switches and faults.
THEOREM ReadyAreServed == Spec => []ReadyIsServed
<1>1. ServingInv => ReadyIsServed
  <2> SUFFICES ASSUME ServingInv, NEW d \in Docs, docs[d].status = "Ready"
               PROVE  \E p \in Pairs :
                        /\ RowDoc(p) = d
                        /\ remote[p] = docs[d].request
                        /\ transition.status = "active" => RowTarget(p) = transition.active
    BY DEF ReadyIsServed
  <2>1. CASE transition.status = "active"
    BY <2>1, ServedIsFound, ReadersParts DEF ServingInv, ReadersInv, TransitionInv
  <2>2. CASE transition.status # "active"
    BY <2>2 DEF ServingInv, ReadyLasts, Lasts
  <2> QED  BY <2>1, <2>2
<1> QED  BY <1>1, ServingInvariant, PTL

-----------------------------------------------------------------------------
(* The switch among documents and jobs. *)

\* What a step does to the row, as a step of TargetSwitch.
RowMoves ==
    /\ StatusIsEarned'
    /\ Switch!Next \/ UNCHANGED Switch!vars
    /\ UNCHANGED transition \/ Grows \/ \E target \in Targets : RequestTarget(target)

\* What a step does to the row a worker holds.
SeenMoves(v) ==
    \/ work'[v].seen = None
    \/ work'[v].seen = work[v].seen /\ work'[v].job = work[v].job
    \/ /\ transition' = transition /\ work'[v].seen = transition
       /\ work'[v].job = None => transition.status # "active"

LEMMA GotoSees ==
    ASSUME FlowInv, NEW w \in Workers, NEW label, Goto(w, label)
    PROVE  \A v \in Workers : SeenMoves(v)
BY StateTypes DEF Goto, SeenMoves, Locals

LEMMA NextPairSees ==
    ASSUME FlowInv, NEW w \in Workers, NEW label, NextPair(w, label)
    PROVE  \A v \in Workers : SeenMoves(v)
BY StateTypes DEF NextPair, SeenMoves, Locals

LEMMA DropSees ==
    ASSUME FlowInv, NEW w \in Workers, Drop(w)
    PROVE  \A v \in Workers : SeenMoves(v)
BY StateTypes DEF Drop, Idle, SeenMoves

LEMMA NobodySees ==
    ASSUME UNCHANGED work
    PROVE  \A v \in Workers : SeenMoves(v)
BY DEF SeenMoves

LEMMA JobSees ==
    ASSUME FlowInv, NEW w \in Workers, PublishStep(w) \/ OutcomeStep(w) \/ RemoveStep(w)
    PROVE  \A v \in Workers : SeenMoves(v)
<1>1. CASE BeginJob(w)
  <2>1. work[w].job # None
    BY <1>1, JobAt DEF BeginJob, At, RestLabels, IsPass
  <2>2. /\ work'[w].seen = None \/ work'[w].seen = transition
        /\ work'[w].job = work[w].job /\ transition' = transition
        /\ \A v \in Workers \ {w} : work'[v] = work[v]
    BY <1>1, StateTypes DEF BeginJob, Locals
  <2> QED  BY <2>1, <2>2 DEF SeenMoves
<1>2. CASE Process(w)
  BY <1>2, StateTypes DEF Process, SeenMoves, Locals
<1>3. CASE Guard(w) \/ Publish(w) \/ Verify(w) \/ RecordPublished(w)
  BY <1>3, GotoSees, NextPairSees DEF Guard, Publish, Verify, RecordPublished
<1>4. CASE Fence(w) \/ ClaimRemoval(w) \/ CheckRemovalClaim(w)
  BY <1>4, GotoSees, NextPairSees, DropSees DEF Fence, Stop, ClaimRemoval, CheckRemovalClaim
<1>5. CASE RemoteRemove(w) \/ ForgetRow(w) \/ Conflict(w)
  BY <1>5, GotoSees, NextPairSees, DropSees DEF RemoteRemove, ForgetRow, Conflict
<1>6. CASE \/ Commit(w) \/ Complete(w) \/ Stale(w) \/ Cancel(w)
           \/ JudgeError(w) \/ RecordError(w) \/ FailJob(w)
  BY <1>6, GotoSees, DropSees
  DEF Commit, Complete, Stale, Cancel, JudgeError, RecordError, FailJob
<1> QED
  BY <1>1, <1>2, <1>3, <1>4, <1>5, <1>6 DEF PublishStep, OutcomeStep, RemoveStep

LEMMA PassSees ==
    ASSUME FlowInv, NEW w \in Workers, PassStep(w)
    PROVE  \A v \in Workers : SeenMoves(v)
<1>1. CASE ListDocuments(w)
  BY <1>1, StateTypes DEF ListDocuments, SeenMoves, Locals
<1>2. CASE ListToClean(w)
  <2>1. CASE Drop(w)
    BY <2>1, DropSees
  <2>2. ASSUME NEW found, work' = [work EXCEPT ![w].pc = "clean", ![w].todo = found]
        PROVE  \A v \in Workers : SeenMoves(v)
    BY <2>2, StateTypes DEF SeenMoves, Locals
  <2> QED  BY <1>2, <2>1, <2>2 DEF ListToClean
<1>3. CASE ColumnMissing(w) \/ WaitForDocuments(w) \/ RequeueMissing(w) \/ AwaitStep(w) \/ Activate(w)
  BY <1>3, DropSees DEF ColumnMissing, WaitForDocuments, RequeueMissing, AwaitStep, Activate
<1>4. CASE CleanedUp(w)
  BY <1>4, GotoSees, DropSees DEF CleanedUp
<1> QED  BY <1>1, <1>2, <1>3, <1>4 DEF PassStep

LEMMA AllSee ==
    ASSUME FlowInv, [Next]_vars
    PROVE  \A v \in Workers : SeenMoves(v)
<1>1. CASE UNCHANGED vars
  BY <1>1, NobodySees DEF vars, flowVars
<1>2. ASSUME NEW d \in Docs, NEW r \in Requests, NEW type \in JobTypes,
             UserRequest(d, r, type)
      PROVE  UNCHANGED work
  BY <1>2 DEF UserRequest, flowVars
<1>3. ASSUME NEW target \in Targets, AdminRequestsTarget(target)
      PROVE  UNCHANGED work
  BY <1>3 DEF AdminRequestsTarget
<1>4. CASE AdminStep
  BY <1>4, NobodySees DEF AdminStep, AdminProvisions, AdminConfirms, AdminRepublishes, flowVars
<1>5. ASSUME NEW w \in Workers, Claim(w) \/ BeginPass(w)
      PROVE  \A v \in Workers : SeenMoves(v)
  <2>1. CASE Claim(w)
    BY <2>1, StateTypes DEF Claim, Idle, SeenMoves
  <2>2. CASE BeginPass(w)
    BY <2>2, StateTypes DEF BeginPass, Idle, SeenMoves
  <2> QED  BY <1>5, <2>1, <2>2
<1>6. ASSUME NEW w \in Workers,
             Lock(w) \/ PublishFails(w) \/ RemoteRemoveFails(w) \/ Crash(w)
      PROVE  \A v \in Workers : SeenMoves(v)
  BY <1>6, GotoSees, DropSees DEF Lock, PublishFails, RemoteRemoveFails, Crash
<1>7. ASSUME NEW j \in JobIds, LeaseExpires(j)
      PROVE  UNCHANGED work
  BY <1>7 DEF LeaseExpires
<1> QED
  BY <1>1, <1>2, <1>3, <1>4, <1>5, <1>6, <1>7, NobodySees, JobSees, PassSees DEF Next, Step

\* A pass sets a status that the row it read has earned.
LEMMA PassMoves ==
    ASSUME ReadersInv, PassesAreOfSwitches, NEW w \in Workers, PassStep(w)
    PROVE  RowMoves
<1> DEFINE s == work[w].seen
<1>1. TransitionTypeOK /\ StatusIsEarned
  BY ReadersParts, StateTypes DEF TransitionTypeOK, PassesAreOfSwitches
<1>2. CASE UNCHANGED transition
  BY <1>1, <1>2, NothingIsSwitch DEF RowMoves, StatusIsEarned, FullyConfirmed
<1>3. CASE work[w].pc \in PassLabels
  <2>1. s \in Transition /\ ReadIsOlder(s) /\ s.status # "active" /\ PassInv(w) /\ IsPass(w)
    BY <1>3, ReadersParts, PassAt, NullAssumption DEF PassesAreOfSwitches, WorkerParts, IsPass
  <2>2. ASSUME NEW status \in TransitionStatuses \ {"active"},
               NEW error \in {"", "not_provisioned", "cleanup"}, SetStatus(w, status, error),
               status \in {"awaiting_reindex", "awaiting_search", "awaiting_copilot"}
                 => s.desired = "sharepoint_column" /\ s.provisioned,
               status = "awaiting_search" => s.reindexed,
               status = "awaiting_copilot" => s.reindexed /\ s.searched,
               status = "cleaning" /\ s.desired = "sharepoint_column" => FullyConfirmed(s)
        PROVE  RowMoves
    <3>1. CASE SetTransitionStatus(s, status, error)
      BY <1>1, <2>1, <2>2, <3>1, StatusIsSwitch DEF RowMoves
    <3> QED  BY <1>2, <2>2, <3>1 DEF SetStatus
  <2>3. CASE ColumnMissing(w)
    BY <2>2, <2>3 DEF ColumnMissing, TransitionStatuses
  <2>4. CASE At(w, "rows") /\ ~Matches(s, s.status) /\ (AwaitStep(w) \/ ListToClean(w))
    <3>1. UNCHANGED transition
      BY <2>4 DEF AwaitStep, ListToClean, SetStatus, SetTransitionStatus
    <3> QED  BY <1>2, <3>1
  <2>5. CASE At(w, "rows") /\ Matches(s, s.status) /\ (AwaitStep(w) \/ ListToClean(w))
    <3>1. ~NeedsColumn(s)
      BY <2>1, <2>5, NullAssumption DEF PassInv, Matches, At
    <3>2. CASE AwaitStep(w)
      <4>1. PICK status \in Awaited(s) : SetStatus(w, status, "")
        BY <3>2 DEF AwaitStep
      <4>2. /\ s.desired = "sharepoint_column" /\ s.provisioned
            /\ status \in {"awaiting_reindex", "awaiting_search", "awaiting_copilot"}
            /\ status = "awaiting_search" => s.reindexed
            /\ status = "awaiting_copilot" => s.reindexed /\ s.searched
        BY <2>1, <3>1, <4>1 DEF Awaited, NeedsColumn, Transition
      <4>3. status \in TransitionStatuses \ {"active"} /\ status # "cleaning"
        BY <4>2 DEF TransitionStatuses
      <4> QED  BY <2>2, <4>1, <4>2, <4>3
    <3>3. CASE ListToClean(w) /\ ~IsRollback(s)
      <4>1. Awaited(s) = {} /\ SetStatus(w, "cleaning", "")
        BY <3>3 DEF ListToClean
      <4>2. s.desired = "sharepoint_column" => FullyConfirmed(s)
        BY <2>1, <3>1, <4>1 DEF Awaited, NeedsColumn, FullyConfirmed, Transition
      <4>3. "cleaning" \in TransitionStatuses \ {"active"}
        BY DEF TransitionStatuses
      <4> QED  BY <2>2, <4>1, <4>2, <4>3
    <3>4. CASE ListToClean(w) /\ IsRollback(s)
      BY <1>2, <3>4 DEF ListToClean
    <3> QED  BY <2>5, <3>2, <3>3, <3>4
  <2>6. CASE Activate(w)
    <3>1. CASE ActivateTarget(s)
      BY <1>1, <3>1, ActivationIsSwitch, ActivationGrows DEF RowMoves
    <3> QED  BY <1>2, <2>6, <3>1 DEF Activate
  <2>7. CASE ListDocuments(w) \/ WaitForDocuments(w) \/ RequeueMissing(w) \/ CleanedUp(w)
    BY <1>2, <2>7 DEF ListDocuments, WaitForDocuments, RequeueMissing, CleanedUp
  <2> QED
    BY <2>3, <2>4, <2>5, <2>6, <2>7 DEF PassStep, AwaitStep, ListToClean
<1>4. CASE work[w].pc \notin PassLabels
  BY <1>2, <1>4
  DEF PassStep, PassLabels, At, ColumnMissing, ListDocuments, WaitForDocuments,
      RequeueMissing, AwaitStep, ListToClean, CleanedUp, Activate
<1> QED  BY <1>3, <1>4

LEMMA AllMove ==
    ASSUME ReadersInv, PassesAreOfSwitches, [Next]_vars
    PROVE  RowMoves
<1> USE DEF storeVars, publicationVars, flowVars
<1>1. TransitionTypeOK /\ StatusIsEarned
  BY ReadersParts, StateTypes DEF TransitionTypeOK, PassesAreOfSwitches
<1>2. CASE UNCHANGED transition
  BY <1>1, <1>2, NothingIsSwitch DEF RowMoves, StatusIsEarned, FullyConfirmed
<1>3. ASSUME NEW target \in Targets, AdminRequestsTarget(target)
      PROVE  RowMoves
  <2>1. CASE RequestTarget(target)
    BY <1>1, <2>1, RequestIsSwitch DEF RowMoves
  <2> QED  BY <1>2, <1>3, <2>1 DEF AdminRequestsTarget
<1>4. CASE AdminStep
  <2>1. CASE AdminProvisions
    BY <1>1, <2>1, ProvisionIsSwitch, ProvisionGrows DEF AdminProvisions, RowMoves
  <2>2. CASE AdminConfirms
    BY <1>1, <2>2, ConfirmationIsSwitch, ConfirmationGrows DEF AdminConfirms, RowMoves
  <2> QED  BY <1>2, <1>4, <2>1, <2>2 DEF AdminStep, AdminRepublishes
<1>5. ASSUME NEW w \in Workers, PublishStep(w) \/ OutcomeStep(w) \/ RemoveStep(w)
      PROVE  UNCHANGED transition
  BY <1>5 DEF PublishStep, OutcomeStep, RemoveStep, Process, Guard, Publish, Verify,
     RecordPublished, Fence, ClaimRemoval, CheckRemovalClaim, RemoteRemove, ForgetRow,
     Conflict, BeginJob, Commit, Complete, Stale, Cancel, JudgeError, RecordError, FailJob
<1>6. ASSUME NEW w \in Workers, PassStep(w)
      PROVE  RowMoves
  BY <1>6, PassMoves
<1>7. ASSUME NEW w \in Workers,
             Claim(w) \/ Lock(w) \/ BeginPass(w) \/ PublishFails(w) \/ Crash(w)
      PROVE  UNCHANGED transition
  BY <1>7 DEF Claim, Lock, BeginPass, PublishFails, Crash
<1>8. ASSUME NEW w \in Workers, RemoteRemoveFails(w)
      PROVE  RowMoves
  <2>1. CASE /\ Matches(work[w].seen, "cleaning")
             /\ transition' = [transition EXCEPT !.status = "failed", !.error = "cleanup"]
    BY <1>1, <2>1, FailureIsSwitch DEF Matches, RowMoves
  <2> QED  BY <1>2, <1>8, <2>1 DEF RemoteRemoveFails
<1>9. ASSUME NEW d \in Docs, NEW r \in Requests, NEW type \in JobTypes,
             UserRequest(d, r, type)
      PROVE  UNCHANGED transition
  BY <1>9 DEF UserRequest
<1>10. ASSUME NEW j \in JobIds, LeaseExpires(j)
       PROVE  UNCHANGED transition
  BY <1>10 DEF LeaseExpires
<1> QED
  BY <1>2, <1>3, <1>4, <1>5, <1>6, <1>7, <1>8, <1>9, <1>10 DEF Next, Step, vars

LEMMA PassesGoOn ==
    ASSUME ReadersInv, PassesAreOfSwitches, [Next]_vars
    PROVE  PassesAreOfSwitches'
<1>1. RowMoves /\ TransitionTypeOK /\ transition \in Transition
  BY AllMove, ReadersParts, StateTypes DEF TransitionTypeOK
<1>2. ASSUME NEW v \in Workers, work'[v].seen # None
      PROVE  ReadIsOlder(work[v].seen)' /\ (IsPass(v)' => work'[v].seen.status # "active")
  <2>1. SeenMoves(v)
    BY AllSee, ReadersParts
  <2>2. CASE work'[v].seen = work[v].seen /\ work'[v].job = work[v].job
    <3>1. work[v].seen \in Transition
      BY <1>2, <2>2, ReadersParts, StateTypes DEF Locals
    <3>2. PICK s \in Transition : s = work[v].seen
      BY <3>1
    <3>3. ReadIsOlder(s) /\ (IsPass(v) => s.status # "active")
      BY <1>2, <2>2, <3>2 DEF PassesAreOfSwitches
    <3>4. ReadIsOlder(s)'
      <4>1. CASE UNCHANGED transition
        BY <3>3, <4>1 DEF ReadIsOlder
      <4> QED
        BY <1>1, <3>3, <4>1, GrownReadIsOlder, RequestedReadIsOlder DEF RowMoves
    <3>5. s = work'[v].seen /\ (IsPass(v)' => IsPass(v))
      BY <2>2, <3>2 DEF IsPass
    <3> QED  BY <3>3, <3>4, <3>5 DEF ReadIsOlder
  <2>3. CASE /\ transition' = transition /\ work'[v].seen = transition
             /\ work'[v].job = None => transition.status # "active"
    BY <1>1, <2>3, ReadNow DEF ReadIsOlder, IsPass
  <2> QED  BY <1>2, <2>1, <2>2, <2>3 DEF SeenMoves
<1> QED  BY <1>1, <1>2 DEF PassesAreOfSwitches, RowMoves

LEMMA PassesStart == Init => PassesAreOfSwitches /\ Switch!Init
<1> SUFFICES ASSUME Init PROVE PassesAreOfSwitches /\ Switch!Init
  OBVIOUS
<1>1. StatusIsEarned /\ Switch!Init
  BY SwitchStart DEF Init, FreshStore, PublishedStore
<1>2. \A w \in Workers : work[w].seen = None
  BY DEF Init, WorkersIdle, Idle
<1> QED  BY <1>1, <1>2 DEF PassesAreOfSwitches

\* Everything the models' runs check of a reachable state of the publications: locks,
\* rows and targets, what readers find, what lasts of a ready document, and that the
\* passes go on from older rows of open switches.
THEOREM PublicationsInvariant == Spec => []PublicationsInv
<1>1. Init => PublicationsInv
  BY ServingStarts, PassesStart DEF PublicationsInv
<1>2. PublicationsInv /\ [Next]_vars => PublicationsInv'
  <2>1. ServingInv => ReadersInv
    BY DEF ServingInv
  <2> QED  BY <2>1, ServingGoesOn, PassesGoOn DEF PublicationsInv
<1> QED  BY <1>1, <1>2, PTL DEF Spec

\* With jobs that publish and remove, requests and passes of any number of workers
\* around it, the row still goes through one switch at a time, each confirmed step by
\* step and ended in the target that was requested last
\* (_advance_publication_transition, publication_transition_matches).
THEOREM FlowRefinement == Spec => RefinesTargetSwitch
<1>1. PublicationsInv /\ [Next]_vars => [Switch!Next]_(Switch!vars)
  <2> SUFFICES ASSUME PublicationsInv, [Next]_vars
               PROVE  Switch!Next \/ UNCHANGED Switch!vars
    OBVIOUS
  <2>1. ReadersInv /\ PassesAreOfSwitches
    BY DEF PublicationsInv, ServingInv
  <2> QED  BY <2>1, AllMove DEF RowMoves
<1>2. Init => Switch!Init
  BY PassesStart
<1> QED
  BY <1>1, <1>2, PublicationsInvariant, PTL DEF Spec, RefinesTargetSwitch, Switch!Spec
=============================================================================
