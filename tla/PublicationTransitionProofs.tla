--------------------- MODULE PublicationTransitionProofs ---------------------
(***************************************************************************)
(* SwitchInv is an inductive invariant of PublicationTransition, for any   *)
(* number of workers, switches and clean-up errors; the two action         *)
(* properties follow from it, and that the row implements TargetSwitch.    *)
(***************************************************************************)
EXTENDS PublicationTransition, TransitionStoreProofs

-----------------------------------------------------------------------------
(* The inductive invariant. *)

\* In the beginning every switch is closed, and nobody has read anything.
LEMMA SwitchInit == Init => SwitchInv
<1> SUFFICES ASSUME Init PROVE SwitchInv
  OBVIOUS
<1>1. PICK initial \in {"unset", "copilot_connector"} :
        transition = [active |-> initial, desired |-> initial, generation |-> 0,
                      status |-> "active", provisioned |-> FALSE,
                      reindexed |-> FALSE, searched |-> FALSE, asked |-> FALSE,
                      error |-> ""]
  BY DEF Init, TransitionInit
<1>2. 0 \in 0..MaxGeneration /\ 0 \in 0..MaxErrors
  BY GenerationAssumption, SwitchAssumption
<1>3. transition \in Transition
  BY <1>1, <1>2 DEF Transition, Targets, TransitionStatuses
<1>4. TypeOK
  BY <1>2, <1>3 DEF Init, TypeOK, TransitionTypeOK, Evidence
<1>5. ConfirmedForThisGeneration /\ StatusIsEarned
  BY <1>1 DEF ConfirmedForThisGeneration, StatusIsEarned
<1> QED  BY <1>4, <1>5 DEF Init, SwitchInv, PassesReadOlder

\* Where a worker is and what it read, when it goes on or ends its pass.
WorkerMoves(w) ==
    \/ EndPass(w)
    \/ \E label \in {"clean", "remove", "activate"} : pc[w] # "idle" /\ Goto(w, label)

LEMMA MovedWorkersType ==
    ASSUME TypeOK, NEW w \in Workers, WorkerMoves(w)
    PROVE  /\ pc' \in [Workers -> {"idle", "decide", "clean", "remove", "activate"}]
           /\ seen' \in [Workers -> Transition \cup {None}]
           /\ \A v \in Workers : pc'[v] # "idle" => pc[v] # "idle" /\ seen'[v] = seen[v]
<1>1. CASE EndPass(w)
  BY <1>1 DEF TypeOK, EndPass
<1>2. CASE \E label \in {"clean", "remove", "activate"} : pc[w] # "idle" /\ Goto(w, label)
  BY <1>2 DEF TypeOK, Goto
<1> QED  BY <1>1, <1>2 DEF WorkerMoves

\* The part about the row is kept by a step that grows the row; what was read is
\* older still.
LEMMA ReadsKept ==
    ASSUME SwitchInv, Grows \/ UNCHANGED transition,
           \A v \in Workers : pc'[v] # "idle" => pc[v] # "idle" /\ seen'[v] = seen[v]
    PROVE  PassesReadOlder'
<1> SUFFICES ASSUME NEW v \in Workers, pc'[v] # "idle"
             PROVE  /\ seen'[v] \in Transition /\ ReadIsOlder(seen[v])'
                    /\ seen'[v].status # "active"
  BY DEF PassesReadOlder
<1>1. /\ seen'[v] = seen[v] /\ seen[v] \in Transition /\ ReadIsOlder(seen[v])
      /\ seen[v].status # "active"
  BY DEF SwitchInv, PassesReadOlder
<1>2. PICK r \in Transition : r = seen[v]
  BY <1>1
<1>3. ReadIsOlder(r)
  BY <1>1, <1>2
<1>4. ReadIsOlder(r)'
  <2>1. CASE Grows
    BY <1>3, <2>1, GrownReadIsOlder DEF SwitchInv, TypeOK
  <2>2. CASE UNCHANGED transition
    BY <1>3, <2>2 DEF ReadIsOlder
  <2> QED  BY <2>1, <2>2
<1>5. r = seen'[v]
  BY <1>1, <1>2
<1> QED  BY <1>1, <1>2, <1>4, <1>5 DEF ReadIsOlder

LEMMA RequestKeeps ==
    ASSUME SwitchInv, NEW target \in Targets, AdminRequestsTarget(target)
    PROVE  SwitchInv'
<1>1. RequestTarget(target) /\ UNCHANGED <<pc, seen, form, held, evidence, errors>>
  BY DEF AdminRequestsTarget
<1>2. TypeOK /\ TransitionTypeOK
  BY DEF SwitchInv, TypeOK
<1>3. TypeOK'
  BY <1>1, <1>2, RequestBegins DEF TypeOK, TransitionTypeOK
<1>4. ConfirmedForThisGeneration' /\ StatusIsEarned'
  BY <1>1, <1>2, RequestBegins, RequestIsSwitch DEF ConfirmedForThisGeneration
<1>5. PassesReadOlder'
  <2> SUFFICES ASSUME NEW v \in Workers, pc'[v] # "idle"
               PROVE  /\ seen'[v] \in Transition /\ ReadIsOlder(seen[v])'
                      /\ seen'[v].status # "active"
    BY DEF PassesReadOlder
  <2>1. PICK r \in Transition :
          r = seen[v] /\ r = seen'[v] /\ ReadIsOlder(r) /\ r.status # "active"
    BY <1>1 DEF SwitchInv, PassesReadOlder
  <2>2. ReadIsOlder(r)'
    BY <1>1, <1>2, <2>1, RequestedReadIsOlder
  <2> QED  BY <2>1, <2>2 DEF ReadIsOlder
<1> QED  BY <1>3, <1>4, <1>5 DEF SwitchInv

LEMMA OpenFormKeeps ==
    ASSUME SwitchInv, OpenForm
    PROVE  SwitchInv'
<1>1. TypeOK /\ transition \in Transition
  BY DEF SwitchInv, TypeOK, TransitionTypeOK
<1>2. ButtonOf(transition) \in Buttons \cup {None}
  BY <1>1 DEF ButtonOf, Buttons, Transition
<1>3. form' \in Forms
  BY <1>1, <1>2 DEF OpenForm, Forms, Transition
<1>4. TypeOK'
  BY <1>1, <1>3 DEF OpenForm, TypeOK, TransitionTypeOK
<1>5. /\ ConfirmedForThisGeneration' /\ StatusIsEarned'
      /\ UNCHANGED <<transition, pc, seen>>
  BY DEF SwitchInv, OpenForm, ConfirmedForThisGeneration, StatusIsEarned
<1>6. PassesReadOlder'
  BY <1>5, ReadsKept DEF SwitchInv
<1> QED  BY <1>4, <1>5, <1>6 DEF SwitchInv

\* A confirmation is accepted only from a page opened for the running switch.
LEMMA ConfirmationKeeps ==
    ASSUME SwitchInv, form \in Forms, NEW step \in Evidence, Confirm(step)
    PROVE  /\ Grows
           /\ evidence' \in [Evidence -> 0..MaxGeneration]
           /\ ConfirmedForThisGeneration' /\ StatusIsEarned'
<1>1. TypeOK /\ TransitionTypeOK /\ transition \in Transition
  BY DEF SwitchInv, TypeOK, TransitionTypeOK
<1>2. SetReindexRequested(form) \/ SetSearchVerified(form) \/ SetCopilotVerified(form)
  BY DEF Confirm, Evidence
<1>3. /\ Grows
      /\ transition'.active = transition.active
      /\ transition'.provisioned = transition.provisioned
      /\ form.generation = transition.generation
  BY <1>1, <1>2, ConfirmationGrows DEF FormIsCurrent
<1>4. evidence' = [evidence EXCEPT ![step] = transition.generation]
  BY <1>3 DEF Confirm
<1>5. evidence' \in [Evidence -> 0..MaxGeneration]
  BY <1>1, <1>4 DEF TypeOK, Transition
<1>6. StatusIsEarned /\ ConfirmedForThisGeneration
  BY DEF SwitchInv
<1>7. ConfirmedForThisGeneration'
  <2>1. CASE step = "reindex"
    BY <1>1, <1>4, <1>6, <2>1
    DEF Confirm, SetReindexRequested, ConfirmedForThisGeneration, TypeOK, Evidence, Transition
  <2>2. CASE step = "search"
    BY <1>1, <1>4, <1>6, <2>2
    DEF Confirm, SetSearchVerified, ConfirmedForThisGeneration, StatusIsEarned, TypeOK,
        Evidence, Transition
  <2>3. CASE step = "copilot"
    BY <1>1, <1>4, <1>6, <2>3
    DEF Confirm, SetCopilotVerified, ConfirmedForThisGeneration, StatusIsEarned, TypeOK,
        Evidence, Transition
  <2> QED  BY <2>1, <2>2, <2>3 DEF Evidence
<1>8. StatusIsEarned'
  BY <1>1, <1>2, <1>6, ConfirmationIsSwitch
<1> QED  BY <1>3, <1>5, <1>7, <1>8

LEMMA SubmitKeeps ==
    ASSUME SwitchInv, SubmitForm
    PROVE  SwitchInv'
<1>1. TypeOK /\ TransitionTypeOK /\ form \in Forms
  BY DEF SwitchInv, TypeOK, SubmitForm
<1>2. UNCHANGED <<pc, seen, held, errors>> /\ form' = None
  BY DEF SubmitForm
<1>3. /\ Grows \/ UNCHANGED transition
      /\ evidence' \in [Evidence -> 0..MaxGeneration]
      /\ ConfirmedForThisGeneration' /\ StatusIsEarned'
  <2>1. CASE form.button = "provision" /\ SetColumnProvisioned(form) /\ UNCHANGED evidence
    <3>1. Grows
      BY <1>1, <2>1, ProvisionGrows
    <3>2. ConfirmedForThisGeneration'
      BY <1>1, <2>1, ProvisionGrows DEF SwitchInv, ConfirmedForThisGeneration, Grows
    <3>3. StatusIsEarned'
      BY <1>1, <2>1, ProvisionIsSwitch DEF SwitchInv
    <3> QED  BY <1>1, <2>1, <3>1, <3>2, <3>3 DEF TypeOK
  <2>2. CASE \E step \in Evidence : Confirm(step)
    BY <1>1, <2>2, ConfirmationKeeps
  <2>3. CASE UNCHANGED <<transition, evidence>>
    BY <1>1, <2>3 DEF SwitchInv, TypeOK, ConfirmedForThisGeneration, StatusIsEarned
  <2> QED  BY <2>1, <2>2, <2>3 DEF SubmitForm, Accepted
<1>4. TypeOK'
  BY <1>1, <1>2, <1>3 DEF TypeOK, TransitionTypeOK, Grows
<1>5. PassesReadOlder'
  BY <1>2, <1>3, ReadsKept
<1> QED  BY <1>3, <1>4, <1>5 DEF SwitchInv

LEMMA PublishKeeps ==
    ASSUME SwitchInv, Publish
    PROVE  SwitchInv'
<1>1. TypeOK /\ transition \in Transition
  BY DEF SwitchInv, TypeOK, TransitionTypeOK
<1>2. UNCHANGED <<transition, pc, seen, form, evidence, errors>>
  BY DEF Publish
<1>3. PublicationTargets(transition) \subseteq Targets \ {"unset"}
  BY <1>1 DEF PublicationTargets, EffectiveTarget, Transition
<1>4. TypeOK'
  BY <1>1, <1>2, <1>3 DEF Publish, TypeOK, TransitionTypeOK
<1>5. ConfirmedForThisGeneration' /\ StatusIsEarned'
  BY <1>2 DEF SwitchInv, ConfirmedForThisGeneration, StatusIsEarned
<1>6. PassesReadOlder'
  BY <1>2, ReadsKept
<1> QED  BY <1>4, <1>5, <1>6 DEF SwitchInv

-----------------------------------------------------------------------------
(* The worker's pass. *)

\* The confirmations stay as they are.
NothingConfirmed ==
    /\ transition'.reindexed = transition.reindexed
    /\ transition'.searched = transition.searched
    /\ transition'.asked = transition.asked

\* What is left to show of a step of a worker: the row's new status is earned.
LEMMA PassKeeps ==
    ASSUME SwitchInv, NEW w \in Workers, WorkerMoves(w),
           UNCHANGED <<form, evidence>>, held' \subseteq Targets \ {"unset"},
           errors' \in 0..MaxErrors,
           UNCHANGED transition \/ (Grows /\ NothingConfirmed /\ StatusIsEarned')
    PROVE  SwitchInv'
<1>1. TypeOK
  BY DEF SwitchInv
<1>2. transition' \in Transition
  BY <1>1 DEF TypeOK, TransitionTypeOK, Grows
<1>3. TypeOK'
  BY <1>1, <1>2, MovedWorkersType DEF TypeOK, TransitionTypeOK
<1>4. StatusIsEarned'
  BY DEF SwitchInv, StatusIsEarned
<1>5. ConfirmedForThisGeneration'
  BY DEF SwitchInv, ConfirmedForThisGeneration, Grows, NothingConfirmed
<1>6. PassesReadOlder'
  BY <1>1, MovedWorkersType, ReadsKept
<1> QED  BY <1>3, <1>4, <1>5, <1>6 DEF SwitchInv

LEMMA ReadKeeps ==
    ASSUME SwitchInv, NEW w \in Workers, Read(w)
    PROVE  SwitchInv'
<1>1. TypeOK /\ transition \in Transition
  BY DEF SwitchInv, TypeOK, TransitionTypeOK
<1>2. TypeOK'
  BY <1>1 DEF Read, TypeOK, TransitionTypeOK
<1>3. ConfirmedForThisGeneration' /\ StatusIsEarned'
  BY DEF SwitchInv, Read, ConfirmedForThisGeneration, StatusIsEarned
<1>4. PassesReadOlder'
  <2> SUFFICES ASSUME NEW v \in Workers, pc'[v] # "idle"
               PROVE  /\ seen'[v] \in Transition /\ ReadIsOlder(seen[v])'
                      /\ seen'[v].status # "active"
    BY DEF PassesReadOlder
  <2>1. CASE v = w
    <3>1. /\ seen'[v] = transition /\ transition' = transition
          /\ transition.status # "active"
      BY <1>1, <2>1 DEF Read, TypeOK
    <3>2. ReadIsOlder(transition)
      BY <1>1, ReadNow DEF TypeOK
    <3> QED  BY <1>1, <3>1, <3>2 DEF ReadIsOlder
  <2>2. CASE v # w
    <3>1. /\ pc[v] # "idle" /\ seen'[v] = seen[v] /\ transition' = transition
      BY <1>1, <2>2 DEF Read, TypeOK
    <3> QED  BY <3>1 DEF SwitchInv, PassesReadOlder, ReadIsOlder
  <2> QED  BY <2>1, <2>2
<1> QED  BY <1>2, <1>3, <1>4 DEF SwitchInv

\* set_transition_status, for a status that what was read has earned.
LEMMA SetStatusIsEarned ==
    ASSUME SwitchInv, NEW w \in Workers, pc[w] # "idle",
           NEW status \in TransitionStatuses \ {"active"},
           NEW error \in {"", "not_provisioned", "cleanup"},
           SetTransitionStatus(seen[w], status, error),
           status \in {"awaiting_reindex", "awaiting_search", "awaiting_copilot"}
             => seen[w].desired = "sharepoint_column" /\ seen[w].provisioned,
           status = "awaiting_search" => seen[w].reindexed,
           status = "awaiting_copilot" => seen[w].reindexed /\ seen[w].searched,
           status = "cleaning" /\ seen[w].desired = "sharepoint_column"
             => FullyConfirmed(seen[w])
    PROVE  Grows /\ NothingConfirmed /\ StatusIsEarned' /\ UNCHANGED Switch!vars
<1>1. TransitionTypeOK /\ StatusIsEarned
  BY DEF SwitchInv, TypeOK
<1>2. seen[w] \in Transition /\ ReadIsOlder(seen[w]) /\ seen[w].status # "active"
  BY DEF SwitchInv, PassesReadOlder
<1> QED  BY <1>1, <1>2, StatusIsSwitch DEF NothingConfirmed

LEMMA ColumnMissingKeeps ==
    ASSUME SwitchInv, NEW w \in Workers, ColumnMissing(w)
    PROVE  SwitchInv'
<1>1. /\ pc[w] # "idle" /\ WorkerMoves(w)
      /\ UNCHANGED <<form, held, evidence, errors>>
      /\ SetTransitionStatus(seen[w], "failed", "not_provisioned") \/ UNCHANGED transition
  BY DEF ColumnMissing, SetAndEnd, WorkerMoves
<1>2. UNCHANGED transition \/ (Grows /\ NothingConfirmed /\ StatusIsEarned')
  <2>1. CASE SetTransitionStatus(seen[w], "failed", "not_provisioned")
    <3>1. "failed" \in TransitionStatuses \ {"active"}
      BY DEF TransitionStatuses
    <3> QED  BY <1>1, <2>1, <3>1, SetStatusIsEarned
  <2> QED  BY <1>1, <2>1
<1> QED  BY <1>1, <1>2, PassKeeps DEF SwitchInv, TypeOK

\* The pass goes on to the next step the row it read is waiting for.
LEMMA DocumentsCurrentKeeps ==
    ASSUME SwitchInv, NEW w \in Workers, DocumentsCurrent(w)
    PROVE  SwitchInv'
<1> DEFINE s == seen[w]
<1>1. /\ pc[w] # "idle" /\ ~NeedsColumn(s)
      /\ UNCHANGED <<form, held, evidence, errors>>
  BY DEF DocumentsCurrent
<1>2. s \in Transition
  BY <1>1 DEF SwitchInv, PassesReadOlder
<1>3. /\ WorkerMoves(w)
      /\ UNCHANGED transition \/ (Grows /\ NothingConfirmed /\ StatusIsEarned')
  <2>1. CASE Goto(w, "clean") /\ UNCHANGED transition
    BY <1>1, <2>1 DEF WorkerMoves
  <2>2. CASE EndPass(w) /\ UNCHANGED transition
    BY <2>2 DEF WorkerMoves
  <2>3. CASE /\ AwaitedStatus(s) # None
             /\ SetTransitionStatus(s, AwaitedStatus(s), "")
             /\ EndPass(w)
    <3>1. /\ s.desired = "sharepoint_column" /\ s.provisioned
          /\ AwaitedStatus(s) \in {"awaiting_reindex", "awaiting_search", "awaiting_copilot"}
          /\ AwaitedStatus(s) = "awaiting_search" => s.reindexed
          /\ AwaitedStatus(s) = "awaiting_copilot" => s.reindexed /\ s.searched
      BY <1>1, <1>2, <2>3 DEF AwaitedStatus, NeedsColumn, Transition
    <3>2. /\ AwaitedStatus(s) \in TransitionStatuses \ {"active"}
          /\ AwaitedStatus(s) # "cleaning"
      BY <3>1 DEF TransitionStatuses
    <3>3. PICK status \in TransitionStatuses \ {"active"} : status = AwaitedStatus(s)
      BY <3>2
    <3>4. SetTransitionStatus(s, status, "")
      BY <2>3, <3>3
    <3>5. Grows /\ NothingConfirmed /\ StatusIsEarned'
      BY <1>1, <3>1, <3>2, <3>3, <3>4, SetStatusIsEarned
    <3>6. WorkerMoves(w)
      BY <2>3 DEF WorkerMoves
    <3> QED  BY <3>5, <3>6
  <2>4. CASE /\ AwaitedStatus(s) = None
             /\ SetTransitionStatus(s, "cleaning", "")
             /\ Goto(w, "clean")
    <3>1. s.desired = "sharepoint_column" => FullyConfirmed(s)
      BY <1>1, <1>2, <2>4, SwitchAssumption
      DEF AwaitedStatus, NeedsColumn, FullyConfirmed, Transition, TransitionStatuses
    <3>2. "cleaning" \in TransitionStatuses \ {"active"}
      BY DEF TransitionStatuses
    <3>3. Grows /\ NothingConfirmed /\ StatusIsEarned'
      BY <1>1, <2>4, <3>1, <3>2, SetStatusIsEarned
    <3>4. WorkerMoves(w)
      BY <1>1, <2>4 DEF WorkerMoves
    <3> QED  BY <3>3, <3>4
  <2>5. CASE IsRollback(s)
    BY <2>1, <2>5 DEF DocumentsCurrent
  <2>6. CASE ~IsRollback(s) /\ AwaitedStatus(s) # None
    BY <2>2, <2>3, <2>6 DEF DocumentsCurrent, SetAndEnd
  <2>7. CASE ~IsRollback(s) /\ AwaitedStatus(s) = None
    BY <2>2, <2>4, <2>7 DEF DocumentsCurrent
  <2> QED  BY <2>5, <2>6, <2>7
<1> QED  BY <1>1, <1>3, PassKeeps DEF SwitchInv, TypeOK

LEMMA RemovalKeeps ==
    ASSUME SwitchInv, NEW w \in Workers,
           CheckBeforeRemoval(w) \/ RemovePublications(w) \/ CleanedUp(w)
    PROVE  SwitchInv'
<1>1. WorkerMoves(w) /\ UNCHANGED <<transition, form, evidence, errors>>
  BY DEF CheckBeforeRemoval, RemovePublications, CleanedUp, WorkerMoves
<1>2. held' \subseteq Targets \ {"unset"}
  BY DEF SwitchInv, TypeOK, CheckBeforeRemoval, RemovePublications, CleanedUp
<1> QED  BY <1>1, <1>2, PassKeeps DEF SwitchInv, TypeOK

LEMMA RemovalFailsKeeps ==
    ASSUME SwitchInv, NEW w \in Workers, RemovalFails(w)
    PROVE  SwitchInv'
<1>1. /\ WorkerMoves(w) /\ UNCHANGED <<form, held, evidence>>
      /\ errors < MaxErrors /\ errors' = errors + 1
  BY DEF RemovalFails, WorkerMoves
<1>2. errors' \in 0..MaxErrors
  BY <1>1, SwitchAssumption DEF SwitchInv, TypeOK
<1>3. UNCHANGED transition \/ (Grows /\ NothingConfirmed /\ StatusIsEarned')
  <2>1. CASE transition' = [transition EXCEPT !.status = "failed", !.error = "cleanup"]
    <3>1. "failed" \in TransitionStatuses
      BY DEF TransitionStatuses
    <3>2. Grows /\ NothingConfirmed /\ transition'.status = "failed"
      BY <2>1, <3>1, StatusGrows DEF SwitchInv, TypeOK, NothingConfirmed
    <3> QED  BY <3>2 DEF StatusIsEarned
  <2> QED  BY <2>1 DEF RemovalFails
<1> QED  BY <1>1, <1>2, <1>3, PassKeeps DEF SwitchInv, TypeOK

LEMMA ActivateKeeps ==
    ASSUME SwitchInv, NEW w \in Workers, Activate(w)
    PROVE  SwitchInv'
<1>1. WorkerMoves(w) /\ UNCHANGED <<form, held, evidence, errors>>
  BY DEF Activate, WorkerMoves
<1>2. UNCHANGED transition \/ (Grows /\ NothingConfirmed /\ StatusIsEarned')
  <2>1. CASE ActivateTarget(seen[w])
    BY <2>1, ActivationGrows, ActivationIsSwitch DEF SwitchInv, TypeOK, NothingConfirmed
  <2> QED  BY <2>1 DEF Activate
<1> QED  BY <1>1, <1>2, PassKeeps DEF SwitchInv, TypeOK

LEMMA EndOfPassKeeps ==
    ASSUME SwitchInv, NEW w \in Workers,
           DocumentsBehind(w) \/ ActivationRefused(w) \/ Crash(w)
    PROVE  SwitchInv'
<1>1. WorkerMoves(w) /\ UNCHANGED <<transition, form, held, evidence>>
  BY DEF DocumentsBehind, ActivationRefused, Crash, WorkerMoves
<1>2. errors' \in 0..MaxErrors
  BY SwitchAssumption DEF SwitchInv, TypeOK, DocumentsBehind, ActivationRefused, Crash
<1> QED  BY <1>1, <1>2, PassKeeps DEF SwitchInv, TypeOK

-----------------------------------------------------------------------------
(* The theorems. *)

\* Every reachable state satisfies the inductive invariant: the row, the passes and
\* the pages are typed, every confirmation is of the running switch, the status is
\* earned, and no row a worker holds is ahead of the table
\* (publication_transition_matches, expected_generation).
THEOREM SwitchInvariant == Spec => []SwitchInv
<1>1. Init => SwitchInv
  BY SwitchInit
<1>2. SwitchInv /\ [Next]_vars => SwitchInv'
  <2> SUFFICES ASSUME SwitchInv, [Next]_vars PROVE SwitchInv'
    OBVIOUS
  <2>1. ASSUME NEW target \in Targets, AdminRequestsTarget(target) PROVE SwitchInv'
    BY <2>1, RequestKeeps
  <2>2. CASE OpenForm
    BY <2>2, OpenFormKeeps
  <2>3. CASE SubmitForm
    BY <2>3, SubmitKeeps
  <2>4. CASE Publish
    BY <2>4, PublishKeeps
  <2>5. ASSUME NEW w \in Workers, Read(w) PROVE SwitchInv'
    BY <2>5, ReadKeeps
  <2>6. ASSUME NEW w \in Workers, ColumnMissing(w) PROVE SwitchInv'
    BY <2>6, ColumnMissingKeeps
  <2>7. ASSUME NEW w \in Workers,
               CheckBeforeRemoval(w) \/ RemovePublications(w) \/ CleanedUp(w)
        PROVE  SwitchInv'
    BY <2>7, RemovalKeeps
  <2>8. ASSUME NEW w \in Workers, DocumentsCurrent(w) PROVE SwitchInv'
    BY <2>8, DocumentsCurrentKeeps
  <2>9. ASSUME NEW w \in Workers, RemovalFails(w) PROVE SwitchInv'
    BY <2>9, RemovalFailsKeeps
  <2>10. ASSUME NEW w \in Workers, Activate(w) PROVE SwitchInv'
    BY <2>10, ActivateKeeps
  <2>11. ASSUME NEW w \in Workers, DocumentsBehind(w) \/ ActivationRefused(w) \/ Crash(w)
         PROVE  SwitchInv'
    BY <2>11, EndOfPassKeeps
  <2>12. CASE UNCHANGED vars
    BY <2>12 DEF vars, SwitchInv, TypeOK, TransitionTypeOK, ConfirmedForThisGeneration,
                 StatusIsEarned, FullyConfirmed, PassesReadOlder, ReadIsOlder
  <2> QED  BY <2>1, <2>2, <2>3, <2>4, <2>5, <2>6, <2>7, <2>8, <2>9, <2>10, <2>11, <2>12
           DEF Next, Progress
<1> QED  BY <1>1, <1>2, PTL DEF Spec

\* Every confirmation the row carries was given for the transition the row is at
\* (expected_generation in set_*_verified).
THEOREM ConfirmationsAreOfThisSwitch == Spec => []ConfirmedForThisGeneration
<1>1. SwitchInv => ConfirmedForThisGeneration
  BY DEF SwitchInv
<1> QED  BY <1>1, SwitchInvariant, PTL

\* Whoever activates the column, from however old a row, finds it provisioned and
\* every step confirmed (activate_publication_target).
THEOREM ColumnIsActivatedWhenConfirmed == Spec => ColumnActivatedWhenConfirmed
<1> DEFINE Activates == /\ transition'.active = "sharepoint_column"
                        /\ transition.active # "sharepoint_column"
<1>1. SwitchInv /\ [Next]_vars => (Activates => FullyConfirmed(transition))
  <2> SUFFICES ASSUME SwitchInv, [Next]_vars, Activates PROVE FullyConfirmed(transition)
    OBVIOUS
  <2>1. TransitionTypeOK /\ transition \in Transition
    BY DEF SwitchInv, TypeOK, TransitionTypeOK
  <2>2. PICK w \in Workers : ActivateTarget(seen[w])
    <3>1. ASSUME NEW target \in Targets, RequestTarget(target) PROVE FALSE
      BY <2>1, <3>1, RequestBegins
    <3>2. ASSUME SubmitForm PROVE UNCHANGED transition \/ transition'.active = transition.active
      BY <2>1, <3>2, ProvisionGrows, ConfirmationGrows DEF SubmitForm, Accepted, Confirm, Evidence
    <3>3. ASSUME NEW s, NEW status, NEW error, SetTransitionStatus(s, status, error)
          PROVE  transition'.active = transition.active
      BY <2>1, <3>3 DEF SetTransitionStatus, Transition
    <3>4. ASSUME NEW w \in Workers, RemovalFails(w) PROVE transition'.active = transition.active
      BY <2>1, <3>4 DEF RemovalFails, Transition
    <3>5. ASSUME NEW w \in Workers, ColumnMissing(w) \/ DocumentsCurrent(w)
          PROVE  transition'.active = transition.active
      BY <3>3, <3>5 DEF ColumnMissing, DocumentsCurrent, SetAndEnd
    <3> QED  BY <3>1, <3>2, <3>4, <3>5
             DEF Next, Progress, AdminRequestsTarget, OpenForm, Publish, Read, DocumentsBehind,
                 CheckBeforeRemoval, RemovePublications, CleanedUp, Activate,
                 ActivationRefused, Crash, vars
  <2>3. transition.status = "cleaning" /\ transition.desired = "sharepoint_column"
    BY <2>1, <2>2, ActivationGrows DEF ActivateTarget, Matches
  <2> QED  BY <2>3 DEF SwitchInv, StatusIsEarned
<1>2. SwitchInv /\ [Next]_vars => [Activates => FullyConfirmed(transition)]_vars
  BY <1>1
<1> QED  BY <1>2, SwitchInvariant, PTL DEF Spec, ColumnActivatedWhenConfirmed

\* A worker sets out to remove the active target's publications only when the new
\* target is wanted still and confirmed (_advance_publication_transition).
THEOREM PreviousTargetIsKept == Spec => PreviousTargetKept
<1> DEFINE Kept(w) ==
        /\ transition.desired \notin ToClean(seen[w])
        /\ (/\ transition.active \in ToClean(seen[w])
            /\ transition.desired = "sharepoint_column") => FullyConfirmed(transition)
           Removes(w) == pc[w] = "clean" /\ pc'[w] = "remove"
<1>1. SwitchInv /\ [Next]_vars => \A w \in Workers : Removes(w) => Kept(w)
  <2> SUFFICES ASSUME SwitchInv, [Next]_vars, NEW w \in Workers, Removes(w) PROVE Kept(w)
    OBVIOUS
  <2>1. TypeOK
    BY DEF SwitchInv
  <2>2. CheckBeforeRemoval(w)
    BY <2>1 DEF TypeOK, Next, Progress, AdminRequestsTarget, OpenForm, SubmitForm, Publish,
                Read, ColumnMissing, SetAndEnd, DocumentsBehind, DocumentsCurrent,
                CheckBeforeRemoval, RemovePublications, RemovalFails, CleanedUp, Activate,
                ActivationRefused, Crash, EndPass, Goto, vars
  <2>3. /\ seen[w].desired \notin ToClean(seen[w])
        /\ Matches(seen[w], "cleaning")
    BY <2>1, <2>2 DEF CheckBeforeRemoval, EndPass, TypeOK
  <2> QED  BY <2>3 DEF Matches, SwitchInv, StatusIsEarned
<1>2. SwitchInv /\ [Next]_vars => [\A w \in Workers : Removes(w) => Kept(w)]_vars
  BY <1>1
<1> QED  BY <1>2, SwitchInvariant, PTL DEF Spec, PreviousTargetKept

-----------------------------------------------------------------------------
(* The row goes through switches as TargetSwitch describes them. *)

LEMMA PassStutters ==
    ASSUME SwitchInv, NEW w \in Workers, ColumnMissing(w) \/ DocumentsCurrent(w)
    PROVE  UNCHANGED Switch!vars
<1> DEFINE s == seen[w]
<1>1. /\ TransitionTypeOK /\ s \in Transition /\ s.status # "active"
  BY DEF SwitchInv, TypeOK, PassesReadOlder, ColumnMissing, DocumentsCurrent
<1>2. AwaitedStatus(s) # None => AwaitedStatus(s) \in TransitionStatuses \ {"active"}
  BY <1>1 DEF AwaitedStatus, Transition, TransitionStatuses
<1>3. "failed" \in TransitionStatuses \ {"active"} /\ "cleaning" \in TransitionStatuses \ {"active"}
  BY DEF TransitionStatuses
<1>4. ASSUME NEW status \in TransitionStatuses \ {"active"},
             SetTransitionStatus(s, status, "") \/ SetTransitionStatus(s, status, "not_provisioned")
      PROVE  UNCHANGED Switch!vars
  BY <1>1, <1>4, StatusStutters
<1>5. CASE ColumnMissing(w)
  BY <1>3, <1>4, <1>5, NothingIsSwitch DEF ColumnMissing, SetAndEnd
<1>6. CASE DocumentsCurrent(w)
  <2>1. CASE IsRollback(s)
    BY <1>6, <2>1, NothingIsSwitch DEF DocumentsCurrent
  <2>2. CASE ~IsRollback(s) /\ AwaitedStatus(s) # None
    <3>1. PICK status \in TransitionStatuses \ {"active"} : status = AwaitedStatus(s)
      BY <1>2, <2>2
    <3>2. SetTransitionStatus(s, status, "") \/ UNCHANGED transition
      BY <1>6, <2>2, <3>1 DEF DocumentsCurrent, SetAndEnd
    <3> QED  BY <1>4, <3>2, NothingIsSwitch
  <2>3. CASE ~IsRollback(s) /\ AwaitedStatus(s) = None
    <3>1. SetTransitionStatus(s, "cleaning", "") \/ UNCHANGED transition
      BY <1>6, <2>3 DEF DocumentsCurrent
    <3> QED  BY <1>3, <1>4, <3>1, NothingIsSwitch
  <2> QED  BY <2>1, <2>2, <2>3
<1> QED  BY <1>5, <1>6

LEMMA SwitchSteps ==
    ASSUME SwitchInv, [Next]_vars
    PROVE  Switch!Next \/ UNCHANGED Switch!vars
<1>1. TransitionTypeOK /\ StatusIsEarned
  BY DEF SwitchInv, TypeOK
<1>2. ASSUME NEW target \in Targets, AdminRequestsTarget(target) PROVE Switch!Next
  BY <1>1, <1>2, RequestIsSwitch DEF AdminRequestsTarget
<1>3. CASE SubmitForm
  <2>1. \/ SetColumnProvisioned(form)
        \/ SetReindexRequested(form) \/ SetSearchVerified(form) \/ SetCopilotVerified(form)
        \/ UNCHANGED transition
    BY <1>3 DEF SubmitForm, Accepted, Confirm, Evidence
  <2> QED  BY <1>1, <2>1, ProvisionIsSwitch, ConfirmationIsSwitch, NothingIsSwitch
<1>4. ASSUME NEW w \in Workers, RemovalFails(w) PROVE UNCHANGED Switch!vars
  BY <1>1, <1>4, FailureIsSwitch, NothingIsSwitch DEF RemovalFails, Matches
<1>5. ASSUME NEW w \in Workers, Activate(w) PROVE Switch!Next \/ UNCHANGED Switch!vars
  BY <1>1, <1>5, ActivationIsSwitch, NothingIsSwitch DEF Activate
<1>6. ASSUME NEW w \in Workers, ColumnMissing(w) \/ DocumentsCurrent(w)
      PROVE  UNCHANGED Switch!vars
  BY <1>6, PassStutters
<1>7. ASSUME NEW w \in Workers,
             \/ Read(w) \/ CheckBeforeRemoval(w) \/ RemovePublications(w) \/ CleanedUp(w)
             \/ DocumentsBehind(w) \/ ActivationRefused(w) \/ Crash(w)
      PROVE  UNCHANGED transition
  BY <1>7 DEF Read, CheckBeforeRemoval, RemovePublications, CleanedUp, DocumentsBehind,
              ActivationRefused, Crash
<1>8. OpenForm \/ Publish \/ UNCHANGED vars => UNCHANGED transition
  BY DEF OpenForm, Publish, vars
<1> QED
  BY <1>2, <1>3, <1>4, <1>5, <1>6, <1>7, <1>8, NothingIsSwitch DEF Next, Progress

\* The row, under stale pages, passes that read it long ago, failures and deaths, goes
\* through one switch at a time, each confirmed step by step and ended in the target
\* that was requested last (publication_transition_matches, expected_generation).
THEOREM TransitionRefinement == Spec => RefinesTargetSwitch
<1>1. Init => Switch!Init
  BY SwitchStart DEF Init
<1>2. SwitchInv /\ [Next]_vars => [Switch!Next]_(Switch!vars)
  BY SwitchSteps
<1> QED
  BY <1>1, <1>2, SwitchInvariant, PTL DEF Spec, RefinesTargetSwitch, Switch!Spec
=============================================================================
