------------------------ MODULE PublicationTransition ------------------------
(***************************************************************************)
(* Switching the publication target: the administrator requests a target   *)
(* and confirms the manual steps through forms that may be stale; several  *)
(* workers advance the transition, each from the row it read at the        *)
(* beginning of its pass (_advance_publication_transition).                *)
(*                                                                         *)
(* Abstracted: the documents.  Whether every document is published to the  *)
(* new target is decided by the environment each time a worker asks, and a *)
(* target's publications are one thing that is there or not.               *)
(***************************************************************************)
EXTENDS TransitionStore

CONSTANTS
    Workers,
    None,          \* no row read, no form open, no status awaited
    MaxErrors      \* bound: how often the clean-up of a target raises

ASSUME SwitchAssumption == MaxErrors \in Nat /\ None \notin TransitionStatuses

VARIABLES
    pc,          \* where each worker is in _advance_publication_transition
    seen,        \* the row it read
    form,        \* the settings page the administrator has open
    held,        \* the targets that hold publications
    evidence,    \* history: the generation each confirmation was given for
    errors

vars == <<transition, pc, seen, form, held, evidence, errors>>

Buttons  == {"provision", "reindex", "search", "copilot"}
Evidence == {"reindex", "search", "copilot"}
Forms    == [generation : 0..MaxGeneration, desired : Targets, button : Buttons]

TypeOK ==
    /\ TransitionTypeOK
    /\ pc \in [Workers -> {"idle", "decide", "clean", "remove", "activate"}]
    /\ seen \in [Workers -> Transition \cup {None}]
    /\ form \in Forms \cup {None}
    /\ held \subseteq Targets \ {"unset"}
    /\ evidence \in [Evidence -> 0..MaxGeneration]
    /\ errors \in 0..MaxErrors

Init ==
    /\ TransitionInit
    /\ pc = [w \in Workers |-> "idle"]
    /\ seen = [w \in Workers |-> None]
    /\ form = None
    /\ held = {}
    /\ evidence = [e \in Evidence |-> 0]
    /\ errors = 0

-----------------------------------------------------------------------------
(* The administrator and the jobs. *)

AdminRequestsTarget(target) ==
    /\ target # "unset"
    /\ RequestTarget(target)
    /\ UNCHANGED <<pc, seen, form, held, evidence, errors>>

\* Mutant: the page has no button for the last confirmation.
ButtonBeforeCopilot(t) ==
    CASE ~t.provisioned -> "provision"
      [] t.provisioned /\ t.status = "awaiting_reindex" -> "reindex"
      [] t.provisioned /\ t.status = "awaiting_search" -> "search"
      [] OTHER -> None

\* The button the settings page shows for the row it was rendered from.
ButtonOf(t) ==
    CASE ~t.provisioned -> "provision"
      [] t.provisioned /\ t.status = "awaiting_reindex" /\ ~t.reindexed -> "reindex"
      [] t.provisioned /\ t.status = "awaiting_search" /\ ~t.searched -> "search"
      [] t.provisioned /\ t.status = "awaiting_copilot" /\ ~t.asked -> "copilot"
      [] OTHER -> None

OpenForm ==
    /\ form = None
    /\ transition.desired = "sharepoint_column"
    /\ ButtonOf(transition) # None
    /\ form' = [generation |-> transition.generation, desired |-> transition.desired,
                button |-> ButtonOf(transition)]
    /\ UNCHANGED <<transition, pc, seen, held, evidence, errors>>

Confirm(step) ==
    /\ form.button = step
    /\ evidence' = [evidence EXCEPT ![step] = form.generation]
    /\ CASE step = "reindex" -> SetReindexRequested(form)
         [] step = "search"  -> SetSearchVerified(form)
         [] step = "copilot" -> SetCopilotVerified(form)

Accepted ==
    \/ form.button = "provision" /\ SetColumnProvisioned(form) /\ UNCHANGED evidence
    \/ \E step \in Evidence : Confirm(step)

Refused ==
    CASE form.button = "provision" -> ~FormIsCurrent(form)
      [] form.button = "reindex" ->
           ~FormIsCurrent(form) \/ transition.status # "awaiting_reindex"
      [] form.button = "search" ->
           ~FormIsCurrent(form) \/ transition.status # "awaiting_search"
      [] form.button = "copilot" ->
           ~FormIsCurrent(form) \/ transition.status # "awaiting_copilot"

\* The form arrives, perhaps long after it was opened: done, or answered 409.
SubmitForm ==
    /\ form # None
    /\ \/ Accepted
       \/ Refused /\ UNCHANGED <<transition, evidence>>
    /\ form' = None
    /\ UNCHANGED <<pc, seen, held, errors>>

\* _publication_targets: where a job that reads the row now publishes.
PublicationTargets(t) ==
    IF EffectiveTarget(t) = "unset" THEN {}
    ELSE IF t.status \notin {"active", "cleaning"} /\ t.active # "unset"
         THEN {t.active, EffectiveTarget(t)}
         ELSE {EffectiveTarget(t)}

Publish ==
    /\ \E target \in PublicationTargets(transition) : held' = held \cup {target}
    /\ UNCHANGED <<transition, pc, seen, form, evidence, errors>>

-----------------------------------------------------------------------------
(* A worker's pass. *)

Goto(w, label) == pc' = [pc EXCEPT ![w] = label] /\ UNCHANGED seen

EndPass(w) ==
    /\ pc' = [pc EXCEPT ![w] = "idle"]
    /\ seen' = [seen EXCEPT ![w] = None]

Read(w) ==
    /\ pc[w] = "idle"
    /\ transition.status # "active"
    /\ seen' = [seen EXCEPT ![w] = transition]
    /\ pc' = [pc EXCEPT ![w] = "decide"]
    /\ UNCHANGED <<transition, form, held, evidence, errors>>

NeedsColumn(t) == t.desired = "sharepoint_column" /\ ~t.provisioned

\* set_transition_status and the end of the pass, whether it took effect or not.
SetAndEnd(w, status, error) ==
    /\ \/ SetTransitionStatus(seen[w], status, error)
       \/ (~Matches(seen[w], seen[w].status) /\ UNCHANGED transition)
    /\ EndPass(w)

ColumnMissing(w) ==
    /\ pc[w] = "decide"
    /\ NeedsColumn(seen[w])
    /\ SetAndEnd(w, "failed", "not_provisioned")
    /\ UNCHANGED <<form, held, evidence, errors>>

\* Some document is not Ready, or not published in this generation yet.
DocumentsBehind(w) ==
    /\ pc[w] = "decide"
    /\ ~NeedsColumn(seen[w])
    /\ EndPass(w)
    /\ UNCHANGED <<transition, form, held, evidence, errors>>

\* Back to the target that is active still.
IsRollback(t) == t.status = "cleaning" /\ t.desired = t.active

\* Mutant: the Copilot answer is not waited for.
AwaitedBeforeCopilot(t) ==
    IF t.desired # "sharepoint_column" THEN None
    ELSE IF ~t.reindexed THEN "awaiting_reindex"
    ELSE IF ~t.searched THEN "awaiting_search"
    ELSE None

\* The step an administrator has to confirm next, if any.
AwaitedStatus(t) ==
    CASE t.desired # "sharepoint_column" -> None
      [] t.desired = "sharepoint_column" /\ ~t.reindexed -> "awaiting_reindex"
      [] t.desired = "sharepoint_column" /\ t.reindexed /\ ~t.searched -> "awaiting_search"
      [] t.desired = "sharepoint_column" /\ t.reindexed /\ t.searched /\ ~t.asked ->
           "awaiting_copilot"
      [] OTHER -> None

DocumentsCurrent(w) ==
    /\ pc[w] = "decide"
    /\ ~NeedsColumn(seen[w])
    /\ CASE IsRollback(seen[w]) -> Goto(w, "clean") /\ UNCHANGED transition
         [] ~IsRollback(seen[w]) /\ AwaitedStatus(seen[w]) # None ->
              SetAndEnd(w, AwaitedStatus(seen[w]), "")
         [] OTHER ->
              \/ SetTransitionStatus(seen[w], "cleaning", "") /\ Goto(w, "clean")
              \/ /\ ~Matches(seen[w], seen[w].status)
                 /\ UNCHANGED transition
                 /\ EndPass(w)
    /\ UNCHANGED <<form, held, evidence, errors>>

\* The targets whose publications this pass removes.
ToClean(t) ==
    IF IsRollback(t) THEN Targets \ {"unset", t.active}
    ELSE {t.active} \ {"unset"}

\* Before each publication: is this still the transition the pass began with?
CheckBeforeRemoval(w) ==
    /\ pc[w] = "clean"
    /\ ToClean(seen[w]) \cap held # {}
    /\ seen[w].desired \notin ToClean(seen[w])
    /\ IF Matches(seen[w], "cleaning") THEN Goto(w, "remove") ELSE EndPass(w)
    /\ UNCHANGED <<transition, form, held, evidence, errors>>

RemovePublications(w) ==
    /\ pc[w] = "remove"
    /\ held' = held \ ToClean(seen[w])
    /\ Goto(w, "clean")
    /\ UNCHANGED <<transition, form, evidence, errors>>

\* The remote deletion raises one of KNOWN_PROCESSING_ERRORS.
RemovalFails(w) ==
    /\ pc[w] = "remove"
    /\ errors < MaxErrors
    /\ errors' = errors + 1
    /\ IF Matches(seen[w], "cleaning")
       THEN transition' = [transition EXCEPT !.status = "failed", !.error = "cleanup"]
       ELSE UNCHANGED transition
    /\ EndPass(w)
    /\ UNCHANGED <<form, held, evidence>>

\* Nothing is left to remove, or the previous target is the desired one.
CleanedUp(w) ==
    /\ pc[w] = "clean"
    /\ ToClean(seen[w]) \cap held = {} \/ seen[w].desired \in ToClean(seen[w])
    /\ IF Matches(seen[w], "cleaning") /\ seen[w].desired \notin ToClean(seen[w])
       THEN Goto(w, "activate")
       ELSE EndPass(w)
    /\ UNCHANGED <<transition, form, held, evidence, errors>>

Activate(w) ==
    /\ pc[w] = "activate"
    /\ \/ ActivateTarget(seen[w])
       \/ ~Matches(seen[w], "cleaning") /\ UNCHANGED transition
    /\ EndPass(w)
    /\ UNCHANGED <<form, held, evidence, errors>>

\* A document is not Ready, or a publication of this generation is pending.
ActivationRefused(w) ==
    /\ pc[w] = "activate"
    /\ EndPass(w)
    /\ UNCHANGED <<transition, form, held, evidence, errors>>

\* The worker is killed or an unexpected error unwinds the pass.
Crash(w) ==
    /\ pc[w] # "idle"
    /\ errors < MaxErrors
    /\ errors' = errors + 1
    /\ EndPass(w)
    /\ UNCHANGED <<transition, form, held, evidence>>

Progress(w) ==
    \/ Read(w)
    \/ ColumnMissing(w)
    \/ CheckBeforeRemoval(w)
    \/ RemovePublications(w)
    \/ CleanedUp(w)

Next ==
    \/ \E target \in Targets : AdminRequestsTarget(target)
    \/ OpenForm
    \/ SubmitForm
    \/ Publish
    \/ \E w \in Workers :
         \/ Progress(w)
         \/ DocumentsBehind(w)
         \/ DocumentsCurrent(w)
         \/ RemovalFails(w)
         \/ Activate(w)
         \/ ActivationRefused(w)
         \/ Crash(w)

Spec == Init /\ [][Next]_vars

\* A running worker goes on with its pass; the documents catch up, so that a
\* worker that asks again and again is told so in the end; the administrator
\* does the manual steps.
Fairness ==
    /\ \A w \in Workers : WF_vars(Progress(w))
    /\ SF_vars(\E w \in Workers : DocumentsCurrent(w))
    /\ SF_vars(\E w \in Workers : Activate(w))
    /\ WF_vars(OpenForm)
    /\ WF_vars(SubmitForm)

FairSpec == Spec /\ Fairness

-----------------------------------------------------------------------------
(* Properties. *)

\* Every confirmation the row carries was given for the transition the row is
\* at, and none without the one before it: a page opened for an earlier switch
\* and submitted late confirms nothing (expected_generation in set_*_verified).
ConfirmedForThisGeneration ==
    /\ transition.reindexed => evidence["reindex"] = transition.generation
    /\ transition.searched =>
         transition.reindexed /\ evidence["search"] = transition.generation
    /\ transition.asked =>
         transition.searched /\ evidence["copilot"] = transition.generation

\* A pass goes on with an older row, of a switch that was open when it was read.
PassesReadOlder ==
    \A w \in Workers : pc[w] # "idle" =>
        seen[w] \in Transition /\ ReadIsOlder(seen[w]) /\ seen[w].status # "active"

\* Why stale pages and workers do no harm: the inductive invariant
\* (publication_transition_matches, expected_generation).
SwitchInv ==
    /\ TypeOK
    /\ ConfirmedForThisGeneration
    /\ StatusIsEarned
    /\ PassesReadOlder

\* The column becomes the active target only when it exists and the reindexing,
\* the search and the Copilot answer were confirmed, whichever worker activates
\* it from however old a row (activate_publication_target).
ColumnActivatedWhenConfirmed ==
    [][transition'.active = "sharepoint_column" /\ transition.active # "sharepoint_column"
         => FullyConfirmed(transition)]_vars

\* "The previous target is kept until the verification is finished": a worker
\* sets out to remove the publications of the active target only when the new
\* one is wanted still and confirmed.
PreviousTargetKept ==
    [][\A w \in Workers :
         pc[w] = "clean" /\ pc'[w] = "remove" =>
             /\ transition.desired \notin ToClean(seen[w])
             /\ (/\ transition.active \in ToClean(seen[w])
                 /\ transition.desired = "sharepoint_column")
                   => FullyConfirmed(transition)]_vars

\* Every switch ends, through rollbacks, stale workers, crashes and clean-ups
\* that fail, when the administrator does his part.
EveryTransitionEnds == transition.status # "active" ~> transition.status = "active"

\* A transition that reports CONTENT_COLUMN_NOT_PROVISIONED has no column.
ColumnFailureMeansNoColumn ==
    transition.error = "not_provisioned" => ~transition.provisioned
=============================================================================
