--------------------------- MODULE TransitionStore ---------------------------
(***************************************************************************)
(* The single row of the publication_transitions table and the repository  *)
(* transactions that change it.  Every update is one UPDATE ... WHERE with *)
(* the expected values in its condition (_set_transition_values); where    *)
(* the code reads the row, decides and then updates on exactly what it     *)
(* decided on, the two make one transaction here.                          *)
(***************************************************************************)
EXTENDS Naturals

CONSTANT MaxGeneration     \* bound: how often the administrator may switch

ASSUME GenerationAssumption == MaxGeneration \in Nat

VARIABLE transition

Targets == {"unset", "sharepoint_column", "copilot_connector"}

TransitionStatuses ==
    {"active", "staging", "awaiting_reindex", "awaiting_search",
     "awaiting_copilot", "cleaning", "failed"}

Transition ==
    [active      : Targets,
     desired     : Targets,
     generation  : 0..MaxGeneration,
     status      : TransitionStatuses,
     provisioned : BOOLEAN,
     reindexed   : BOOLEAN,
     searched    : BOOLEAN,
     asked       : BOOLEAN,
     error       : {"", "not_provisioned", "cleanup"}]

TransitionTypeOK == transition \in Transition

\* _ensure_publication_transition: a fresh install or one that only knew the
\* connector.
TransitionInit ==
    \E initial \in {"unset", "copilot_connector"} :
        transition = [active |-> initial, desired |-> initial, generation |-> 0,
                      status |-> "active", provisioned |-> FALSE,
                      reindexed |-> FALSE, searched |-> FALSE, asked |-> FALSE,
                      error |-> ""]

\* The target that jobs publish to.
EffectiveTarget(t) ==
    IF t.status = "active" \/ (t.desired = "sharepoint_column" /\ ~t.provisioned)
    THEN t.active
    ELSE t.desired

\* Mutant: only the status is compared.
MatchesStatusOnly(seen, status) == transition.status = status

\* publication_transition_matches: four columns of a row read earlier.
Matches(seen, status) ==
    /\ transition.generation = seen.generation
    /\ transition.active = seen.active
    /\ transition.desired = seen.desired
    /\ transition.status = status

-----------------------------------------------------------------------------
(* The administrator's transactions. *)

RequestTarget(target) ==
    /\ ~(target = transition.desired /\ transition.status # "failed")
    /\ transition.generation < MaxGeneration
    /\ transition' =
         [transition EXCEPT
             !.desired = target,
             !.generation = @ + 1,
             !.status = IF target = transition.active THEN "cleaning" ELSE "staging",
             !.reindexed = FALSE, !.searched = FALSE, !.asked = FALSE,
             !.error = ""]

\* Mutant: the form's generation is not compared.
FormIsForTarget(form) == form.desired = transition.desired

\* The generation and target a form was opened with.
FormIsCurrent(form) ==
    /\ form.generation = transition.generation
    /\ form.desired = transition.desired

\* Only ever called to say that the column exists.
SetColumnProvisioned(form) ==
    /\ FormIsCurrent(form)
    /\ transition.desired = "sharepoint_column"
    /\ ~transition.provisioned
    /\ transition' = [transition EXCEPT
                         !.provisioned = TRUE,
                         !.status = IF transition.active = transition.desired
                                    THEN @ ELSE "staging",
                         !.error = ""]

SetReindexRequested(form) ==
    /\ FormIsCurrent(form)
    /\ transition.status = "awaiting_reindex"
    /\ transition' = [transition EXCEPT !.reindexed = TRUE, !.status = "awaiting_search"]

SetSearchVerified(form) ==
    /\ FormIsCurrent(form)
    /\ transition.status = "awaiting_search"
    /\ transition' = [transition EXCEPT !.searched = TRUE, !.status = "awaiting_copilot"]

SetCopilotVerified(form) ==
    /\ FormIsCurrent(form)
    /\ transition.status = "awaiting_copilot"
    /\ transition' = [transition EXCEPT !.asked = TRUE, !.status = "cleaning"]

-----------------------------------------------------------------------------
(* The worker's transactions, conditional on the row it read. *)

SetTransitionStatus(seen, status, error) ==
    /\ Matches(seen, seen.status)
    /\ transition' = [transition EXCEPT !.status = status, !.error = error]

\* Mutant: the activation leaves the transition open under a status of its own.
ActivateAsCompleted(seen) ==
    /\ Matches(seen, "cleaning")
    /\ transition' = [transition EXCEPT !.active = transition.desired,
                                        !.status = "completed", !.error = ""]

\* The worker reads "seen" at any status; the update asks for "cleaning".
ActivateTarget(seen) ==
    /\ Matches(seen, "cleaning")
    /\ transition' = [transition EXCEPT !.active = transition.desired,
                                        !.status = "active", !.error = ""]

-----------------------------------------------------------------------------
(* What a switch promises, and why the row keeps it. *)

FullyConfirmed(t) == t.provisioned /\ t.reindexed /\ t.searched /\ t.asked

\* The column is there when a step of the switch is waited for, each step comes after
\* the one before it, and the clean-up that ends in the column after all of them.
StatusIsEarned ==
    /\ transition.status = "active" => transition.active = transition.desired
    /\ transition.status \in {"awaiting_reindex", "awaiting_search", "awaiting_copilot"}
         => transition.desired = "sharepoint_column" /\ transition.provisioned
    /\ transition.status = "awaiting_search" => transition.reindexed
    /\ transition.status = "awaiting_copilot" => transition.reindexed /\ transition.searched
    /\ (/\ transition.status = "cleaning"
        /\ transition.desired = "sharepoint_column"
        /\ transition.active # "sharepoint_column") => FullyConfirmed(transition)

\* A row read earlier is of this switch or of an older one, and nothing that was
\* confirmed when it was read has been taken back while the switch lasted.
ReadIsOlder(s) ==
    /\ s.generation <= transition.generation
    /\ s.provisioned => transition.provisioned
    /\ s.generation = transition.generation =>
         /\ s.reindexed => transition.reindexed
         /\ s.searched => transition.searched
         /\ s.asked => transition.asked

ConfirmedSteps(t) ==
    {step \in {"reindex", "search", "copilot"} :
        \/ step = "reindex" /\ t.reindexed
        \/ step = "search" /\ t.searched
        \/ step = "copilot" /\ t.asked}

Switch == INSTANCE TargetSwitch WITH
    active      <- transition.active,
    desired     <- transition.desired,
    generation  <- transition.generation,
    open        <- transition.status # "active",
    provisioned <- transition.provisioned,
    confirmed   <- ConfirmedSteps(transition)

\* Whatever statuses, passes, stale pages and failures there are in between, the row
\* goes through switches as TargetSwitch describes them: one at a time, confirmed
\* step by step, and ended in the target that was requested last
\* (request_publication_target, set_*_verified, activate_publication_target).
RefinesTargetSwitch == Switch!Spec
=============================================================================
