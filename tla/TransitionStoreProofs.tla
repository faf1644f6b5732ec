------------------------ MODULE TransitionStoreProofs ------------------------
(***************************************************************************)
(* What the transactions of TransitionStore do to the row, for any bound   *)
(* on the switches, and that each is a step of TargetSwitch or none.       *)
(***************************************************************************)
EXTENDS TransitionStore, TLAPS

\* What every transaction but the request of a target leaves alone: within a
\* switch nothing that was confirmed is taken back.
Grows ==
    /\ transition' \in Transition
    /\ transition'.generation = transition.generation
    /\ transition'.desired = transition.desired
    /\ transition.provisioned => transition'.provisioned
    /\ transition.reindexed => transition'.reindexed
    /\ transition.searched => transition'.searched
    /\ transition.asked => transition'.asked

\* A new switch begins with nothing confirmed, and every row read is older.
LEMMA RequestBegins ==
    ASSUME TransitionTypeOK, NEW target \in Targets, RequestTarget(target)
    PROVE  /\ transition' \in Transition
           /\ transition'.generation = transition.generation + 1
           /\ transition'.desired = target
           /\ transition'.active = transition.active
           /\ transition'.provisioned = transition.provisioned
           /\ ~transition'.reindexed /\ ~transition'.searched /\ ~transition'.asked
           /\ transition'.status \in {"staging", "cleaning"}
           /\ transition'.status = "cleaning" => transition'.active = target
<1> DEFINE next == transition.generation + 1
           status == IF target = transition.active THEN "cleaning" ELSE "staging"
<1>1. transition \in Transition
  BY DEF TransitionTypeOK
<1>2. next \in 0..MaxGeneration
  <2>1. transition.generation \in 0..MaxGeneration
    BY <1>1 DEF Transition
  <2>2. transition.generation < MaxGeneration
    BY DEF RequestTarget
  <2> QED  BY <2>1, <2>2, GenerationAssumption
<1>3. /\ status \in {"staging", "cleaning"}
      /\ status \in TransitionStatuses
      /\ status = "cleaning" => transition.active = target
  BY DEF TransitionStatuses
<1>4. transition' = [transition EXCEPT !.desired = target, !.generation = next,
                        !.status = status, !.reindexed = FALSE, !.searched = FALSE,
                        !.asked = FALSE, !.error = ""]
  BY DEF RequestTarget
<1> HIDE DEF next, status
<1>5. /\ transition' \in Transition
      /\ transition'.generation = next
      /\ transition'.desired = target
      /\ transition'.status = status
      /\ transition'.active = transition.active
      /\ transition'.provisioned = transition.provisioned
      /\ ~transition'.reindexed /\ ~transition'.searched /\ ~transition'.asked
  BY <1>1, <1>2, <1>3, <1>4 DEF Transition
<1> QED  BY <1>3, <1>5 DEF next

\* The column is there from now on, for this switch as well.
LEMMA ProvisionGrows ==
    ASSUME TransitionTypeOK, NEW f, SetColumnProvisioned(f)
    PROVE  /\ Grows
           /\ transition'.active = transition.active
           /\ transition'.reindexed = transition.reindexed
           /\ transition'.searched = transition.searched
           /\ transition'.asked = transition.asked
           /\ transition'.status \in {"staging", transition.status}
BY DEF TransitionTypeOK, Transition, TransitionStatuses, SetColumnProvisioned, Grows

\* A confirmation sets its own column only, and moves the status on by one.
LEMMA ConfirmationGrows ==
    ASSUME TransitionTypeOK, NEW f,
           SetReindexRequested(f) \/ SetSearchVerified(f) \/ SetCopilotVerified(f)
    PROVE  /\ Grows
           /\ transition'.active = transition.active
           /\ transition'.provisioned = transition.provisioned
           /\ FormIsCurrent(f)
BY DEF TransitionTypeOK, Transition, TransitionStatuses, Grows,
       SetReindexRequested, SetSearchVerified, SetCopilotVerified

\* The worker's updates confirm nothing.
LEMMA StatusGrows ==
    ASSUME TransitionTypeOK, NEW status \in TransitionStatuses,
           NEW error \in {"", "not_provisioned", "cleanup"},
           transition' = [transition EXCEPT !.status = status, !.error = error]
    PROVE  /\ Grows
           /\ transition'.status = status
           /\ transition'.active = transition.active
           /\ transition'.provisioned = transition.provisioned
           /\ transition'.reindexed = transition.reindexed
           /\ transition'.searched = transition.searched
           /\ transition'.asked = transition.asked
BY DEF TransitionTypeOK, Transition, Grows

LEMMA ActivationGrows ==
    ASSUME TransitionTypeOK, NEW s, ActivateTarget(s)
    PROVE  /\ Grows
           /\ transition'.status = "active"
           /\ transition'.active = transition.desired
           /\ transition'.reindexed = transition.reindexed
           /\ transition'.searched = transition.searched
           /\ transition'.asked = transition.asked
BY DEF TransitionTypeOK, Transition, TransitionStatuses, Grows, ActivateTarget

-----------------------------------------------------------------------------
(* What a worker read. *)

\* A row that was read stays one of this switch or of an older one.
LEMMA GrownReadIsOlder ==
    ASSUME TransitionTypeOK, NEW s \in Transition, ReadIsOlder(s), Grows
    PROVE  ReadIsOlder(s)'
BY DEF TransitionTypeOK, ReadIsOlder, Grows, Transition

LEMMA RequestedReadIsOlder ==
    ASSUME TransitionTypeOK, NEW target \in Targets, RequestTarget(target),
           NEW s \in Transition, ReadIsOlder(s)
    PROVE  ReadIsOlder(s)'
<1>1. s.generation \in Nat /\ transition.generation \in Nat
  <2>1. s.generation \in 0..MaxGeneration
    BY DEF Transition
  <2>2. transition.generation \in 0..MaxGeneration
    BY DEF TransitionTypeOK, Transition
  <2> QED  BY <2>1, <2>2, GenerationAssumption
<1>2. s.generation <= transition.generation
  BY DEF ReadIsOlder
<1>3. transition'.generation = transition.generation + 1
  BY RequestBegins
<1>4. s.generation <= transition'.generation /\ s.generation # transition'.generation
  BY <1>1, <1>2, <1>3
<1>5. s.provisioned => transition'.provisioned
  BY RequestBegins DEF ReadIsOlder
<1> QED  BY <1>4, <1>5 DEF ReadIsOlder

LEMMA ReadNow ==
    ASSUME TransitionTypeOK
    PROVE  transition \in Transition /\ ReadIsOlder(transition)
<1>1. transition \in Transition
  BY DEF TransitionTypeOK
<1>2. transition.generation \in 0..MaxGeneration
  BY <1>1 DEF Transition
<1>3. transition.generation <= transition.generation
  BY <1>2, GenerationAssumption
<1> QED  BY <1>1, <1>3 DEF ReadIsOlder

-----------------------------------------------------------------------------
(* The transactions as steps of TargetSwitch. *)

\* What the switch is and what was confirmed of it are as before.
LEMMA SwitchAsBefore ==
    ASSUME transition'.active = transition.active,
           transition'.desired = transition.desired,
           transition'.generation = transition.generation,
           transition'.provisioned = transition.provisioned,
           transition'.reindexed = transition.reindexed,
           transition'.searched = transition.searched,
           transition'.asked = transition.asked,
           transition'.status = "active" <=> transition.status = "active"
    PROVE  UNCHANGED Switch!vars
<1>1. ConfirmedSteps(transition)' = ConfirmedSteps(transition)
  BY DEF ConfirmedSteps
<1> QED  BY <1>1 DEF Switch!vars

LEMMA RequestIsSwitch ==
    ASSUME TransitionTypeOK, NEW target \in Targets, RequestTarget(target)
    PROVE  StatusIsEarned' /\ Switch!Next
<1>1. ConfirmedSteps(transition)' = {}
  BY RequestBegins DEF ConfirmedSteps
<1>2. Switch!Request(target)
  BY <1>1, RequestBegins DEF RequestTarget, Switch!Request
<1>3. StatusIsEarned'
  BY RequestBegins DEF StatusIsEarned
<1> QED  BY <1>2, <1>3 DEF Switch!Next

LEMMA ProvisionIsSwitch ==
    ASSUME TransitionTypeOK, StatusIsEarned, NEW f, SetColumnProvisioned(f)
    PROVE  StatusIsEarned' /\ Switch!Next
<1>1. /\ transition \in Transition
      /\ transition.desired = "sharepoint_column" /\ ~transition.provisioned
      /\ transition' = [transition EXCEPT
                           !.provisioned = TRUE,
                           !.status = IF transition.active = transition.desired
                                      THEN @ ELSE "staging",
                           !.error = ""]
  BY DEF TransitionTypeOK, SetColumnProvisioned
<1>2. /\ transition'.provisioned = TRUE
      /\ transition'.active = transition.active
      /\ transition'.desired = transition.desired
      /\ transition'.generation = transition.generation
      /\ transition'.reindexed = transition.reindexed
      /\ transition'.searched = transition.searched
      /\ transition'.asked = transition.asked
      /\ transition.active = transition.desired => transition'.status = transition.status
      /\ transition.active # transition.desired => transition'.status = "staging"
  BY <1>1 DEF Transition
<1>3. transition'.status = "active" <=> transition.status = "active"
  BY <1>2 DEF StatusIsEarned
<1>4. ConfirmedSteps(transition)' = ConfirmedSteps(transition)
  BY <1>2 DEF ConfirmedSteps
<1>5. Switch!Provision
  BY <1>1, <1>2, <1>3, <1>4 DEF Switch!Provision
<1>6. StatusIsEarned'
  BY <1>1, <1>2 DEF StatusIsEarned, FullyConfirmed
<1> QED  BY <1>5, <1>6 DEF Switch!Next

LEMMA ConfirmationIsSwitch ==
    ASSUME TransitionTypeOK, StatusIsEarned, NEW f,
           SetReindexRequested(f) \/ SetSearchVerified(f) \/ SetCopilotVerified(f)
    PROVE  StatusIsEarned' /\ Switch!Next
<1> DEFINE next == transition'
<1>1. /\ transition \in Transition /\ transition.status # "active"
      /\ transition.desired = "sharepoint_column" /\ transition.provisioned = TRUE
  BY DEF TransitionTypeOK, StatusIsEarned, SetReindexRequested, SetSearchVerified,
         SetCopilotVerified, Transition
<1>2. ASSUME NEW step \in {"reindex", "search", "copilot"},
             Switch!Before(step) \subseteq ConfirmedSteps(transition),
             ConfirmedSteps(transition)' = ConfirmedSteps(transition) \cup {step},
             next.active = transition.active, next.desired = transition.desired,
             next.generation = transition.generation,
             next.provisioned = transition.provisioned, next.status # "active"
      PROVE  Switch!Next
  <2>1. Switch!Confirm(step)
    BY <1>1, <1>2 DEF Switch!Confirm
  <2> QED  BY <2>1 DEF Switch!Next, Switch!Steps
<1>3. CASE SetReindexRequested(f)
  <2>1. /\ next.active = transition.active /\ next.desired = transition.desired
        /\ next.generation = transition.generation
        /\ next.provisioned = transition.provisioned
        /\ next.reindexed = TRUE /\ next.searched = transition.searched
        /\ next.asked = transition.asked /\ next.status = "awaiting_search"
    BY <1>1, <1>3 DEF SetReindexRequested, Transition
  <2>2. ConfirmedSteps(transition)' = ConfirmedSteps(transition) \cup {"reindex"}
    BY <2>1 DEF ConfirmedSteps
  <2>3. Switch!Before("reindex") \subseteq ConfirmedSteps(transition)
    BY DEF Switch!Before
  <2>4. Switch!Next
    BY <1>2, <2>1, <2>2, <2>3
  <2> QED  BY <1>1, <2>1, <2>4 DEF StatusIsEarned
<1>4. CASE SetSearchVerified(f)
  <2>1. /\ next.active = transition.active /\ next.desired = transition.desired
        /\ next.generation = transition.generation
        /\ next.provisioned = transition.provisioned
        /\ next.reindexed = transition.reindexed /\ next.searched = TRUE
        /\ next.asked = transition.asked /\ next.status = "awaiting_copilot"
        /\ transition.reindexed
    BY <1>1, <1>4 DEF SetSearchVerified, Transition, StatusIsEarned
  <2>2. ConfirmedSteps(transition)' = ConfirmedSteps(transition) \cup {"search"}
    BY <2>1 DEF ConfirmedSteps
  <2>3. Switch!Before("search") \subseteq ConfirmedSteps(transition)
    BY <2>1 DEF Switch!Before, ConfirmedSteps
  <2>4. Switch!Next
    BY <1>2, <2>1, <2>2, <2>3
  <2> QED  BY <1>1, <2>1, <2>4 DEF StatusIsEarned
<1>5. CASE SetCopilotVerified(f)
  <2>1. /\ next.active = transition.active /\ next.desired = transition.desired
        /\ next.generation = transition.generation
        /\ next.provisioned = transition.provisioned
        /\ next.reindexed = transition.reindexed /\ next.searched = transition.searched
        /\ next.asked = TRUE /\ next.status = "cleaning"
        /\ transition.reindexed /\ transition.searched
    BY <1>1, <1>5 DEF SetCopilotVerified, Transition, StatusIsEarned
  <2>2. ConfirmedSteps(transition)' = ConfirmedSteps(transition) \cup {"copilot"}
    BY <2>1 DEF ConfirmedSteps
  <2>3. Switch!Before("copilot") \subseteq ConfirmedSteps(transition)
    BY <2>1 DEF Switch!Before, ConfirmedSteps
  <2>4. Switch!Next
    BY <1>2, <2>1, <2>2, <2>3
  <2> QED  BY <1>1, <2>1, <2>4 DEF StatusIsEarned, FullyConfirmed
<1> QED  BY <1>3, <1>4, <1>5

LEMMA NothingIsSwitch ==
    ASSUME UNCHANGED transition
    PROVE  UNCHANGED Switch!vars
BY SwitchAsBefore

\* set_transition_status by a pass that read the row while a switch was open changes
\* nothing of the switch itself.
LEMMA StatusStutters ==
    ASSUME TransitionTypeOK, NEW s, s.status # "active",
           NEW status \in TransitionStatuses \ {"active"},
           NEW error \in {"", "not_provisioned", "cleanup"},
           SetTransitionStatus(s, status, error)
    PROVE  UNCHANGED Switch!vars
<1>1. /\ transition.status # "active"
      /\ transition' = [transition EXCEPT !.status = status, !.error = error]
  BY DEF SetTransitionStatus, Matches
<1> QED  BY <1>1, StatusGrows, SwitchAsBefore DEF Grows

\* The new status is earned if what the pass read had earned it.
LEMMA StatusIsSwitch ==
    ASSUME TransitionTypeOK, StatusIsEarned, NEW s \in Transition, ReadIsOlder(s),
           s.status # "active", NEW status \in TransitionStatuses \ {"active"},
           NEW error \in {"", "not_provisioned", "cleanup"},
           SetTransitionStatus(s, status, error),
           status \in {"awaiting_reindex", "awaiting_search", "awaiting_copilot"}
             => s.desired = "sharepoint_column" /\ s.provisioned,
           status = "awaiting_search" => s.reindexed,
           status = "awaiting_copilot" => s.reindexed /\ s.searched,
           status = "cleaning" /\ s.desired = "sharepoint_column" => FullyConfirmed(s)
    PROVE  /\ StatusIsEarned' /\ UNCHANGED Switch!vars
           /\ Grows /\ transition'.reindexed = transition.reindexed
           /\ transition'.searched = transition.searched
           /\ transition'.asked = transition.asked
<1>1. /\ Matches(s, s.status)
      /\ transition' = [transition EXCEPT !.status = status, !.error = error]
  BY DEF SetTransitionStatus
<1>2. /\ Grows
      /\ transition'.status = status
      /\ transition'.active = transition.active
      /\ transition'.provisioned = transition.provisioned
      /\ transition'.reindexed = transition.reindexed
      /\ transition'.searched = transition.searched
      /\ transition'.asked = transition.asked
  BY <1>1, StatusGrows
<1>3. UNCHANGED Switch!vars
  BY StatusStutters
<1>4. StatusIsEarned'
  BY <1>1, <1>2 DEF StatusIsEarned, FullyConfirmed, Grows, Matches, ReadIsOlder
<1> QED  BY <1>2, <1>3, <1>4

\* A clean-up that fails.
LEMMA FailureIsSwitch ==
    ASSUME TransitionTypeOK, StatusIsEarned, transition.status = "cleaning",
           transition' = [transition EXCEPT !.status = "failed", !.error = "cleanup"]
    PROVE  StatusIsEarned' /\ UNCHANGED Switch!vars /\ Grows
<1>1. "failed" \in TransitionStatuses
  BY DEF TransitionStatuses
<1>2. /\ Grows
      /\ transition'.status = "failed"
      /\ transition'.active = transition.active
      /\ transition'.provisioned = transition.provisioned
      /\ transition'.reindexed = transition.reindexed
      /\ transition'.searched = transition.searched
      /\ transition'.asked = transition.asked
  BY <1>1, StatusGrows
<1>3. UNCHANGED Switch!vars
  BY <1>2, SwitchAsBefore DEF Grows
<1> QED  BY <1>2, <1>3 DEF StatusIsEarned

LEMMA ActivationIsSwitch ==
    ASSUME TransitionTypeOK, StatusIsEarned, NEW s, ActivateTarget(s)
    PROVE  StatusIsEarned' /\ Switch!Next
<1>1. /\ transition.status = "cleaning" /\ transition \in Transition
      /\ transition' = [transition EXCEPT !.active = transition.desired,
                                          !.status = "active", !.error = ""]
  BY DEF ActivateTarget, Matches, TransitionTypeOK
<1>2. /\ transition'.status = "active"
      /\ transition'.active = transition.desired
      /\ transition'.desired = transition.desired
      /\ transition'.generation = transition.generation
      /\ transition'.provisioned = transition.provisioned
      /\ transition'.reindexed = transition.reindexed
      /\ transition'.searched = transition.searched
      /\ transition'.asked = transition.asked
  BY <1>1 DEF Transition
<1>3. ConfirmedSteps(transition)' = ConfirmedSteps(transition)
  BY <1>2 DEF ConfirmedSteps
<1>4. (transition.desired = "sharepoint_column" /\ transition.active # transition.desired)
        => transition.provisioned /\ ConfirmedSteps(transition) = Switch!Steps
  BY <1>1 DEF StatusIsEarned, FullyConfirmed, ConfirmedSteps, Switch!Steps
<1>5. Switch!End
  BY <1>1, <1>2, <1>3, <1>4 DEF Switch!End
<1> QED  BY <1>2, <1>5 DEF Switch!Next, StatusIsEarned

LEMMA SwitchStart == TransitionInit => StatusIsEarned /\ Switch!Init
<1> SUFFICES ASSUME TransitionInit PROVE StatusIsEarned /\ Switch!Init
  OBVIOUS
<1>1. PICK initial \in {"unset", "copilot_connector"} :
        transition = [active |-> initial, desired |-> initial, generation |-> 0,
                      status |-> "active", provisioned |-> FALSE,
                      reindexed |-> FALSE, searched |-> FALSE, asked |-> FALSE,
                      error |-> ""]
  BY DEF TransitionInit
<1>2. ConfirmedSteps(transition) = {}
  BY <1>1 DEF ConfirmedSteps
<1> QED  BY <1>1, <1>2 DEF StatusIsEarned, Switch!Init, Targets
=============================================================================
