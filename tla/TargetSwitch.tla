---------------------------- MODULE TargetSwitch ----------------------------
(***************************************************************************)
(* What a switch of the publication target promises, without passes,       *)
(* statuses, documents or settings pages: there is one switch at a time,   *)
(* each request of a target begins a new one with nothing confirmed, the   *)
(* steps are confirmed in order, and the target changes only when the      *)
(* switch ends, to the one that was requested last; to the column only     *)
(* after it was created and every step was confirmed.                      *)
(***************************************************************************)
EXTENDS Naturals

CONSTANT Targets

VARIABLES
    active,         \* the target that readers search
    desired,        \* the target the administrator asked for
    generation,     \* which switch this is
    open,           \* whether it has not ended yet
    provisioned,    \* whether the column exists
    confirmed       \* the steps that were confirmed for this switch

vars == <<active, desired, generation, open, provisioned, confirmed>>

Steps == {"reindex", "search", "copilot"}

\* The steps that have to be confirmed before one.
Before(step) ==
    CASE step = "reindex" -> {}
      [] step = "search"  -> {"reindex"}
      [] step = "copilot" -> {"reindex", "search"}

Init ==
    /\ active \in Targets
    /\ desired = active
    /\ generation = 0
    /\ open = FALSE
    /\ provisioned = FALSE
    /\ confirmed = {}

\* Another target, or the same again after a failure.
Request(target) ==
    /\ target # desired \/ open
    /\ desired' = target
    /\ generation' = generation + 1
    /\ open' = TRUE
    /\ confirmed' = {}
    /\ UNCHANGED <<active, provisioned>>

Provision ==
    /\ desired = "sharepoint_column"
    /\ ~provisioned
    /\ provisioned' = TRUE
    /\ UNCHANGED <<active, desired, generation, open, confirmed>>

Confirm(step) ==
    /\ open
    /\ desired = "sharepoint_column" /\ provisioned
    /\ Before(step) \subseteq confirmed
    /\ confirmed' = confirmed \cup {step}
    /\ UNCHANGED <<active, desired, generation, open, provisioned>>

\* A roll-back ends in the target that was active all the time, without any step.
End ==
    /\ open
    /\ (desired = "sharepoint_column" /\ active # desired) =>
           provisioned /\ confirmed = Steps
    /\ active' = desired
    /\ open' = FALSE
    /\ UNCHANGED <<desired, generation, provisioned, confirmed>>

Next ==
    \/ \E target \in Targets : Request(target)
    \/ Provision
    \/ \E step \in Steps : Confirm(step)
    \/ End

Spec == Init /\ [][Next]_vars
=============================================================================
