------------------------- MODULE MCPublicationFlow -------------------------
(* Model checking instances of PublicationFlow. *)
EXTENDS PublicationFlow, TLC

\* Sound for the safety runs: no definition picks one worker.
WorkerSymmetry == Permutations(Workers)

\* A switch from the column to the connector whose documents have all been published
\* to both; requests and generations are counted from here on.
StagedInit ==
    /\ docs = [d \in Docs |-> [desired |-> TRUE, status |-> "Ready", request |-> 1,
                               processed |-> 1, version |-> 1]]
    /\ jobs = [j \in JobIds |->
                 LET done == RequestOf(j) = 1 /\ TypeOf(j) = "upsert" IN
                 [status |-> IF done THEN "completed" ELSE "absent",
                  attempts |-> IF done THEN 1 ELSE 0,
                  owner |-> None, leased |-> FALSE, queuedAt |-> IF done THEN 1 ELSE 0]]
    /\ lastRequest = 1
    /\ transition = [active |-> "sharepoint_column", desired |-> "copilot_connector",
                     generation |-> 1, status |-> "staging", provisioned |-> TRUE,
                     reindexed |-> FALSE, searched |-> FALSE, asked |-> FALSE, error |-> ""]
    /\ rows = [p \in Pairs |-> [NoRow EXCEPT !.status = "ready", !.content = 1,
                                             !.generation = 1]]
    /\ remote = [p \in Pairs |-> 1]
    /\ WorkersIdle

StagedSpec == StagedInit /\ [][Next]_vars
=============================================================================
