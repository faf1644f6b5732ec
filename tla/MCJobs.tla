------------------------------- MODULE MCJobs -------------------------------
(* The safety run of the queue and of the records of an upload. *)
EXTENDS Jobs, TLC

\* Sound for the safety runs: no definition picks one worker.
WorkerSymmetry == Permutations(Workers)

\* The queue has all the bounds; an upload one fault, and two attempts.
UploadsAreShort ==
    part = "uploads" => faults' <= 1 /\ \A j \in JobIds : jobs'[j].attempts <= 2

MCSpec == JobsInit /\ [][JobsNext /\ UploadsAreShort]_jobsVars
=============================================================================
