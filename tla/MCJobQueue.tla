----------------------------- MODULE MCJobQueue -----------------------------
(* Model checking instances of JobQueue. *)
EXTENDS JobQueueInvariant, TLC

\* Sound for the safety runs: no definition picks one worker or document.
WorkerSymmetry == Permutations(Workers)
=============================================================================
