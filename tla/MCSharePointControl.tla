------------------------- MODULE MCSharePointControl -------------------------
(* Model checking instances of SharePointControl. *)
EXTENDS SharePointControl, TLC

\* Sound for the safety runs: no definition picks one worker.
WorkerSymmetry == Permutations(Workers)
=============================================================================
