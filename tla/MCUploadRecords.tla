-------------------------- MODULE MCUploadRecords --------------------------
(* Model checking instances of UploadRecords. *)
EXTENDS UploadRecords, TLC

\* Sound: no definition picks one worker.
WorkerSymmetry == Permutations(Workers)
=============================================================================
