----------------------- MODULE MCPublicationTransition -----------------------
(* Model checking instances of PublicationTransition.  No symmetry: the runs *)
(* check liveness.                                                           *)
EXTENDS PublicationTransition
=============================================================================
