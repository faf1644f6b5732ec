-------------------------- MODULE MCReconciliation --------------------------
(* A model checking instance of Reconciliation; with one worker it is a part *)
(* of MCServices.                                                            *)
EXTENDS Reconciliation
=============================================================================
