-------------------------- MODULE MCReconcileGroup --------------------------
(* Instances of ReconcileGroup for TLC: the constants are given in the cfg. *)
EXTENDS ReconcileGroup
=============================================================================
