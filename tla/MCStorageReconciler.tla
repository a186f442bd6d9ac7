------------------------ MODULE MCStorageReconciler ------------------------
(* Instances of StorageReconciler for TLC: the constants are in the cfg. *)
EXTENDS StorageReconciler
=============================================================================
