---------------------- MODULE MCControlPlaneReconciler ----------------------
(* Instances of ControlPlaneReconciler for TLC. *)
EXTENDS ControlPlaneReconciler

AllDeployed == Deployed

\* The behaviours in which wg.Wait never runs before wg.Add.
OrderedSpec == CPInit /\ [][CPNext /\ Ordered']_allVars
FairOrderedSpec == OrderedSpec /\ Fairness

=============================================================================
