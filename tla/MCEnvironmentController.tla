---------------------- MODULE MCEnvironmentController ----------------------
(* Instances of EnvironmentController for TLC. *)
EXTENDS EnvironmentController

CONSTANTS e1, e2

\* One name for all objects.
OneName == [e \in Environments |-> "shared"]

=============================================================================
