-------------------------- MODULE MCPipedController --------------------------
(* Instances of PipedController for TLC. *)
EXTENDS PipedController, TLC

CONSTANTS p1, p2

\* Every object under a name of its own.
OwnNames == [p \in Pipeds |-> p]

\* One name for all objects.
OneName == [p \in Pipeds |-> "shared"]

\* Everything but the calls after which a registration's key is lost, or
\* one is made twice.
KeySafe == Kinds \ {"list", "lost", "get"}
NoListFailure == Kinds \ {"list"}

\* For the runs that need next to nothing to go wrong.
OnlyListFails == {"list"}
NoDisturbance == {}

=============================================================================
