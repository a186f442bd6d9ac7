---------------------------- MODULE MCLifecycle ----------------------------
(* Instances of Lifecycle for TLC. *)
EXTENDS Lifecycle

CONSTANTS c1, c2

\* The component with the most files, and the one the other controllers use.
OnlyServer == <<"server">>

\* Once in a behaviour: a deletion together with any other disturbance, or a call
\* that does not wait for general.
DeletionAndOne ==
  {[k \in Kinds |-> IF k \in {"delete", other} THEN 1 ELSE 0] :
     other \in {"api", "crash", "recreate", "foreign"}}
    \cup {[k \in Kinds |-> IF k = "early" THEN 1 ELSE 0]}

\* Of all components, also those left out of Blocks: a connection leads to a
\* Service and a port of it that is sent to a port the selected container
\* opens, and a file that an argument names is in a mounted object.
ASSUME WiringAssumption ==
  \A i \in WithDeployment :
    /\ \A to \in Connects(c1, i) \cup {ClientConnects(c1), <<Name(c1, "general"), 8080>>} :
         \E j \in AllComponents :
           /\ to[1] = Name(c1, j) /\ to[2] \in DOMAIN ServicePorts(j)
           /\ ServicePorts(j)[to[2]] \in DOMAIN ContainerPorts(Selects(j))
    /\ \A f \in Opens(i) :
         f[1] \in DOMAIN Mounts(c1, i) /\ f[2] \in Data(Mounts(c1, i)[f[1]])

=============================================================================
