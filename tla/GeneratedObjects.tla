-------------------------- MODULE GeneratedObjects --------------------------
(***************************************************************************)
(* The objects that pkg/object generates for a ControlPlane, as far as     *)
(* they refer to each other: their names, the keys of their data, what a   *)
(* pod mounts and opens, the ports of containers and Services, whom a      *)
(* Service selects and whom a container connects to.                       *)
(*                                                                         *)
(* A name is the sequence of its words: fmt.Sprintf("%s-server", name) is  *)
(* <<name, "server">>.  The pod labels of a component carry no other       *)
(* information than the component: two ControlPlanes' are the same.        *)
(***************************************************************************)
EXTENDS Integers, Sequences, TLC

\* Those with a Deployment and those without; each has a Service.
WithDeployment == {"gateway", "server", "cache", "ops"}
AllComponents == {"general"} \cup WithDeployment

\* Make*NamespacedName; the objects of general have one name for all
\* ControlPlanes of a namespace.
Name(c, i) == IF i = "general" THEN <<"pipecd">> ELSE <<c, i>>

Object(kind, c, i) == [kind |-> kind, name |-> Name(c, i)]

\* What the goroutine of a component applies, in this order.
Applied(c, i) ==
  LET kinds == CASE i = "general" -> <<"ConfigMap", "Secret", "Service">>
                 [] i = "gateway" -> <<"ConfigMap", "Deployment", "Service">>
                 [] OTHER -> <<"Deployment", "Service">>
  IN  [n \in DOMAIN kinds |-> Object(kinds[n], c, i)]

-----------------------------------------------------------------------------
(* files *)

\* Make*Data: the keys of a generated ConfigMap or Secret.
Data(object) ==
  CASE object.name # <<"pipecd">> -> {"envoy-config.yaml"}
    [] object.name = <<"pipecd">> /\ object.kind = "ConfigMap" -> {"control-plane-config.yaml"}
    [] object.name = <<"pipecd">> /\ object.kind = "Secret" -> {"encryption-key"}

\* The volumes a container mounts: the path and the object behind it.
Mounts(c, i) ==
  LET paths == CASE i = "gateway" -> {"/etc/envoy"}
                 [] i = "server" -> {"/etc/pipecd-config", "/etc/pipecd-secret"}
                 [] i = "ops" -> {"/etc/pipecd-config"}
                 [] i = "cache" -> {}
  IN  [path \in paths |->
         CASE path = "/etc/envoy" -> Object("ConfigMap", c, "gateway")
           [] path = "/etc/pipecd-config" -> Object("ConfigMap", c, "general")
           [] path = "/etc/pipecd-secret" -> Object("Secret", c, "general")]

\* The files that the arguments of a container name: path and file.
Opens(i) ==
  LET config == <<"/etc/pipecd-config", "control-plane-config.yaml">>
      key == <<"/etc/pipecd-secret", "encryption-key">>
  IN  CASE i = "gateway" -> {<<"/etc/envoy", "envoy-config.yaml">>}
        [] i = "server" -> {config, key}
        [] i = "ops" -> {config}
        [] i = "cache" -> {}

-----------------------------------------------------------------------------
(* connections *)

ContainerPorts(i) ==
  CASE i = "gateway" -> "ingress" :> 9090 @@ "envoy-admin" :> 9095
    [] i = "server" -> "piped-api" :> 9080 @@ "web-api" :> 9081
                         @@ "http" :> 9082 @@ "admin" :> 9085
    [] i = "cache" -> "redis" :> 6379
    [] i = "ops" -> "ops" :> 9082 @@ "admin" :> 9085

\* The ports of a component's Service and the container ports behind them.
ServicePorts(i) ==
  CASE i = "general" -> 8080 :> "ingress"
    [] i = "gateway" -> 9095 :> "envoy-admin"
    [] i = "server" -> 9080 :> "piped-api" @@ 9081 :> "web-api"
                         @@ 9082 :> "http" @@ 9085 :> "admin"
    [] i = "cache" -> 6379 :> "redis"
    [] i = "ops" -> 9082 :> "ops" @@ 9085 :> "admin"

\* The component whose pods a component's Service selects, in whatever
\* ControlPlane's Deployments of the namespace they are.
Selects(i) == IF i = "general" THEN "gateway" ELSE i

\* Where the containers of a component connect to: the name of a Service and
\* its port. The gateway's are in its ConfigMap, where ADDRESS_SERVER stands
\* for the server's Service.
Connects(c, i) ==
  CASE i = "gateway" -> {<<Name(c, "server"), port>> : port \in 9080 .. 9082}
    [] i = "server" -> {<<Name(c, "cache"), 6379>>}
    [] i \in {"cache", "ops"} -> {}

\* The web client of the other controllers: the Secret it takes the key from
\* that signs its tokens, and where it connects to if c is the only
\* ControlPlane.
ClientSecret == [kind |-> "Secret", name |-> <<"pipecd">>]
ClientConnects(c) == <<Name(c, "server"), ContainerPorts("server")["web-api"]>>

=============================================================================
