---------------------------- MODULE OtherObjects ----------------------------
(***************************************************************************)
(* The objects that pkg/object generates for a Minio, a Mongo and a Piped, *)
(* as far as they refer to each other, in the terms of GeneratedObjects,   *)
(* and which objects of two owners meet under one name or in one selector. *)
(***************************************************************************)
EXTENDS GeneratedObjects, TypedConfigs, FiniteSetsExt

\* MakeMinioNamespacedName, MakeMongoNamespacedName, MakePipedNamespacedName.
MinioName(m) == <<m, "minio">>
MongoName(m) == <<m, "mongo">>
PipedName(p) == <<p>>

\* What each Reconcile applies, in this order.
Under(kinds, name) == {[kind |-> k, name |-> name] : k \in kinds}
StorageChildren(name) == Under({"StatefulSet", "Service"}, name)
PipedChildren(p) ==
  Under({"ServiceAccount", "Secret", "ConfigMap", "Service", "Deployment"}, PipedName(p))

\* Not in a namespace: the objects of all Pipeds of a name are the same.
PipedClusterObjects(p) == Under({"ClusterRole", "ClusterRoleBinding"}, PipedName(p))

\* Those of a ControlPlane, of whatever components.
ControlPlaneChildren(c) ==
  UNION {{Applied(c, i)[n] : n \in DOMAIN Applied(c, i)} : i \in AllComponents}

-----------------------------------------------------------------------------
(* labels: the pods of an owner carry them and its Services select by them *)

GatewayLabels == [name |-> "pipecd", component |-> "gateway"]
ServerLabels == [name |-> "pipecd", component |-> "server"]
CacheLabels == [name |-> "pipecd", component |-> "cache"]
OpsLabels == [name |-> "pipecd", component |-> "ops"]
MinioLabels(m) == [name |-> "pipecd", component |-> "minio", object |-> m]
MongoLabels(m) == [name |-> "pipecd", component |-> "mongo", object |-> m]
PipedLabels == [name |-> "piped"]

\* A selector finds the pods that have at least its labels.
Finds(selector, labels) ==
  \A key \in DOMAIN selector : key \in DOMAIN labels /\ labels[key] = selector[key]

-----------------------------------------------------------------------------
(* pods: the ports of the container, the volumes and what is mounted where *)

\* What the spec says of the storage: neither a volume nor the claim template
\* of the StatefulSet is mounted.
MinioPod(storage) ==
  [ports |-> "minio" :> 9000, mounts |-> <<>>,
   volumes |-> IF storage = "emptyDir" THEN {"volume"} ELSE {}]

MongoPod(storage) ==
  [ports |-> "mongo" :> 27017, mounts |-> <<>>,
   volumes |-> IF storage = "emptyDir" THEN {"volume"} ELSE {}]

PipedPod(p) ==
  [ports |-> "admin" :> 9085,
   account |-> [kind |-> "ServiceAccount", name |-> PipedName(p)],
   mounts |-> "/etc/piped-config" :> [kind |-> "ConfigMap", name |-> PipedName(p)]
                @@ "/etc/piped-secret" :> [kind |-> "Secret", name |-> PipedName(p)]]

\* The ports of the Services and the container ports behind them.
MinioService == 9000 :> "minio"
MongoService == 27017 :> "mongo"
PipedService == 9085 :> "admin"

-----------------------------------------------------------------------------
(* the files of a Piped and its rights *)

PipedSecretData(key) == "piped-key" :> key

\* The spec's configuration, in which the operator sets the id and the file
\* of the key; one provider without a kind makes it fail.
PipedConfigMapData(spec, id) ==
  LET rendered == {CloudProvider(g) : g \in spec.cloud}
                    \cup {AnalysisProvider(g) : g \in spec.analysis}
  IN  IF Refused \in rendered THEN <<>>
      ELSE "piped-config.yaml" :>
             [pipedID |-> id, pipedKeyFile |-> <<"/etc/piped-secret", "piped-key">>,
              providers |-> rendered]

\* The file of --config-file and the one its content names.
PipedOpens(spec, id) ==
  {<<"/etc/piped-config", "piped-config.yaml">>,
   PipedConfigMapData(spec, id)["piped-config.yaml"].pipedKeyFile}

PipedRoleRef(p) == [kind |-> "ClusterRole", name |-> PipedName(p)]
PipedSubject(p, ns) == [kind |-> "ServiceAccount", name |-> PipedName(p), namespace |-> ns]

-----------------------------------------------------------------------------

\* Make*DeploymentSpec: asked has the replicas of the ControlPlane's spec, if
\* any.
Replicas(asked) == IF asked = {} THEN 1 ELSE Max(asked \cup {0})

=============================================================================
