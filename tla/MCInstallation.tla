--------------------------- MODULE MCInstallation ---------------------------
(* Instances of Installation for TLC, and of the objects generated for the *)
(* objects of an installation.                                             *)
EXTENDS Installation, OtherObjects

CONSTANTS c1, c2

\* A Minio, a Mongo and a Piped are reached by their Services alone, whose
\* ports lead to ports of their containers; the Services of a ControlPlane, of
\* a Minio and of a Mongo select no pods but the component's. What storage a
\* spec asks for, the container does not see.
ASSUME ServicesAssumption ==
  LET labels == {GatewayLabels, ServerLabels, CacheLabels, OpsLabels, PipedLabels}
                  \cup UNION {{MinioLabels(m), MongoLabels(m)} : m \in {"a", "b"}}
  IN  /\ \A s, t \in labels : Finds(s, t) => s = t
      /\ \A s \in {"emptyDir", "claim"} :
           /\ MinioService[9000] \in DOMAIN MinioPod(s).ports
           /\ MongoService[27017] \in DOMAIN MongoPod(s).ports
           /\ {MinioPod(s).mounts, MongoPod(s).mounts} = {<<>>}
      /\ PipedService[9085] \in DOMAIN PipedPod(c1).ports

\* Two owners generate objects of one kind and name only if they are two
\* ControlPlanes, which share the objects of general, or a ControlPlane and a
\* Piped named pipecd, or, outside namespaces, two Pipeds of one name.
ASSUME NamesAssumption ==
  LET general == {Object(k, c1, "general") : k \in {"ConfigMap", "Secret", "Service"}}
      storage(m) == StorageChildren(MinioName(m)) \cup StorageChildren(MongoName(m))
  IN  /\ ControlPlaneChildren(c1) \cap ControlPlaneChildren(c2) = general
      /\ StorageChildren(MinioName(c1)) \cap StorageChildren(MongoName(c1)) = {}
      /\ \A o \in {c1, c2, "pipecd"} :
           /\ storage(o) \cap (ControlPlaneChildren(c1) \cup PipedChildren(o)) = {}
           /\ PipedChildren(o) \cap ControlPlaneChildren(c1)
                = IF o = "pipecd" THEN general ELSE {}
      /\ PipedClusterObjects(c1) \cap PipedClusterObjects(c2) = {}

\* The pod of a Piped whose providers all have a kind finds its files, and its
\* own ServiceAccount has the role; with one that has none, there is no
\* ConfigMap to be applied.
ASSUME PipedAssumption ==
  \A cloud \in SUBSET {{"KUBERNETES"}, {"LAMBDA", "TERRAFORM"}, {}} :
    LET spec == [cloud |-> cloud, analysis |-> {{"DATADOG"}}]
        data == PipedConfigMapData(spec, 1)
        holds(object) == IF object.kind = "Secret" THEN PipedSecretData(1) ELSE data
    IN  IF {} \in cloud THEN data = <<>>
        ELSE /\ data["piped-config.yaml"].pipedID = 1
             /\ \A f \in PipedOpens(spec, 1) :
                  /\ PipedPod(c1).mounts[f[1]] \in PipedChildren(c1)
                  /\ f[2] \in DOMAIN holds(PipedPod(c1).mounts[f[1]])
             /\ PipedPod(c1).account \in PipedChildren(c1)
             /\ PipedPod(c1).account @@ "namespace" :> "ns" = PipedSubject(c1, "ns")
             /\ PipedRoleRef(c1) \in PipedClusterObjects(c1)

\* A kind given alone is the one written, and no other is ever written. What is
\* written of a ControlPlane and read back is written the same; of a Piped it
\* is not, since no kind is given any more.
ASSUME ConfigsAssumption ==
  LET Kinds(order) == {order[n] : n \in DOMAIN order}
  IN  /\ \A given \in SUBSET (Kinds(DataStores) \cup Kinds(FileStores)) :
           \A written \in {DataStore(given), FileStore(given)} :
             /\ written.config = "{}" <=> written.type = ""
             /\ written.type # "" => written.type = written.config /\ written.type \in given
      /\ \A kind \in Kinds(DataStores) : DataStore({kind}).config = kind
      /\ \A kind \in Kinds(FileStores) : FileStore({kind}).config = kind
      /\ \A given \in SUBSET Kinds(DataStores) :
           DataStore(DataStore(given).fields) = DataStore(given)
      /\ \A given \in SUBSET Kinds(FileStores) :
           FileStore(FileStore(given).fields) = FileStore(given)
      /\ \A given \in SUBSET Kinds(CloudProviders) :
           /\ CloudProvider(given) = Refused <=> given = {}
           /\ given # {} => CloudProvider(given).config \in given
           /\ CloudProvider(CloudProvider(given).fields) = Refused
      /\ \A given \in SUBSET Kinds(AnalysisProviders) :
           /\ AnalysisProvider(given) = Refused <=> given = {}
           /\ given # {} => AnalysisProvider(given).config \in given

\* A Deployment is never given a negative number of replicas.
ASSUME ReplicasAssumption ==
  /\ Replicas({}) = 1
  /\ \A n \in -2 .. 2 : Replicas({n}) >= 0 /\ (n >= 0 => Replicas({n}) = n)

=============================================================================
