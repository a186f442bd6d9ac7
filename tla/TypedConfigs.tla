---------------------------- MODULE TypedConfigs ----------------------------
(***************************************************************************)
(* The configurations of which a spec gives one of several kinds, each in  *)
(* an optional field of its own (api/v1alpha1), and what the MarshalJSON   *)
(* of their types writes: the kind and the configuration in one field each *)
(* for PipeCD, which reads them from a ConfigMap.                          *)
(*                                                                         *)
(* `given` is the set of the kinds whose field is not nil.  What is        *)
(* written has its type, the kind that config is of, and under `fields`    *)
(* the user's fields that are still there.                                 *)
(***************************************************************************)
EXTENDS Sequences

Refused == [type |-> "refused", config |-> "refused", fields |-> {}]

\* "TODO: this logic is "or", but should be "xor"": a switch takes the first
\* kind that is given and says nothing of the others.
First(order, given) == Head(SelectSeq(order, LAMBDA kind : kind \in given))

Given(order, given) == \E n \in DOMAIN order : order[n] \in given

\* The stores of a ControlPlane: with no kind given, neither a type nor a configuration.
StoreConfig(order, given) ==
  IF Given(order, given)
  THEN LET kind == First(order, given)
       IN  [type |-> kind, config |-> kind, fields |-> {kind}]
  ELSE [type |-> "", config |-> "{}", fields |-> {}]

\* The providers of a Piped: with no kind given, an error. The user's fields are gone.
ProviderConfig(order, given) ==
  IF Given(order, given)
  THEN [type |-> First(order, given), config |-> First(order, given), fields |-> {}]
  ELSE Refused

\* The first is written for Cloud Firestore, whose field is firestoreConfig.
DataStores == <<"FILESTORE", "DYNAMODB", "MONGODB">>
DataStore(given) == StoreConfig(DataStores, given)

FileStores == <<"GCS", "S3", "MINIO">>
FileStore(given) == StoreConfig(FileStores, given)

CloudProviders == <<"KUBERNETES", "TERRAFORM", "CLOUDRUN", "LAMBDA">>
CloudProvider(given) == ProviderConfig(CloudProviders, given)

AnalysisProviders == <<"PROMETHEUS", "DATADOG", "STACKDRIVER">>
AnalysisProvider(given) == ProviderConfig(AnalysisProviders, given)

=============================================================================
