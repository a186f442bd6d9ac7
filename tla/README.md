# pipecd-operator in TLA+

pipecd-operator is a Kubernetes operator, written in Go with controller-runtime
v0.5, that runs a PipeCD installation: its control plane, the MongoDB and MinIO
it stores into, and the agents ("pipeds") that connect to it. This directory
holds specifications of the operator, the TLC runs that check them and proofs
that TLAPS checks. Paths below are relative to the repository's root (`src/`
here).

Contents: 1 inventory of the system, 2 the modules and their correspondence to
the code, 3 the runs, 4 fairness, 5 the proofs, 6 what the checks say about the
code, 7 what is left out, 8 the plan.

## 1. The system

`main.go` starts one process with six controllers. Each has one worker
goroutine, reads objects through the informers' caches, watches only its own
kind and has every object queued again by a resync of 30 s. A returned error
queues the key again at once. All controllers share the process, and with it
one package variable, `pipedKeyCache`.

| component | state it keeps | operations | interacts with |
|---|---|---|---|
| ControlPlane controller (`controllers/controlplane_controller.go`) | ControlPlane: finalizer, five status counts; the ConfigMap, Secret, Deployments and Services it owns | `Reconcile`, `reconcile` (five component goroutines), `reconcileDelete` | API server; its Secret holds the key the web client signs with |
| Minio and Mongo controllers (`controllers/minio_controller.go`, `mongo_controller.go`) | a StatefulSet and a Service each | `Reconcile` (one component goroutine) | API server |
| Environment controller (`controllers/environment_controller.go`) | Environment: finalizer, `status.environmentId`; environments at the PipeCD server | `Reconcile`, `reconcile`, `reconcileDelete` | PipeCD web API; gates the Piped controller |
| Piped controller (`controllers/piped_controller.go`) | Piped: finalizer, status; `pipedKeyCache`; seven children; pipeds registered at the PipeCD server | `Reconcile`, `reconcile`, `reconcilePipedObject`, `reconcileDelete` | PipeCD web API, API server; needs an Environment and a ControlPlane to exist |
| Application controller (`controllers/application_controller.go`) | none yet: `reconcile` is a TODO | `Reconcile`, `reconcileDelete` | PipeCD web API |
| services (`services/*.go`) | none | find, create, disable pipeds, environments, applications | PipeCD web API |
| web client (`infrastructure/pipecdweb`) | none; a token valid for 1 h per call | create a client from the Secret of the namespace and the one ControlPlane of the cluster | API server, PipeCD; without it Environment, Piped and Application reconcile nothing |
| object generators (`pkg/object`) | none | spec of each Kubernetes object | called by the controllers |
| API types (`api/v1alpha1`) | none | declarations, `MarshalJSON` of unions | everything |

What is hard in this code, and what has to be true of each part:

* **Fan-out Reconcile** (ControlPlane, Minio, Mongo). The goroutine that waits
  on the `WaitGroup` is started *before* the first `wg.Add`, and the group is
  used again for every block. If `Wait` runs early, `terminated` is closed at
  once and no block waits for the one before it; component goroutines then
  outlive the call, and errors sent after main has left block for good on an
  unbuffered channel. Must hold: the runtime's rules for WaitGroups, the
  order of the blocks, which error is reported, that `Reconcile` returns.
* **Storage controllers** across calls. A leftover goroutine holds an old copy
  of the object and writes beside later calls; caches lag, writes conflict,
  calls fail, the process dies, a spec panics in the goroutine or is refused by the
  API server. Must hold: no older spec replaces a newer one, a Service follows its
  StatefulSet, nil means applied, the children converge.
* **Piped controller**. Registering a piped, keeping its key, writing the
  children, recording its id and adding the finalizer are separate remote calls
  with everything possible between them. The key is returned once and lives
  only in memory. Copies are stale, the finalizer patch (server-side apply
  without a precondition) creates what it does not find. Must hold: a finalizer
  goes with a recorded id, the finalizer leaves only after the registration is
  disabled, no duplicate registrations, key, configuration and rollout agree,
  deletion completes.
* **Environment controller**. The same shape without a key: find, add, record,
  finalize. `CreateIfNotExists` adds an environment after *any* error of
  `Find`, also when there are two already. Must hold: one environment of a
  name, an id recorded before the finalizer.
* **Several ControlPlanes of a namespace**. The ConfigMap, Secret and Service of a
  ControlPlane are all named `pipecd`, and the labels of its pods do not carry its
  name. Goroutines outlive their call and so the incarnation they work for, and owners are
  compared by name. Must hold, as long as main waits for its first goroutine: two
  ControlPlanes never run side by side and pods find their files; and always: none takes a
  child from another, and when one is gone the other takes over.
* **The installation as a whole**. ControlPlane, Environment and Piped may be applied
  and deleted in any order. The controllers of the latter two need the Secret of the
  control plane, exactly one ControlPlane in the cluster and its server; Piped also needs
  its Environment, before it looks at its own deletion timestamp. Nothing holds
  those objects while they are needed. Must hold: whatever the order, everything comes
  up unless a piped's key is lost, and what is deleted goes as soon as what it needs is
  there again.
* **Generated objects**. Names, labels, ports, mounts and files are spread over a dozen
  files, the unions of the API types over four `MarshalJSON` families. Must hold: they
  agree with each other, and no two owners generate the same object unless meant to.

`PROJECT.json` lists these hazards one by one, with the line where each bites
and the properties that cover it.

## 2. Modules

### `ReconcileGroup`: one call of the fan-out

State: where main is (`mainPc`, `block`, `result`), the WaitGroup's `counter`,
the waiter, and each component goroutine with the outcome of its body. One
action per step that another goroutine can observe: `Launch` (Add, `go`),
`Receive` and `Proceed` (the two cases of the `select`), `PatchFinalizer`,
`CallWait`, `ReturnFromWait`, `CloseTerminated`, `BodySucceeds`, `BodyFails`,
`Done`. `Launch` joins `wg.Add(1)` and the `go` statement: nothing another
goroutine does can tell them apart, since an early `Wait` sees the counter only.
A send on the unbuffered channel and its receipt are one step. `select` with
both cases ready picks either. The body is its outcome: `"ok"`, `"error"`, or
`"nil"` for `errStream <- client.IgnoreNotFound(err)`. `earlyWait` is a history
variable: `Wait` ran before the first `Add`.

`NumComponents` is 5 for the ControlPlane and 1 for Minio and Mongo;
`PatchesFinalizer` tells whether a finalizer patch follows the blocks.

### `StorageReconciler`: Minio and Mongo, call after call

EXTENDS `ReconcileGroup` with one component and replaces its abstract body by the
code's: `CreateOrUpdate` of a StatefulSet and then of a Service, each a read
from the cache (`GetChild`) and a conditional write (`PutChild`). `NextCall`
starts the next call, with a new WaitGroup, as the work queue does; a goroutine
of the call before that is still in its body moves to a leftover slot and goes on.
The data is reduced to *versions*: a child remembers the version of the
object's spec it was written from and its resource version, a version what it says of the
storage (`storage`). A pointer that is left out is dereferenced in the goroutine, which
nothing recovers: the process dies (`Panic`) and starts again (`Restart`). A StatefulSet
whose claim templates would change is refused (`Refused`). The user edits
the spec (`Edit`), the informers catch up (`Sync`), API calls fail (`CallFails`), the
process crashes (`Crash`). `overlapped` is a history variable: a goroutine was left over by
a call whose `Wait` ran early. The two controllers are the same code, one module models both.
The object is never deleted here (the controllers do nothing about it, the garbage collector
removes the children), so that the `Get` of `Reconcile` finds it; that this `Get` fails, which
ends a call before it has done anything, is no step.

### `ReconcileContract`: what a reconciler promises of its children

The abstract specification that `StorageReconciler` and `ControlPlaneReconciler`
implement (`KeepsContract`, a refinement mapping by INSTANCE). Its state is the last
version of the spec asked for and the version each child was applied from. `Ask` adds a
version; `Bring` takes a child forward, to a version asked for and not beyond the children
it needs; `PutBack`, the one undesirable step, is open to children that are not `Kept`, and
to all after `LetLoose`.

| abstract | storage controllers | ControlPlane |
|---|---|---|
| `asked` | `version` | `cp.object.ver` |
| `applied` | `child[c].ver` of StatefulSet and Service | `child[i][k]` of every component |
| `Needs` | Service: StatefulSet | general's children: those applied before; of any other component: all of general's |
| `Kept` | both | those of general |
| `loose` | `overlapped` | `~Ordered`, `Wait` has run before `Add` |

### `ControlPlaneReconciler`: the ControlPlane, call after call

EXTENDS `ReconcileGroup` with two or more components and replaces the abstract
bodies by the code's. `Work(i)` lists what the body of a component does, in order:
the general ConfigMap, Secret and Service; for each other component its Deployment,
the status update and its Service, with a ConfigMap first for the gateway. Server,
cache and ops are the same code, so that two or three components stand for five.

What makes it different from the storage controllers is that main waits only for the
first component. `terminated` is closed for good when general has ended, so that
the other four run side by side and outlive the call *in every ordinary schedule*:
leftovers are the rule. The goroutines of a call share one copy of the object
(`copy[c]`, the pointer `cp`). A status update is three steps: `ReadCount` compares
the count in the cache with the copy's and puts it there, `SendStatus` sends the copy
as it then is, `DecodeAnswer` overwrites the copy with the answer. Between them the
others do the same to the same copy, and the finalizer patch changes the resource
version. `CreateOrUpdate` is one step (`ApplyChild`): what it writes does not depend
on what it reads, and a conflict is a failing call; `StorageReconciler` has both
steps. `overlapped` is a history variable: `Wait` ran before the first `Add` in an
earlier call.

### `FinalizedObjects`: custom resources with finalizers

The objects of one kind at the API server (`api`), the informer's copies
(`cache`) and how often each has been created (`created`), with what people, the API
server and the informer do to them (`CreateObject`, `DeleteObject`,
`AddForeignFinalizer`, `RemoveForeignFinalizer`, `CatchUp`) and the two
server-side applies of the controllers (`PatchFinalizerIn`, `PatchFinalizerOut`).
`PipedController`, `EnvironmentController` and `Lifecycle` INSTANCE it.

An object carries its incarnation (`uid`), its finalizers (the operator's, and
whether it has any other), its phase and the id in its status. The history field
`finBy` is the incarnation that the call which added the finalizer had read.
A *ghost* is an object without a spec, made by a finalizer patch that found
nothing. `generatePatchFinalizersObject` writes the other
finalizers under a key `objectMeta`, which is none of the object's: the patches
carry the operator's finalizer or none, and that is how they are modelled.

### `PipedController`: the Piped controller and its PipeCD service

One worker, one remote call per step (`pc` names the call about to be made).

| action | code |
|---|---|
| `Load` | `Reconcile`, piped_controller.go:60-117: object from the cache, gates, deletion guard |
| `FindOne`, `FindError` | `FindByName` and the branch on its error, 129-151 |
| `FindEnvironment`, `RegisterPiped`, `GetPiped` | 132-143 with `EnvironmentService.Find` and `PipedService.Create` |
| `ApplySecret`, `ApplyConfigMap`, `ApplyDeployment` | `reconcilePipedObject`, 202-348 |
| `UpdateStatus` | 350-379, with the resource version check |
| `AddFinalizer` | 159-166, server-side apply |
| `DisablePiped`, `RemoveFinalizer` | `reconcileDelete`, 394-409 |
| `Create`, `Delete`, `AddForeign`, `RemoveForeign`, `DisableInWebUI`, `ToggleGate` | people |
| `SyncCache`, `Collect`, `Crash` | informer, garbage collector, restart |

A registration is an index into `reg`, which stands for its id and for its key.
The objects are those of `FinalizedObjects`. `Disturbances` chooses what may go
wrong in a run and `MaxSpent` how often; everything else is free.

`UpdateStatus` has two outcomes after a write: the client library may
leave the copy without its kind, in which case the finalizer patch made from it is
refused and a later call adds the finalizer. Both are allowed.

### `EnvironmentController`: the Environment controller and its service

The same shape and the same conventions, with the services' own order of calls.

| action | code |
|---|---|
| `Load` | `Reconcile`, environment_controller.go:46-81: object from the cache, gate, deletion guard |
| `FindEnvironment` | `CreateIfNotExists`, environment_service.go:61-69, its `Find` and the branch on the error |
| `AddEnvironment`, `FindAdded` | `Create`, environment_service.go:49-59: the call, and the `Find` of what it added |
| `UpdateStatus` | environment_controller.go:98-107 |
| `AddFinalizer`, `RemoveFinalizer` | 109-128, 131-164 |

PipeCD has no call that deletes an environment, and `EnvironmentService.Delete` does
nothing: an environment, once added, stays, and `added` is a sequence that only
grows. A ghost has no name; the server refuses to add an environment without one.

### `GeneratedObjects`: what the generated objects say of each other

The part of `pkg/object` in which several files have to agree, as operators: names
(`Name`, a sequence of words), the order in which a component's goroutine applies its
objects (`Applied`), the keys of generated data (`Data`), what a pod mounts (`Mounts`)
and which files its arguments name (`Opens`), the ports of containers and Services
(`ContainerPorts`, `ServicePorts`), the selectors (`Selects`) and who connects to what
(`Connects`: the embedded gateway configuration and the server's `--cache-address`;
`ClientSecret`, `ClientConnects`: `NewPipeCDWebService`). Each operator has a case per
component; its `map` entry names the function of one of them, and the others are
their counterparts in `gateway.go`, `server.go`, `cache.go`, `ops.go` and
`controlplane_general.go`.

### `Lifecycle`: the ControlPlanes of a namespace

From the creation of a ControlPlane to the collection of what it leaves behind.
Each generated object (`child`) is reduced to its owner reference, name and uid.

| action | code |
|---|---|
| `Load` | `Reconcile`, controlplane_controller.go:50-73 |
| `StartCall` (in `Load`) | the first block of `reconcile`, 84-93: what the last call left at work moves to a leftover slot, and `wg.Wait` may run before `wg.Add` (`early`) |
| `Proceed` | the `select` of a block (`Terminated`) and the `go` of the next, 94-139 |
| `Apply` | one `CreateOrUpdate` of a goroutine, of the running call or an earlier one, with its `SetControllerReference` |
| `AddFinalizer`, `RemoveFinalizer` | 141-151, `reconcileDelete` 624-640 |
| `Create`, `Delete`, `AddForeign`, `RemoveForeign` | people |
| `SyncCache`, `Collect`, `Crash` | informer, garbage collector, restart |

`SetControllerReference` refuses an object owned by another ControlPlane, and this
error of the general goroutine is what `reconcile` returns: that alone keeps a second
ControlPlane out. It compares owners by name, not by uid, so that a recreated
ControlPlane takes over the children of its predecessor before they are collected, and a
goroutine still at work for the predecessor takes them back.

As in the code, nothing waits for the goroutines of a call but the select of its first
block: `body[0]` has those of the last call, which go on when it returns, and the other
slots those of calls before it (`MaxLeftovers` bounds them). Each works for the incarnation
its call had read (`of`). In a call in which `wg.Wait` runs before `wg.Add`, no block is
waited for, and a refused general may be received or not. Two history variables say what
the properties depend on: `overtaken`, that there has been such a call, and `takenBack`, the
gateway ConfigMaps that a goroutine of an incarnation that is gone has written since one of
the present incarnation did. The status and the versions of the spec are
`ControlPlaneReconciler`'s; no module has them together with the deletion.

### `Installation`: three controllers and the web client

Two ControlPlanes, an Environment and a Piped of one namespace with the three
controllers side by side, one worker each. It composes what the controllers' own modules
take as given: the gate of the Piped controller, the web client, the server. INSTANCEs
`FinalizedObjects`.

| action | code |
|---|---|
| `LoadControlPlane`, `LoadEnvironment`, `LoadPiped` | the beginnings of the `Reconcile`s, with `NewPipeCDWebServiceClient` (`ClientFor`) |
| `ApplyChildren` | the ControlPlane's `reconcile` with `SetControllerReference` |
| `Find` | `Find` of `CreateIfNotExists`; `FindByName`, the branch on its error and the check of `pipedKeyCache` (piped_controller.go:129-151) |
| `Add` | `AddEnvironment`; `Find` of the environment and `RegisterPiped` |
| `Get` | the `Find` after `AddEnvironment`; `GetPiped` (piped_service.go:86), after which the key is cached |
| `Record` | the Piped's children and `Status().Update` |
| `Finalize`, `Unfinalize` | the finalizer patches |
| `Disable` | `PipedService.Delete` |
| `CallFails`, `Restart`, `Create`, `Delete`, `Collect` | API and gRPC calls, the end of the process, people, garbage collector |

A worker's copy and its connection (`to`) get old while a call lasts. `key` is what
`pipedKeyCache` holds: nothing, the key of the piped that is registered, or that of one disabled
since. A call may fail between any two steps, and the process may end: a piped whose
`RegisterPiped` was the last thing that worked is registered without its key. What the detailed
modules are about is left to them: informers that lag, the web UI, keys of other Pipeds, and
the list that fails although the thing is there, with the duplicate it leads to; the children
of a ControlPlane come and go as one (`owner`).

### `OtherObjects`, `TypedConfigs`: Minio, Mongo, Piped, and the unions

`OtherObjects` continues `GeneratedObjects` with the names, children, labels, ports, mounts,
files and roles generated for a Minio, a Mongo and a Piped. `TypedConfigs` has what
`MarshalJSON` writes of a configuration of which one of several kinds is given
(`DataStore`, `FileStore`, `CloudProvider`, `AnalysisProvider`): `given` is the set of kinds
whose field is not nil. Both are operators without state. They are checked by the assumptions
of `MCInstallation`, which TLC evaluates in `installation_order`:

* `ServicesAssumption`: a Service leads to a port that its container opens, and
  selects no pods but the component's (all Pipeds of a namespace share their labels);
* `NamesAssumption`: which owners generate an object of the same kind and name;
* `PipedAssumption`: the pod of a Piped finds the files its arguments and its
  configuration name, and its ServiceAccount has the role; a provider without a kind
  leaves it without a ConfigMap;
* `ConfigsAssumption`: a kind given alone is the one written, and what is written of a
  store and read back is written the same;
* `ReplicasAssumption`: replicas are not negative, and one if none are asked for.

### Proof modules

`ReconcileGroupProofs`, `PipedControllerProofs`, `EnvironmentControllerProofs`,
`LifecycleProofs`, `InstallationProofs`, `ReconcileContractProofs`, `StorageReconcilerProofs`
and `ControlPlaneReconcilerProofs` EXTEND the modules they are about; the last two also EXTEND
`ReconcileGroupProofs`, whose invariant they reuse for the call that is running, and take
`ReconcileContractProofs` with INSTANCE, to get from the contract what it implies of the
children. The `MC` modules instantiate the specifications for TLC.

## 3. Runs

| run | instance | shows |
|---|---|---|
| `group_controlplane` | 5 components, the last four may send nil | every schedule of one call: 17 thousand states |
| `piped_calls` | one object, all but a failing ListPipeds, 3 disturbances, fair | finalizer, status, registration, configuration and rollout stay in step; no duplicates; deletion completes; disabling in the web UI unblocks a lost key: 70 thousand states |
| `piped_key` | two objects under one name, no call fails that loses a key, 2 disturbances | the key in a Secret is that of the id in ConfigMap and Deployment |
| `storage_minio` | 2 versions, each without storage, with a volume or with a claim, 1 failing call or crash, 1 leftover, fair, deadlock checked | the contract, with a rollback only by a leftover; nil means applied; convergence of what can be applied: 264 thousand states |
| `environment_shared` | two objects of one name, 9 kinds of disturbance, 2 in a behaviour, 3 environments, fair | no duplicates unless a list fails; status and finalizer in step; objects settle; deletion completes |
| `controlplane_children` | general and gateway, 2 versions, 1 change of the count, 1 failing call, 1 leftover call, fair; `Wait` not before `Add` | configuration before rollout, the contract and convergence, over overlapping calls: 332 thousand states |
| `controlplane_status` | general and two Deployments, 2 changes of the counts, fair; `Wait` not before `Add` | what a shared copy may do to the status: 111 thousand states |
| `lifecycle_takeover` | two ControlPlanes with general and server; one of the two deleted and, once, recreated, held, a failing call or a crash, or one call whose `Wait` runs before `Add`; 1 leftover call, fair | one at work at a time, nothing stolen, files present, deletion completes, the survivor takes over: 240 thousand states |
| `installation_order` | two ControlPlanes, an Environment, a Piped, 2 deletions, recreations, failing calls or restarts, fair | whatever the order of applying and deleting, everything comes up, unless a key is lost, and comes down; the assumptions about generated objects: 223 thousand states |
| `controlplane_lost` | as `controlplane_status` | *violation*, see section 6 |
| `piped_create` | one object, one failing ListPipeds | *violation*, see section 6 |
| `piped_twokeys` | two objects, two names, nothing goes wrong | *violation*, see section 6 |

Properties, and what each would catch:

* `NoWaitGroupMisuse`: a raise of the counter under a released waiter (the
  runtime panics) and a waiter nobody will release. `RestAfterFirst`,
  `FirstFailureReported`: a Deployment applied before what it mounts, an error
  of the first block swallowed. Both are conditional on `~earlyWait`: without the
  condition they are false of the code, and that is the price of starting the
  waiter first. `OneFailureDelivered`: who among several failing components
  ends. `ReconcileReturns`, `WaiterEnds`: main and the waiter end in every schedule,
  whoever waits for good (a component that failed late does).
* `KeepsContract`: both kinds of reconciler implement `ReconcileContract`. For the storage
  controllers, no leftover, stale cache, refusal or crash ever undoes a later version, and
  a Service never runs ahead of its StatefulSet. For the ControlPlane, whose
  goroutines outlive their call regularly, only general's children are never put back:
  main waits for that goroutine. Both hold until `Wait` has overtaken `Add`.
* `NilMeansApplied`: a nil that did not wait for its goroutine. `Converges` of the
  storage controllers is about a last version that can be applied (`Applicable`): earlier
  ones may have killed the process or been refused.
* `MountedBeforeRollout`: the pods of server and ops mount the general ConfigMap and
  Secret; whatever leftovers do to the Deployments, these are never behind them.
  Conditional on an ordered history, since early `Wait` undoes the order. `CountsAreRead`: a status update sends four counts on behalf of one
  component, the other three must be the recorded ones or on their way.
  `Converges`, `StatusConverges`: everything is repaired by later calls.
* `FinalizerGuardsRegistration`, `DisabledBeforeGone`: the two halves of "a
  finalizer protects a registration". The first is about objects whose finalizer
  was put there by a reconcile of the same incarnation (`finBy = uid`); a patch
  that meets a new incarnation breaks it otherwise.
* `RolloutAfterConfig`, `KeyBelongsToId`: the three children a pod mounts agree
  when it is rolled out. `KeyBelongsToId` needs runs in which no registration
  loses its key and the objects share a name: with two names see section 6.
* `OneEnabledPerName`: no duplicate registration; false if ListPipeds may fail.
* `StatusIdStable`, `FinalizerAfterId`, `OneEnvironmentPerName`, `Settles`: an
  environment's id may be used by pipeds as soon as it is recorded, so it is of an
  environment of that name and is not replaced, even when a failing list adds duplicates;
  without a failing list (history variable `listFailed`) there are none, whether a
  reconcile dies between adding and recording or a second object wants the same name.
  `Settles` says that objects get there: with duplicates `Find` fails for good (section 6).
* `NeverStolen`, `OneControlPlaneAtWork`: a missing owner check, or a `reconcile` that
  goes on after general was refused. A child of an existing ControlPlane changes hands in
  one way only: a goroutine of an earlier incarnation takes it back. Of the objects that
  all share not even that happens, since main has waited for the goroutine that writes
  them, unless `Wait` ran early. `OneControlPlaneAtWork` and `PodsFindTheirFiles` are
  conditional on the latter (`Ordered`): without the condition they are false of the code.
  `PodsFindTheirFiles` relates a Deployment to the
  ConfigMap and Secret of *its* ControlPlane over deletion, recreation and collection:
  garbage collection deletes the children one by one and in any order, while a
  recreated ControlPlane adopts what is still there. It makes an exception for a gateway
  ConfigMap that has been taken back (`takenBack`): the collector then deletes it under
  the pods of the new incarnation, until its next reconcile writes it again. `SurvivorServes`: once only one
  ControlPlane is left, each connection between its deployed components, into its
  gateway and from the operator's web client ends at a container port that is open, of
  its own pods only, whatever late goroutines and early calls have done before. The strings themselves are checked for all components, whatever
  is deployed, by `WiringAssumption` in `MCLifecycle`.
* `ComesUp`: an order of applying the manifests, or of deletions and recreations among
  them, after which the operator needs help: a second ControlPlane deleted later, an
  Environment recreated under the feet of a Piped, a registration that is there already,
  a call that fails between any two of its remote calls. It excludes a registered piped
  whose key is lost (`KeyLost`): that one waits for somebody to disable it in the web UI,
  which is `DisableUnblocks` of `PipedController`, or goes on with a former key.
  `ComesDown`: a Piped whose Environment or ControlPlane went first is stuck only until
  they are back, and a lost key does not hold it. Both promise something only while one
  ControlPlane is alone.
* `DeletionCompletes`, `DisableUnblocks`: liveness up to the next disturbance
  (`spent > n`): the promise is about what happens when people stop acting.

Bounds. Five components are the code's number. In `ControlPlaneReconciler` the
children of different components do not interact, so that one Deployment and one
leftover call show the ordering; the shared status needs two Deployments. The runs
use `OrderedSpec`, which leaves out behaviours in which `Wait` runs before `Add`: the
safety properties they check are conditional on that, and early schedules are in
`group_controlplane` and `storage_minio`. Larger instances were checked once with the
same result: early schedules in `controlplane_status` (1.3 million states), three
components and one leftover call in `controlplane_children` (3.8 million).
In `PipedController` a
violation needs few disturbances: the known ones take one (a failing list), none (two
keys) or two (delete and recreate under a patch); three leave room for
delete, recreate and a crash or failing call in one behaviour, and `MaxReg` is more
than `MaxSpent` so that it does not stop a registration early. All 13 kinds of
disturbance with four of them (1.9 million states) were checked once without the
liveness properties and with the same result; the proofs of `TypeOK` and
`FinalizerGuardsRegistration` hold for every kind. Registrations without a
disturbance are bounded because a second one needs an earlier one gone or lost.
In `EnvironmentController` one disturbance (a failing list) makes a duplicate, which
leaves one for a deletion, a recreation or a crash; beyond `MaxAdded` the server refuses.
Two objects with names of their own (128 thousand states; three
disturbances without the liveness properties, 940 thousand) were checked once with the
same result, as were two Piped objects with two names (99 thousand).
In `Lifecycle` the competition is about the objects of general; a component besides it
shows whether something is at work. The server mounts most, and the other controllers
connect to it. A takeover takes one disturbance (a deletion); each behaviour adds a
recreation, a crash, a failing call or a foreign finalizer to it, so that a goroutine
left over from the deleted incarnation meets the recreated one. Calls whose `Wait` runs
early are in behaviours of their own: what they lead to, two ControlPlanes side by side,
takes no deletion. One slot for leftover calls shows a late goroutine beside a later call.
The gateway, whose ConfigMap is the exception of `PodsFindTheirFiles`, was checked once in
place of the server, without the liveness properties and with the same result: a deletion and a
recreation (209 thousand states, among them some in which the ConfigMap has been taken back),
and an early call with both (3.6 million).
In `StorageReconciler`
two versions tell old from new, one leftover meets the
current call and those after it; three versions (4.9 million states, safety only) were
checked once with the same result. In `Installation` two
disturbances delete and recreate an object, or delete two in either order, or delete one while
a call fails or the operator restarts; the first creations, in any order and at any time, are
free. To lose a key and get another takes three (a restart, a deletion and a recreation). Deadlock is
checked only there and in the two passing `ControlPlaneReconciler` runs; elsewhere
the system rightly comes to rest.

## 4. Fairness

* Goroutines: every runnable one runs (weak fairness per goroutine). Nothing
  is assumed of which ready case a `select` takes.
* A `NextCall` of the ControlPlane waits for a free slot of a leftover call, whose
  goroutines end by their own fairness: the bound delays calls, it does not stop them.
* API and gRPC calls return, with an answer or an error: `WF` of the worker.
* Informers catch up: `WF` of `SyncCache` and `Sync`.
* The work queue is first-in first-out, errors queue a key again and the 30 s
  resync queues every object (main.go:42-45): `NextCall` is weakly fair and
  `Load(p)` strongly fair, since loading another object disables it time and again.
* `Installation` assumes the same: strong fairness of each `Load`, weak fairness of the
  workers (`CallFails` is no part of it) and of `Collect`.
* A process that has died is started again at once (`Restart` is part of the step);
  whether it dies again is up to the spec.
* `Lifecycle` assumes the same per ControlPlane: `Load(c)` strongly fair, since another
  object's call disables it, and so does, in a bounded model, that every slot for a
  leftover call is taken; the goroutines of each call's slot weakly fair, and the worker, the
  informer and the garbage collector (`Collect`), on which a takeover rests.
* People and crashes are never assumed to act, and the garbage collector only in these two.

## 5. Proofs

TLAPS proves, for every value of the constants:

| theorem | property | run |
|---|---|---|
| `ReconcileGroupProofs!TypeCorrect` | `TypeOK` | `group_controlplane` |
| `WaitGroupUsedSafely` | `NoWaitGroupMisuse` | `group_controlplane` |
| `FirstComponentFirst` | `RestAfterFirst` | `group_controlplane` |
| `FirstFailureIsReturned` | `FirstFailureReported` | `group_controlplane` |
| `AtMostOneFailureEnds` | `OneFailureDelivered` | `group_controlplane` |
| `NeverStuck` | `NotStuck`: somebody can take a step until the call is over | |
| `StepsRunOut` | `NeverBack`: every step leaves fewer steps | |
| `PipedControllerProofs!TypeCorrect` | `TypeOK` | `piped_calls` |
| `FinalizerIsGuard` | `FinalizerGuardsRegistration` | `piped_calls` |
| `PipedControllerProofs!NoDuplicates` | `OneEnabledPerName`, if ListPipeds never fails | `piped_calls` |
| `ConfiguredBeforeRollout` | `RolloutAfterConfig` | `piped_calls` |
| `DisabledBeforeRelease` | `DisabledBeforeGone` | `piped_calls` |
| `KeyMatchesId` | `KeyBelongsToId`, if no call fails that loses a key, under one name | `piped_key` |
| `RegisteredIfMissing` | `CreatedOnlyIfMissing`, if ListPipeds never fails | `piped_create` (violated there) |
| `DisablesTheDeletedOnly` | `OnlyTheDeletedDisabled`, if names differ | |
| `EnvironmentControllerProofs!TypeCorrect` | `TypeOK` | `environment_shared` |
| `FinalizerImpliesId` | `FinalizerAfterId` | `environment_shared` |
| `RecordedIdStays` | `StatusIdStable` | `environment_shared` |
| `EnvironmentControllerProofs!NoDuplicates` | `OneEnvironmentPerName` | `environment_shared` |
| `StorageTypeCorrect` | `StorageTypeOK` | `storage_minio` |
| `NilAfterApplied` | `NilMeansApplied` | `storage_minio` |
| `StorageImplementsContract` | `KeepsContract` | `storage_minio` |
| `ServiceFollowsStatefulSet` | `ServiceFollows`, what the contract implies | |
| `StorageCallsAreSafe` | `NoWaitGroupMisuse`, `OneFailureDelivered`, `NotStuck` in every call | |
| `ContractKeepsOrder` | of `ReconcileContract`: `NeverAhead`, `NeedsFirst` | |
| `CPTypeCorrect` | `CPTypeOK` | `controlplane_status` |
| `MountedFirst` | `MountedBeforeRollout` | `controlplane_children` |
| `CountsReadFirst` | `CountsAreRead` | `controlplane_status` |
| `ControlPlaneImplementsContract` | `KeepsContract` | `controlplane_children` |
| `ChildrenStayInOrder` | `ChildrenInOrder`, what the contract implies | |
| `ControlPlaneCallsAreSafe` | `NoWaitGroupMisuse`, `OneFailureDelivered`, `NotStuck` in every call | |
| `LifecycleProofs!TypeCorrect` | `TypeOK` | `lifecycle_takeover` |
| `NotStolen` | `NeverStolen` | `lifecycle_takeover` |
| `FilesFound` | `PodsFindTheirFiles` | `lifecycle_takeover` |
| `OneAtWork` | `OneControlPlaneAtWork` | `lifecycle_takeover` |
| `InstallationProofs!TypeCorrect` | `TypeOK` | `installation_order` |
| `RecordedAreRegistered` | `RecordedIsRegistered` | |
| `FinalizedAreRecorded` | `FinalizedIsRecorded` | |
| `ReleasedAreDisabled` | `ReleasedIsDisabled` | |

A theorem without a run states what is defined beside it in the module of the proofs.

*ReconcileGroup.* `TypeOK` with `counter \in Nat` is not inductive: nothing in
it says that a `Done` finds a positive counter. The invariant therefore equates
the counter with the number of goroutines between `Add` and `Done`
(the cardinality of a set, reasoned about with the library's facts on it),
says which components a block number implies to be idle, and relates the waiter's place to
`earlyWait` and the first component. Constants: a positive number of
components, nothing else.

*ReconcileGroup, its end.* `ReconcileReturns` and `WaiterEnds` are liveness and stay with TLC,
but what they rest on is safety and is proved. `NeverStuck`: a component that main waits for is
on its way to its send, and a parked waiter is owed a `Done`. `StepsRunOut`: a set with one
element for each step that main, the waiter or a component may still take, at most `6n + 5` for
`n` components, is finite and smaller after every step. The guards in `NotStuck` are those of
the steps; that they are what ENABLED says, TLC has checked on the five blocks. Since the call
that is running is an instance of the group in both reconcilers, `StorageCallsAreSafe` and
`ControlPlaneCallsAreSafe` carry this over to every call, also beside leftover goroutines.

*PipedController.* `FinalizerGuardsRegistration` speaks of the API server's
object, while `AddFinalizer` writes on the strength of a copy and a
status written steps ago. The strengthening says that ids in
use are registered and, for the two names involved, that an id in an object's status,
in the worker's hands or in any copy is one of that object's name; that uids only
grow, so that a copy of this incarnation which carries an id proves the
object carries it; and what the worker knows at each `pc`. `NoDuplicates` needs in
addition that between the failed `FindByName` and `RegisterPiped` nothing is
enabled under that name, which is where the one worker per controller enters.
`"list" \notin Disturbances` is an assumption of the theorem, not of the module.

*PipedController, its actions.* `ConfiguredBeforeRollout` is about what the worker applied in
earlier steps: as long as the incarnation it has read is there, the collector leaves its Secret
and ConfigMap alone, and nobody else writes them. `DisabledBeforeRelease` goes back from the
object that goes to the copy the worker deleted it by. A copy of an object that only the
operator holds back names the last id recorded of it, since a new id goes to the
incarnation the worker and the informer know and not to one about to end; `DisablePiped`
comes before the patch, and what is disabled stays so.

*PipedController, its keys.* The key in the cache is that of the one enabled piped: a key is
cached with its registration, and the only disturbances that would lose one or add a piped
beside it are excluded by name (`list`, `lost`, `get`). From there it follows the worker:
between `GetPiped` and the rollout it holds the id whose key it writes, and once the Secret is
applied, no other key is written to this incarnation's. `NoDuplicates` enters because with two
enabled pipeds of the name the worker could go from one to the other. The hypothesis of one
name is needed: section 6, `piped_twokeys`. `RegisteredIfMissing` shows that the failing
ListPipeds is the only way to the violation of `piped_create`: with all other disturbances the
comment holds. `DisablesTheDeletedOnly` needs different names the other way round: two Pipeds of one name
share a registration, and deleting the one disables the other's (section 6).

*EnvironmentController.* `Find` succeeds only if exactly one environment has the name; with the
invariant that a recorded id is of an environment of that name, the one found is the one
recorded. Copies are tied to incarnations as in `PipedController`. `NoDuplicates` needs that
nobody adds an environment of the name between `Find` and `AddEnvironment`: the one worker.

*StorageReconciler.* The invariant of `ReconcileGroup` holds of the call that is running. As
long as `Wait` has not overtaken `Add`, a call ends after its goroutine, so that no leftover
has a body, the running one works from the version loaded, what it has passed is at that
version, and nothing is ahead of it. The refinement needs no more: a write is a `Bring`, a
`PutBack` after an overlap, or changes no version.

*ReconcileContract.* What is needed is kept and so only goes forward: `NeedsFirst` is inductive.
The two instances satisfy the condition (`WellFormed`): a Service needs its StatefulSet and
nothing is put back, and everything needs only general's children, which are not put back.
`ServiceFollowsStatefulSet` and `ChildrenStayInOrder` are this theorem read through the two
refinements: they follow from the contract, not from the invariants of the reconcilers.

*ControlPlaneReconciler.* Here leftovers are regular, and the invariant is about all calls. A call
keeps the version it has loaded, since an update with an old resource version is refused, and
the same resource version means the same content. In an ordered history general works in the
current call only (main waits for it), and no other goroutine, of whichever call, works from a
newer version than that of the children all share: it was launched after general was done
with the same copy. So whatever a leftover writes, it is not newer than what it mounts.
`CountsReadFirst` says of each copy that could be sent which counts it may have changed: those
whose goroutine stands between reading and sending.

*Lifecycle.* What a call does, it does for the incarnation it has read, and between the
reading and the writing that one may be deleted, collected and succeeded by another, while
its goroutines go on. The invariant orders all incarnations in play, those that own a child or
that a goroutine or the worker is at work for: none is later than what the informer has seen,
nor, of the object being worked on, than the worker's copy (`AgesInv`). So a goroutine never
takes a child forward past an incarnation that exists, only back (`NotStolen`).
In an ordered history general is at work only in the first block of the running call
(`GeneralInv`), for what the worker has read. Hence nobody can take back what it has applied:
the collector leaves the children of an incarnation that exists alone, another ControlPlane is
refused, and a late goroutine is never general's (`SharedKept`). So what general has taken
stays taken, first in the course of its block (`ProgressInv`), then for every incarnation that
has a later goroutine at work or a Deployment (`HeldInv`). Two ControlPlanes with Deployments
would both own the Secret of general: `OneAtWork`. `FilesFound` adds that every file named in
an argument is in an object of general, or in the ConfigMap that the gateway's goroutine writes
before its Deployment and that stays unless it is taken back (`GatewayInv`, `ConfigKept`); this
part needs no ordered history.
Constants: `Blocks` is a sequence of components; any ControlPlanes, disturbances and bounds.

*Installation.* The three workers touch different objects, so a step of one leaves right what
the others know. The invariant (`IInv`) says what that is: a copy is of an incarnation that has
been created; what is being disabled or released is still as it was read, since nobody else's
finalizer is about and an object being deleted is nobody's to change; what has been registered
or recorded for an incarnation stays so as long as that incarnation is live. A worker past `Add` knows its
object to be registered, whether or not it got the key: `key` plays no part. `registered` shrinks
only by `Disable`, of a Piped being deleted, so that `RecordedIsRegistered` survives it, and
nothing takes the Environment's registration away while a Piped is registered with it. An object
recreated during a call is of a later uid than the copy (`finBy # uid`), which is why
`FinalizedIsRecorded` speaks of calls that had read this incarnation.
Constants: any ControlPlanes; only `ObjectsAssumption` and `SpentAssumption`.

The inductive invariants were also checked with TLC, on the instances of the runs; that of
`ControlPlaneReconciler` with early schedules in `controlplane_status` (1.3 million states), that
of `Lifecycle` with the gateway as well (3.6 million), and `KeyInv` of `PipedController` (1
million). So were the properties
without a run. No proof assumes an ordered history: `Ordered` is a part of the properties.

Every invariant and every action property of a passing run is proved. Out of the prover's reach,
and model-checked only: the liveness properties (fairness and ENABLED), and what the generated
objects say of each other, which TLC evaluates on the functions that `:>` and `@@` build
(tlapm has no backend for these).

## 6. What the checks say about the code

Three comments of the repository are contradicted:

* `controlplane_lost`: *"this is equal deployment.status.availableReplicas of
  gateway"* (api/v1alpha1/controlplane_types.go:408, and the same of the others). The
  answer to one component's update is decoded over the count that another has just put
  into the shared copy; the other's update then sends the old count, succeeds and is
  recorded as an event. `StatusConverges` says that later calls repair it.

* `piped_create`: *"list PipeCD Piped & create if Piped does not exist"*
  (piped_controller.go:129). Every error of `FindByName` leads to `Create`, also
  a failed ListPipeds: the piped gets a second registration of the same name,
  after which `FindByName` fails for good and each reconcile that goes through
  adds another.
* `piped_twokeys`: *"The path to the file containing the generated Key string
  for this piped."* (api/v1alpha1/piped_types.go:62). With two Piped objects the
  file holds the key of whichever piped was registered last; its own, if it has
  the same name.

Seen while modelling, stated as preconditions and not as findings because no
document claims otherwise: `earlyWait` undoes the order of the ControlPlane's blocks, so that those of a ControlPlane that
is refused run all the same and two have Deployments (`Ordered`); a goroutine still at work for a
deleted ControlPlane takes children of the recreated one back, for the garbage collector to
delete, until the next reconcile makes them anew (`takenBack`); a piped whose key is lost, since
`GetPiped` failed after `RegisterPiped` or the operator was restarted, holds its Piped up until
somebody disables it in the web UI, or goes on with a former key if there is one (`KeyLost`); a
Piped whose Environment or ControlPlane is gone is never deleted (`open` in
`DeletionCompletes`); a ghost Piped names no Environment and is never
looked at (`~ghost`); a registration made for an object that is deleted before
its finalizer is added stays enabled; two Pipeds of one name share a registration, and the
deletion of one disables that of the other, which registers anew with its next reconcile
(`OnlyTheDeletedDisabled` assumes different names); once a failing ListEnvironments has led to
a second environment of a name, `CreateIfNotExists` takes the error of `Find` ("too
many") for "does not exist" and adds another one with every reconcile (runs of
`EnvironmentController` bound this by `MaxAdded`); a ghost ControlPlane, made by a
finalizer patch after a deletion, holds the names another one waits for until
somebody deletes it (`SurvivorServes` is about a ControlPlane that is left alone); a
Minio or Mongo without `spec.storage`, or a Minio without `spec.secret`, ends the
operator with a nil dereference, again after each restart, until the object is changed
(`Panic`); a change between claim and volume is refused for good (`Applicable`); while
there are two ControlPlanes in the cluster, in whatever namespaces, no Environment and no
Piped is reconciled or deleted (`Alone`).

In the generated objects: `storage: {}` gives no volume at all, although
api/v1alpha1/types.go:9 calls EmptyDir the default; the volumes and claims of Minio and Mongo
are mounted into no container; of several kinds of store or provider the first is taken and the
others are ignored (the code's TODO: "should be xor"); Cloud Firestore is written as
`FILESTORE`; a Piped provider without a kind makes the ConfigMap, and so the reconcile, fail
after the piped has been registered; the Service of each Piped selects the pods of all Pipeds of
the namespace; a Piped named `pipecd` generates the ConfigMap, Secret and Service of general,
and two Pipeds of one name in two namespaces the same ClusterRole and ClusterRoleBinding.

## 7. Left out

* The status and the versions of the spec of a ControlPlane together with its deletion: the
  former are in `ControlPlaneReconciler`, the latter in `Lifecycle`. A Piped
  named `pipecd`, whose children would meet those of general (`NamesAssumption` says so).
* Torn reads of the shared copy: `SendStatus` encodes and `DecodeAnswer` overwrites
  it in one step each. The counts are independent words, so that an encoding that
  overlaps a decoding mixes the two orders of the steps.
* The deletion of a Minio or Mongo, and a `Get` that fails at the beginning of their
  `Reconcile`: neither changes a child. In `Installation`, the list that fails although what
  it looks for is there; `PipedController` and `EnvironmentController` have it.
* Changes of `spec.name` (of Piped and Environment) and re-enabling a piped in the web UI.
* The informer passing through every version: `SyncCache` jumps to the latest.
* Reads of children from the cache in the Piped controller: a stale read shows
  as a failing write (`api`).
* `status.availableReplicas` and `status.environmentID` of a Piped, whose updates
  differ from that of the id only in the value; ServiceAccount, Service, ClusterRole
  and ClusterRoleBinding, which carry neither id nor key.
* Images, resources, probes and environment variables of generated objects.
* The Application controller: `reconcile` is a TODO that returns nil, and
  `reconcileDelete`, reached only if somebody else's finalizer holds the object, disables
  the application of an id that nothing records. It changes no state of its own, and of
  `ApplicationService` it calls only `Delete`.
* ClusterRole and ClusterRoleBinding: created, without an owner, and never deleted; a
  property would only say so.
* Several namespaces. `SingleControlPlane` is a matter of the whole cluster, which
  `Installation` has in one namespace; the Secret is looked up in the namespace of the object.
* Leader election (two processes), token expiry, gRPC connections.
* `utils.ExpBackoff`, `RandString`, `SemaphoreControlPlane`, `WithCertFile`:
  nothing calls them. Generated deep copies.

## 8. Plan

Done: `ReconcileGroup` and its proofs; `ReconcileContract` with its two implementations,
`StorageReconciler` and `ControlPlaneReconciler`, and their proofs; `FinalizedObjects`; `PipedController` and its
proofs; `EnvironmentController` and its proofs; `Lifecycle` and its proofs; `Installation` and its proofs; `GeneratedObjects`, `OtherObjects`
and `TypedConfigs`. Next:

1. The Application controller, once its `reconcile` does something.
