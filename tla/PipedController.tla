--------------------------- MODULE PipedController ---------------------------
(***************************************************************************)
(* The Piped controller (controllers/piped_controller.go) with the PipeCD  *)
(* service it talks to (services/piped_service.go).                        *)
(*                                                                         *)
(* One worker reconciles the Piped objects one call at a time.  A call     *)
(* reads its object from the informer's cache, finds or registers a piped  *)
(* of the same name at the PipeCD server, applies a Secret with the piped  *)
(* key, a ConfigMap and a Deployment with the piped id, records the id in  *)
(* the object's status and then adds its finalizer; a deleted object has   *)
(* its registration disabled and the finalizer removed.  The key of a      *)
(* registration is returned once, by RegisterPiped, and is kept in the     *)
(* package variable pipedKeyCache, shared by all Piped objects and lost    *)
(* when the process restarts.                                              *)
(*                                                                         *)
(* Every remote call is a step of its own, so that everything else -- the  *)
(* user, an operator of the PipeCD web UI, the informer, the garbage       *)
(* collector, a crash -- may come between any two of them.                 *)
(***************************************************************************)
EXTENDS Integers, Sequences, FiniteSets

CONSTANTS
  Pipeds,        \* the Piped objects (namespaced names)
  NoPiped,       \* what the idle worker is working on
  NameOf,        \* spec.name of each object
  Disturbances,  \* what may go wrong or be done from outside, see Kinds
  MaxSpent,      \* bound: disturbances in a behaviour
  MaxReg         \* bound: registrations made at the PipeCD server

\* Calls that fail:  list (ListPipeds), env (ListEnvironments), register
\* (RegisterPiped), lost (RegisterPiped, after the server has registered),
\* get (GetPiped), disable (DisablePiped), api (a write to the Kubernetes
\* API).  A crash of the operator.  What people do: delete and recreate a
\* Piped object, disable a piped in the web UI, add a foreign finalizer,
\* remove or restore the Environment or ControlPlane (gate).
Kinds == {"list", "env", "register", "lost", "get", "disable", "api", "crash",
          "delete", "recreate", "webui", "foreign", "gate"}

ASSUME NoPipedAssumption == NoPiped \notin Pipeds
ASSUME NameOfAssumption == NameOf = [p \in Pipeds |-> NameOf[p]]
ASSUME DisturbancesAssumption == Disturbances \subseteq Kinds
ASSUME BoundsAssumption == MaxSpent \in Nat /\ MaxReg \in Nat

Names == {NameOf[p] : p \in Pipeds}

VARIABLES
  api, cache, created,   \* the Piped objects, see FinalizedObjects
  reg,         \* registrations at the PipeCD server; the index is id and key
  keyCache,    \* pipedKeyCache, 0 when empty
  secret,      \* of each object: the applied Secret: its key and its owner's uid
  configMap,   \* the applied ConfigMap: its piped id and its owner's uid
  deployment,  \* the applied Deployment: its piped id and its owner's uid
  open,        \* Environment object, one ControlPlane and its Secret exist
  pc,          \* the remote call the worker is about to make
  cur,         \* the object it is working on
  snap,        \* its copy of that object (the variable p of the code)
  id,          \* the piped id it works with
  spent        \* disturbances so far

INSTANCE FinalizedObjects WITH Objects <- Pipeds

objects == <<api, cache, created>>
children == <<secret, configMap, deployment>>
worker == <<pc, cur, snap, id>>
vars == <<objects, reg, keyCache, children, open, worker, spent>>

NoChild == [val |-> 0, owner |-> 0]

Init ==
  /\ ObjectsInit
  /\ reg = <<>>
  /\ keyCache = 0
  /\ secret = [p \in Pipeds |-> NoChild]
  /\ configMap = [p \in Pipeds |-> NoChild]
  /\ deployment = [p \in Pipeds |-> NoChild]
  /\ open = TRUE
  /\ pc = "idle" /\ cur = NoPiped /\ snap = Absent /\ id = 0
  /\ spent = 0

Disturb(kind) ==
  /\ kind \in Disturbances
  /\ spent < MaxSpent
  /\ spent' = spent + 1

Undisturbed == UNCHANGED spent

\* Mutant: the worker keeps its object.
ReturnHoldingObject == pc' = "idle" /\ UNCHANGED <<cur, snap, id>>

\* Reconcile returns, with or without an error: the key is queued again
\* either way, at the latest by the manager's resync.
Return == pc' = "idle" /\ cur' = NoPiped /\ snap' = Absent /\ id' = 0

\* The next call of the same reconcile.
Continue(step) == pc' = step /\ UNCHANGED <<cur, snap>>

-----------------------------------------------------------------------------
(* Reconcile: the object, its Environment and its ControlPlane are read.   *)
(* Without any of them the call returns nil and changes nothing, before it *)
(* looks at the deletion timestamp; a ghost names no Environment.          *)

\* Mutant: only an object without any finalizer goes to reconcileDelete.
LoadUnlessFinalized(p) ==
  /\ pc = "idle"
  /\ cache[p].phase # "absent" /\ ~cache[p].ghost
  /\ open
  /\ cur' = p /\ snap' = cache[p] /\ id' = 0
  /\ pc' = IF cache[p].phase = "deleting" /\ ~cache[p].foreign /\ ~cache[p].own
           THEN "disable" ELSE "find"
  /\ Undisturbed
  /\ UNCHANGED <<objects, reg, keyCache, children, open>>

Load(p) ==
  /\ pc = "idle"
  /\ cache[p].phase # "absent" /\ ~cache[p].ghost
  /\ open
  /\ cur' = p /\ snap' = cache[p] /\ id' = 0
  /\ pc' = IF cache[p].phase = "deleting" /\ ~cache[p].foreign
           THEN "disable" ELSE "find"
  /\ Undisturbed
  /\ UNCHANGED <<objects, reg, keyCache, children, open>>

-----------------------------------------------------------------------------
(* reconcile: the piped at the PipeCD server *)

Enabled(name) == {i \in DOMAIN reg : reg[i].enabled /\ reg[i].name = name}

\* Mutant: without a key the piped is registered anew.
FindOneOrRegister ==
  /\ pc = "find"
  /\ \E i \in Enabled(NameOf[cur]) :
       /\ Enabled(NameOf[cur]) = {i}
       /\ \/ keyCache = 0 /\ Continue("env") /\ UNCHANGED id
          \/ keyCache # 0 /\ Continue("secret") /\ id' = i
  /\ Undisturbed
  /\ UNCHANGED <<objects, reg, keyCache, children, open>>

\* FindByName found exactly one: its key must be in the cache.
FindOne ==
  /\ pc = "find"
  /\ \E i \in Enabled(NameOf[cur]) :
       /\ Enabled(NameOf[cur]) = {i}
       /\ \/ keyCache = 0 /\ Return
          \/ keyCache # 0 /\ Continue("secret") /\ id' = i
  /\ Undisturbed
  /\ UNCHANGED <<objects, reg, keyCache, children, open>>

\* FindByName returned an error: none found, several found, or ListPipeds failed.
FindError ==
  /\ pc = "find"
  /\ \/ Cardinality(Enabled(NameOf[cur])) # 1 /\ Undisturbed
     \/ Disturb("list")
  /\ Continue("env") /\ UNCHANGED id
  /\ UNCHANGED <<objects, reg, keyCache, children, open>>

FindEnvironment ==
  /\ pc = "env"
  /\ \/ Continue("register") /\ UNCHANGED id /\ Undisturbed
     \/ Disturb("env") /\ Return
  /\ UNCHANGED <<objects, reg, keyCache, children, open>>

RegisterPiped ==
  /\ pc = "register"
  /\ \/ /\ Len(reg) < MaxReg
        /\ reg' = Append(reg, [name |-> NameOf[cur], enabled |-> TRUE])
        /\ \/ Continue("get") /\ id' = Len(reg) + 1 /\ Undisturbed
           \/ Disturb("lost") /\ Return
     \/ Disturb("register") /\ Return /\ UNCHANGED reg
  /\ UNCHANGED <<objects, keyCache, children, open>>

\* Mutant: the key is not stored.
GetPipedOnly ==
  /\ pc = "get" /\ reg[id].enabled
  /\ Continue("secret") /\ UNCHANGED <<id, keyCache>> /\ Undisturbed
  /\ UNCHANGED <<objects, reg, children, open>>

\* Mutant: a key already in the cache is not replaced.
GetPipedFirstKey ==
  /\ pc = "get"
  /\ \/ /\ reg[id].enabled /\ Continue("secret") /\ UNCHANGED id
        /\ keyCache' = IF keyCache = 0 THEN id ELSE keyCache
     \/ ~reg[id].enabled /\ UNCHANGED keyCache /\ Return
  /\ Undisturbed
  /\ UNCHANGED <<objects, reg, children, open>>

\* FindById, which fails for a disabled piped too; the key is kept only if
\* it succeeds.
GetPiped ==
  /\ pc = "get"
  /\ \/ reg[id].enabled /\ keyCache' = id /\ Continue("secret") /\ UNCHANGED id /\ Undisturbed
     \/ ~reg[id].enabled /\ UNCHANGED keyCache /\ Return /\ Undisturbed
     \/ Disturb("get") /\ UNCHANGED keyCache /\ Return
  /\ UNCHANGED <<objects, reg, children, open>>

-----------------------------------------------------------------------------
(* reconcilePipedObject: children, then status; then the finalizer *)

\* Mutant: the ConfigMap is not applied before the Deployment.
SecretThenDeployment ==
  /\ pc = "secret"
  /\ secret' = [secret EXCEPT ![cur] = [val |-> keyCache, owner |-> snap.uid]]
  /\ Continue("deployment") /\ UNCHANGED id /\ Undisturbed
  /\ UNCHANGED <<objects, reg, keyCache, configMap, deployment, open>>

\* ServiceAccount and Secret. CreateOrUpdate takes the child over from an
\* earlier owner of the same name.
ApplySecret ==
  /\ pc = "secret"
  /\ \/ /\ secret' = [secret EXCEPT ![cur] = [val |-> keyCache, owner |-> snap.uid]]
        /\ Continue("configmap") /\ UNCHANGED id /\ Undisturbed
     \/ Disturb("api") /\ Return /\ UNCHANGED secret
  /\ UNCHANGED <<objects, reg, keyCache, configMap, deployment, open>>

ApplyConfigMap ==
  /\ pc = "configmap"
  /\ \/ /\ configMap' = [configMap EXCEPT ![cur] = [val |-> id, owner |-> snap.uid]]
        /\ Continue("deployment") /\ UNCHANGED id /\ Undisturbed
     \/ Disturb("api") /\ Return /\ UNCHANGED configMap
  /\ UNCHANGED <<objects, reg, keyCache, secret, deployment, open>>

\* ClusterRole, ClusterRoleBinding, Service and Deployment, and the Get that
\* follows: it reads the cache and may not find the Deployment yet.
ApplyDeployment ==
  /\ pc = "deployment"
  /\ \/ /\ deployment' = [deployment EXCEPT ![cur] = [val |-> id, owner |-> snap.uid]]
        /\ \/ Continue("status") /\ UNCHANGED id /\ Undisturbed
           \/ Disturb("api") /\ Return
     \/ Disturb("api") /\ Return /\ UNCHANGED deployment
  /\ UNCHANGED <<objects, reg, keyCache, secret, configMap, open>>

\* Mutant: the error of Status().Update is logged but not returned.
UpdateStatusUnchecked ==
  /\ pc = "status"
  /\ \/ api[cur] = snap /\ api' = [api EXCEPT ![cur].sid = id]
     \/ api[cur] # snap /\ UNCHANGED api
  /\ pc' = "finalize" /\ snap' = [snap EXCEPT !.sid = id] /\ UNCHANGED <<cur, id>>
  /\ Undisturbed
  /\ UNCHANGED <<cache, created, reg, keyCache, children, open>>

\* Status().Update carries the resource version of the copy: it fails when
\* the object has changed since. The id is written only if it differs; the
\* other two fields are updated in the same way and may meet the conflict.
\* The client may decode the answer into the copy without its kind: the
\* finalizer patch made of that copy is refused, and left to a later call.
UpdateStatus ==
  /\ pc = "status"
  /\ \/ /\ snap.sid # id /\ api[cur] = snap
        /\ api' = [api EXCEPT ![cur].sid = id]
        /\ \/ snap' = [snap EXCEPT !.sid = id] /\ pc' = "finalize" /\ UNCHANGED <<cur, id>>
           \/ Return
        /\ Undisturbed
     \/ /\ snap.sid = id
        /\ Continue("finalize") /\ UNCHANGED <<id, api>> /\ Undisturbed
     \/ api[cur] # snap /\ Return /\ UNCHANGED api /\ Undisturbed
     \/ Disturb("api") /\ Return /\ UNCHANGED api
  /\ UNCHANGED <<cache, created, reg, keyCache, children, open>>

\* The patch that adds the finalizer.
AddFinalizer ==
  /\ pc = "finalize"
  /\ \/ PatchFinalizerIn(cur, snap.uid) /\ Undisturbed
     \/ Disturb("api") /\ UNCHANGED objects
  /\ Return
  /\ UNCHANGED <<reg, keyCache, children, open>>

-----------------------------------------------------------------------------
(* reconcileDelete *)

\* Mutant: the error of DisablePiped is logged but not returned.
DisablePipedUnchecked ==
  /\ pc = "disable"
  /\ \/ /\ snap.sid # 0
        /\ reg' = [reg EXCEPT ![snap.sid].enabled = FALSE]
        /\ Undisturbed
     \/ snap.sid = 0 /\ UNCHANGED reg /\ Undisturbed
     \/ snap.sid # 0 /\ Disturb("disable") /\ UNCHANGED reg
  /\ Continue("unfinalize") /\ UNCHANGED id
  /\ UNCHANGED <<objects, keyCache, children, open>>

DisablePiped ==
  /\ pc = "disable"
  /\ \/ /\ snap.sid # 0
        /\ reg' = [reg EXCEPT ![snap.sid].enabled = FALSE]
        /\ Continue("unfinalize") /\ UNCHANGED id /\ Undisturbed
     \/ snap.sid = 0 /\ UNCHANGED <<reg, id>> /\ Continue("unfinalize") /\ Undisturbed
     \/ snap.sid # 0 /\ Disturb("disable") /\ Return /\ UNCHANGED reg
  /\ UNCHANGED <<objects, keyCache, children, open>>

\* The patch that takes it off.
RemoveFinalizer ==
  /\ pc = "unfinalize"
  /\ \/ PatchFinalizerOut(cur) /\ Undisturbed
     \/ Disturb("api") /\ UNCHANGED objects
  /\ Return
  /\ UNCHANGED <<reg, keyCache, children, open>>

WorkerStep ==
  \/ FindOne \/ FindError \/ FindEnvironment \/ RegisterPiped \/ GetPiped
  \/ ApplySecret \/ ApplyConfigMap \/ ApplyDeployment
  \/ UpdateStatus \/ AddFinalizer
  \/ DisablePiped \/ RemoveFinalizer

-----------------------------------------------------------------------------
(* The rest of the cluster and the people *)

\* Only the first creation of an object is no disturbance.
Create(p) ==
  /\ IF created[p] = 0 THEN Undisturbed ELSE Disturb("recreate")
  /\ CreateObject(p)
  /\ UNCHANGED <<reg, keyCache, children, open, worker>>

Delete(p) ==
  /\ Disturb("delete")
  /\ DeleteObject(p)
  /\ UNCHANGED <<reg, keyCache, children, open, worker>>

AddForeign(p) ==
  /\ Disturb("foreign")
  /\ AddForeignFinalizer(p)
  /\ UNCHANGED <<reg, keyCache, children, open, worker>>

RemoveForeign(p) ==
  /\ RemoveForeignFinalizer(p)
  /\ Undisturbed
  /\ UNCHANGED <<reg, keyCache, children, open, worker>>

\* "Please disable piped configuration from WebUI."
DisableInWebUI(i) ==
  /\ Disturb("webui")
  /\ reg[i].enabled
  /\ reg' = [reg EXCEPT ![i].enabled = FALSE]
  /\ UNCHANGED <<objects, keyCache, children, open, worker>>

ToggleGate ==
  /\ Disturb("gate")
  /\ open' = ~open
  /\ UNCHANGED <<objects, reg, keyCache, children, worker>>

SyncCache(p) ==
  /\ CatchUp(p)
  /\ Undisturbed
  /\ UNCHANGED <<reg, keyCache, children, open, worker>>

\* The operator's process ends and starts again, with the informer filled anew.
Crash ==
  /\ Disturb("crash")
  /\ keyCache' = 0
  /\ cache' = api
  /\ Return
  /\ UNCHANGED <<api, created, reg, children, open>>

\* The garbage collector removes a child whose owner is gone.
Orphan(p, child) == child # NoChild /\ ~(Exists(p) /\ api[p].uid = child.owner)

Collect(p) ==
  /\ \/ /\ Orphan(p, secret[p])
        /\ secret' = [secret EXCEPT ![p] = NoChild]
        /\ UNCHANGED <<configMap, deployment>>
     \/ /\ Orphan(p, configMap[p])
        /\ configMap' = [configMap EXCEPT ![p] = NoChild]
        /\ UNCHANGED <<secret, deployment>>
     \/ /\ Orphan(p, deployment[p])
        /\ deployment' = [deployment EXCEPT ![p] = NoChild]
        /\ UNCHANGED <<secret, configMap>>
  /\ Undisturbed
  /\ UNCHANGED <<objects, reg, keyCache, open, worker>>

Surroundings ==
  \/ \E p \in Pipeds : \/ Create(p) \/ Delete(p) \/ AddForeign(p) \/ RemoveForeign(p)
                       \/ SyncCache(p) \/ Collect(p)
  \/ \E i \in DOMAIN reg : DisableInWebUI(i)
  \/ ToggleGate
  \/ Crash

Next == (\E p \in Pipeds : Load(p)) \/ WorkerStep \/ Surroundings

Spec == Init /\ [][Next]_vars

(***************************************************************************)
(* Every remote call returns; the informer catches up; the work queue is   *)
(* first-in first-out and every object is queued again by the resync, so   *)
(* that an object ready to be loaded again and again is loaded. Nothing is *)
(* assumed of people, of crashes or of the garbage collector.              *)
(***************************************************************************)
FairSpec ==
  /\ Spec
  /\ WF_vars(WorkerStep)
  /\ \A p \in Pipeds : SF_vars(Load(p)) /\ WF_vars(SyncCache(p))

-----------------------------------------------------------------------------
(* Properties *)

Ids == 0 .. Len(reg)

ChildType == [val : Nat, owner : Nat]

Steps == {"idle", "find", "env", "register", "get", "secret", "configmap",
          "deployment", "status", "finalize", "disable", "unfinalize"}

Registration == [name : Names, enabled : BOOLEAN]

RegistryTyped == reg \in Seq(Registration)

ChildrenTyped ==
  /\ secret \in [Pipeds -> ChildType]
  /\ configMap \in [Pipeds -> ChildType]
  /\ deployment \in [Pipeds -> ChildType]

WorkerTyped ==
  /\ pc \in Steps
  /\ IF pc = "idle" THEN cur = NoPiped ELSE cur \in Pipeds
  /\ snap \in ObjectType

IdsRegistered ==
  /\ keyCache \in Ids /\ id \in Ids /\ snap.sid \in Ids
  /\ \A p \in Pipeds : api[p].sid \in Ids /\ cache[p].sid \in Ids

\* Every variable has its type, and the piped ids in use have been registered.
TypeOK ==
  /\ RegistryTyped /\ ObjectsTyped /\ ChildrenTyped /\ WorkerTyped
  /\ open \in BOOLEAN /\ spent \in Nat
  /\ IdsRegistered

\* An object that carries the operator's finalizer, put there by a reconcile
\* of this very object, has the id of a piped of its own name in its status:
\* the deletion, which disables what the status names, finds what to disable.
FinalizerGuardsRegistration ==
  \A p \in Pipeds :
    api[p].own /\ api[p].finBy = api[p].uid =>
      /\ api[p].sid \in DOMAIN reg
      /\ reg[api[p].sid].name = NameOf[p]

\* The operator takes its finalizer off an object only when the piped its
\* status names has been disabled, whatever the copy the deletion worked
\* from had become by then.
DisabledBeforeGone ==
  [][\A p \in Pipeds :
       api[p].own /\ ~api'[p].own /\ api[p].sid # 0 => ~reg[api[p].sid].enabled]_vars

\* A Deployment of an object that still exists is given a new piped id only
\* when the ConfigMap already names this piped and a Secret with a key is
\* there: its pods never start with the configuration of another piped.
RolloutAfterConfig ==
  [][\A p \in Pipeds :
       /\ deployment'[p] # deployment[p] /\ deployment'[p] # NoChild
       /\ Exists(p) /\ api[p].uid = deployment'[p].owner
       => configMap[p].val = deployment'[p].val /\ secret[p].val # 0]_vars

\* At most one piped of a name is enabled, however often the reconcile is
\* cut short between registering and recording.
OneEnabledPerName == \A n \in Names : Cardinality(Enabled(n)) <= 1

\* The key that a Secret is given is the key of the piped that ConfigMap and
\* Deployment will be given.
KeyBelongsToId ==
  [][\A p \in Pipeds :
       /\ deployment'[p] # deployment[p] /\ deployment'[p] # NoChild
       /\ Exists(p) /\ api[p].uid = deployment'[p].owner
       => secret[p].val = deployment'[p].val]_vars

\* "list PipeCD Piped & create if Piped does not exist": a piped is
\* registered only when none of its name is enabled.
CreatedOnlyIfMissing ==
  [][Len(reg') > Len(reg) => Enabled(reg'[Len(reg')].name) = {}]_vars

\* "the generated Key string for this piped": the key in an object's Secret
\* is that of a piped registered under its name.
KeyOfThisPiped ==
  \A p \in Pipeds : secret[p].val # 0 => reg[secret[p].val].name = NameOf[p]

Ready(p) ==
  /\ api[p].phase = "live" /\ api[p].own
  /\ api[p].sid # 0 /\ reg[api[p].sid].enabled
  /\ secret[p].val = api[p].sid
  /\ configMap[p].val = api[p].sid /\ deployment[p].val = api[p].sid

\* An object that nobody else holds is gone some time after its deletion
\* unless something more happens to the system.
DeletionCompletes ==
  \A p \in Pipeds : \A n \in 0 .. MaxSpent :
    (api[p].phase = "deleting" /\ ~api[p].ghost /\ ~api[p].foreign /\ open /\ spent = n)
      ~> (~Exists(p) \/ spent > n)

\* "Please disable piped configuration from WebUI": with no piped of its name
\* enabled, an object becomes ready unless something more happens to the
\* system, whatever has been lost before.
DisableUnblocks ==
  \A p \in Pipeds : \A n \in 0 .. MaxSpent :
    (/\ api[p].phase = "live" /\ ~api[p].ghost /\ open
     /\ Enabled(NameOf[p]) = {} /\ spent = n)
      ~> (Ready(p) \/ spent > n)

=============================================================================
