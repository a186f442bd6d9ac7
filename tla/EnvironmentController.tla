------------------------ MODULE EnvironmentController ------------------------
(***************************************************************************)
(* The Environment controller (controllers/environment_controller.go) with *)
(* the PipeCD service it talks to (services/environment_service.go).       *)
(*                                                                         *)
(* One worker reconciles the Environment objects one call at a time: it    *)
(* finds or adds an environment of the object's name at the PipeCD server, *)
(* records its id in the object's status and adds the finalizer.  PipeCD   *)
(* has no call that deletes an environment: a deleted object only has its  *)
(* finalizer removed.  Every remote call is a step of its own.             *)
(***************************************************************************)
EXTENDS Integers, Sequences, FiniteSets

CONSTANTS
  Environments,    \* the Environment objects (namespaced names)
  NoEnvironment,   \* what the idle worker is working on
  NameOf,          \* spec.name of each object
  Disturbances,    \* what may go wrong or be done from outside, see Kinds
  MaxSpent,        \* bound: disturbances in a behaviour
  MaxAdded         \* bound: environments added at the PipeCD server

\* Calls that fail: list (ListEnvironments), add (AddEnvironment), lost
\* (AddEnvironment, after the server has added), api (a write to the
\* Kubernetes API).  A crash of the operator.  What people do: delete and
\* recreate an object, add a foreign finalizer, remove or restore the
\* ControlPlane (gate).
Kinds == {"list", "add", "lost", "api", "crash", "delete", "recreate", "foreign", "gate"}

ASSUME NoEnvironmentAssumption == NoEnvironment \notin Environments
ASSUME NamesAssumption == NameOf = [e \in Environments |-> NameOf[e]]
ASSUME KindsAssumption == Disturbances \subseteq Kinds
ASSUME BoundsAssumption == MaxSpent \in Nat /\ MaxAdded \in Nat

VARIABLES
  api, cache, created,   \* the Environment objects, see FinalizedObjects
  added,   \* names of the environments at the PipeCD server; the index is the id
  open,    \* a ControlPlane and its Secret exist
  pc,      \* the remote call the worker is about to make
  cur,     \* the object it is working on
  snap,    \* its copy of that object (the variable e of the code)
  id,      \* the environment id it works with
  spent,   \* disturbances so far
  listFailed   \* history: ListEnvironments has failed

INSTANCE FinalizedObjects WITH Objects <- Environments

objects == <<api, cache, created>>
worker == <<pc, cur, snap, id>>
vars == <<objects, added, open, worker, spent, listFailed>>

Init ==
  /\ ObjectsInit
  /\ added = <<>>
  /\ open = TRUE
  /\ pc = "idle" /\ cur = NoEnvironment /\ snap = Absent /\ id = 0
  /\ spent = 0 /\ listFailed = FALSE

Disturb(kind) ==
  /\ kind \in Disturbances
  /\ spent < MaxSpent
  /\ spent' = spent + 1
  /\ listFailed' = (listFailed \/ kind = "list")

Undisturbed == UNCHANGED <<spent, listFailed>>

\* Mutant: the worker keeps its object.
ReturnHoldingObject == pc' = "idle" /\ UNCHANGED <<cur, snap, id>>

\* Reconcile returns, with or without an error; the key is queued again.
Return == pc' = "idle" /\ cur' = NoEnvironment /\ snap' = Absent /\ id' = 0

Continue(step) == pc' = step /\ UNCHANGED <<cur, snap>>

-----------------------------------------------------------------------------
(* Reconcile. Without a ControlPlane it returns nil and changes nothing.    *)

\* Mutant: only an object without any finalizer goes to reconcileDelete.
LoadUnlessFinalized(e) ==
  /\ pc = "idle" /\ open
  /\ cache[e].phase # "absent"
  /\ cur' = e /\ snap' = cache[e] /\ id' = 0
  /\ pc' = IF cache[e].phase = "deleting" /\ ~cache[e].foreign /\ ~cache[e].own
           THEN "unfinalize" ELSE "find"
  /\ Undisturbed
  /\ UNCHANGED <<objects, added, open>>

\* Delete does nothing at the PipeCD server, so that reconcileDelete begins
\* with its patch.
Load(e) ==
  /\ pc = "idle" /\ open
  /\ cache[e].phase # "absent"
  /\ cur' = e /\ snap' = cache[e] /\ id' = 0
  /\ pc' = IF cache[e].phase = "deleting" /\ ~cache[e].foreign
           THEN "unfinalize" ELSE "find"
  /\ Undisturbed
  /\ UNCHANGED <<objects, added, open>>

Named(name) == {i \in DOMAIN added : added[i] = name}

\* What Find is asked for: a ghost has no name, and neither has an environment.
Wanted == IF snap.ghost THEN {} ELSE Named(NameOf[cur])

\* Find returns the environment only if it is the only one.
Found(i) == Wanted = {i}

\* Mutant: of several environments of the name the newest is taken.
FindNewest ==
  /\ pc = "find"
  /\ \/ \E i \in Wanted :
          (\A j \in Wanted : j <= i) /\ Continue("status") /\ id' = i /\ Undisturbed
     \/ Wanted = {} /\ Continue("add") /\ UNCHANGED id /\ Undisturbed
     \/ Disturb("list") /\ Continue("add") /\ UNCHANGED id
  /\ UNCHANGED <<objects, added, open>>

\* Mutant: an object without an id in its status has no environment yet.
FindIfRecorded ==
  /\ pc = "find"
  /\ \/ \E i \in Wanted :
          snap.sid = i /\ Continue("status") /\ id' = i
     \/ snap.sid = 0 /\ Continue("add") /\ UNCHANGED id
  /\ Undisturbed
  /\ UNCHANGED <<objects, added, open>>

\* Mutant: an error of Find is returned.
FindOrReturn ==
  /\ pc = "find"
  /\ \/ \E i \in Wanted : Found(i) /\ Continue("status") /\ id' = i
     \/ Cardinality(Wanted) # 1 /\ Return
  /\ Undisturbed
  /\ UNCHANGED <<objects, added, open>>

\* CreateIfNotExists calls Create after any error of Find: none found, several
\* found, or ListEnvironments failed.
FindEnvironment ==
  /\ pc = "find"
  /\ \/ \E i \in Wanted : Found(i) /\ Continue("status") /\ id' = i /\ Undisturbed
     \/ Cardinality(Wanted) # 1 /\ Continue("add") /\ UNCHANGED id /\ Undisturbed
     \/ Disturb("list") /\ Continue("add") /\ UNCHANGED id
  /\ UNCHANGED <<objects, added, open>>

\* The server refuses an environment without a name, and those beyond the bound.
AddEnvironment ==
  /\ pc = "add"
  /\ \/ /\ ~snap.ghost /\ Len(added) < MaxAdded
        /\ added' = Append(added, NameOf[cur])
        /\ \/ Continue("refind") /\ UNCHANGED id /\ Undisturbed
           \/ Disturb("lost") /\ Return
     \/ /\ snap.ghost \/ Len(added) = MaxAdded
        /\ Return /\ UNCHANGED added /\ Undisturbed
     \/ Disturb("add") /\ Return /\ UNCHANGED added
  /\ UNCHANGED <<objects, open>>

\* Create looks for what it has added; its error is returned.
FindAdded ==
  /\ pc = "refind"
  /\ \/ \E i \in Wanted : Found(i) /\ Continue("status") /\ id' = i /\ Undisturbed
     \/ Cardinality(Wanted) # 1 /\ Return /\ Undisturbed
     \/ Disturb("list") /\ Return
  /\ UNCHANGED <<objects, added, open>>

-----------------------------------------------------------------------------
(* the status and the finalizer *)

\* Mutant: the error of Status().Update is logged but not returned.
UpdateStatusUnchecked ==
  /\ pc = "status"
  /\ \/ api[cur] = snap /\ api' = [api EXCEPT ![cur].sid = id]
     \/ api[cur] # snap /\ UNCHANGED api
  /\ pc' = "finalize" /\ snap' = [snap EXCEPT !.sid = id] /\ UNCHANGED <<cur, id>>
  /\ Undisturbed
  /\ UNCHANGED <<cache, created, added, open>>

\* Status().Update fails when the object has changed since it was read. Its
\* answer may leave the copy without its kind, and the patch is refused.
UpdateStatus ==
  /\ pc = "status"
  /\ \/ /\ snap.sid # id /\ api[cur] = snap
        /\ api' = [api EXCEPT ![cur].sid = id]
        /\ \/ snap' = [snap EXCEPT !.sid = id] /\ pc' = "finalize" /\ UNCHANGED <<cur, id>>
           \/ Return
        /\ Undisturbed
     \/ /\ snap.sid = id
        /\ Continue("finalize") /\ UNCHANGED <<id, api>> /\ Undisturbed
     \/ snap.sid # id /\ api[cur] # snap /\ Return /\ UNCHANGED api /\ Undisturbed
     \/ Disturb("api") /\ Return /\ UNCHANGED api
  /\ UNCHANGED <<cache, created, added, open>>

AddFinalizer ==
  /\ pc = "finalize"
  /\ \/ PatchFinalizerIn(cur, snap.uid) /\ Undisturbed
     \/ Disturb("api") /\ UNCHANGED objects
  /\ Return
  /\ UNCHANGED <<added, open>>

RemoveFinalizer ==
  /\ pc = "unfinalize"
  /\ \/ PatchFinalizerOut(cur) /\ Undisturbed
     \/ Disturb("api") /\ UNCHANGED objects
  /\ Return
  /\ UNCHANGED <<added, open>>

WorkerStep ==
  \/ FindEnvironment \/ AddEnvironment \/ FindAdded
  \/ UpdateStatus \/ AddFinalizer \/ RemoveFinalizer

-----------------------------------------------------------------------------
(* The rest of the cluster and the people *)

\* Only the first creation of an object is no disturbance.
Create(e) ==
  /\ IF created[e] = 0 THEN Undisturbed ELSE Disturb("recreate")
  /\ CreateObject(e)
  /\ UNCHANGED <<added, open, worker>>

Delete(e) == Disturb("delete") /\ DeleteObject(e) /\ UNCHANGED <<added, open, worker>>

AddForeign(e) ==
  Disturb("foreign") /\ AddForeignFinalizer(e) /\ UNCHANGED <<added, open, worker>>

RemoveForeign(e) ==
  RemoveForeignFinalizer(e) /\ Undisturbed /\ UNCHANGED <<added, open, worker>>

SyncCache(e) == CatchUp(e) /\ Undisturbed /\ UNCHANGED <<added, open, worker>>

ToggleGate ==
  Disturb("gate") /\ open' = ~open /\ UNCHANGED <<objects, added, worker>>

\* The operator's process ends and starts again.
Crash ==
  /\ Disturb("crash")
  /\ cache' = api
  /\ Return
  /\ UNCHANGED <<api, created, added, open>>

Surroundings ==
  \/ \E e \in Environments : \/ Create(e) \/ Delete(e) \/ AddForeign(e)
                             \/ RemoveForeign(e) \/ SyncCache(e)
  \/ ToggleGate
  \/ Crash

Next == (\E e \in Environments : Load(e)) \/ WorkerStep \/ Surroundings

Spec == Init /\ [][Next]_vars

\* The fairness of PipedController, for the same reasons.
FairSpec ==
  /\ Spec
  /\ WF_vars(WorkerStep)
  /\ \A e \in Environments : SF_vars(Load(e)) /\ WF_vars(SyncCache(e))

-----------------------------------------------------------------------------
(* Properties *)

Ids == 0 .. Len(added)

\* Every variable has its type, and the ids in use are of added environments.
TypeOK ==
  /\ ObjectsTyped
  /\ added \in Seq({NameOf[e] : e \in Environments})
  /\ open \in BOOLEAN /\ spent \in Nat /\ listFailed \in BOOLEAN
  /\ pc \in {"idle", "find", "add", "refind", "status", "finalize", "unfinalize"}
  /\ IF pc = "idle" THEN cur = NoEnvironment ELSE cur \in Environments
  /\ snap \in ObjectType /\ snap.sid \in Ids /\ id \in Ids
  /\ \A e \in Environments : api[e].sid \in Ids /\ cache[e].sid \in Ids

\* However often a reconcile is cut short between adding an environment and
\* recording it, no second one of the name is added, by this object or by
\* another of the same name, as long as ListEnvironments does not fail.
OneEnvironmentPerName ==
  ~listFailed => \A i, j \in DOMAIN added : added[i] = added[j] => i = j

\* The id in an object's status is of an environment of its name and, once
\* recorded, never replaced, even when a failing list has added duplicates:
\* pipeds registered with it stay with their environment.
StatusIdStable ==
  [][\A e \in Environments :
       /\ api'[e].sid # 0 => added'[api'[e].sid] = NameOf[e]
       /\ api[e].sid # 0 /\ api'[e].uid = api[e].uid => api'[e].sid = api[e].sid]_vars

\* An object whose finalizer was added by a reconcile of this very object has
\* the id of its environment in its status.
FinalizerAfterId ==
  \A e \in Environments : api[e].own /\ api[e].finBy = api[e].uid => api[e].sid # 0

\* Unless something more happens to the system, and as long as ListEnvironments
\* has not failed, an object gets its environment, its status and its finalizer.
Settles ==
  \A e \in Environments : \A n \in 0 .. MaxSpent :
    (api[e].phase = "live" /\ ~api[e].ghost /\ open /\ spent = n /\ ~listFailed)
      ~> ((api[e].own /\ Named(NameOf[e]) = {api[e].sid}) \/ spent > n)

\* A deleted object that nobody else holds is gone some time after, a ghost
\* included, unless something more happens to the system.
DeletionCompletes ==
  \A e \in Environments : \A n \in 0 .. MaxSpent :
    (api[e].phase = "deleting" /\ ~api[e].foreign /\ open /\ spent = n)
      ~> (~Exists(e) \/ spent > n)

=============================================================================
