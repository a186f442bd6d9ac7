----------------------------- MODULE Installation -----------------------------
(***************************************************************************)
(* An installation as a user sees it: ControlPlanes, an Environment and a  *)
(* Piped of one namespace, applied and deleted in any order, and the three *)
(* controllers side by side (controllers/controlplane_controller.go,       *)
(* environment_controller.go, piped_controller.go) with what couples them: *)
(*                                                                         *)
(*   - the calls for an Environment or a Piped go through the web client   *)
(*     (infrastructure/pipecdweb/pipecd_web_client.go), which wants the    *)
(*     Secret of the control plane and exactly one ControlPlane in the     *)
(*     whole cluster, and connects to that one's server;                   *)
(*   - the Piped's wants the Environment object, and an environment that   *)
(*     is registered;                                                      *)
(*   - no finalizer of an Environment or a Piped is put on the objects     *)
(*     they need (the TODOs of both controllers): those may go first.      *)
(*                                                                         *)
(* Each controller has one worker; reading, each remote call and each      *)
(* patch is a step.  The informers are up to date when a call begins, what *)
(* it has read gets old while it lasts.  The children of a ControlPlane    *)
(* come and go as one.  Lagging caches, the children one by one, other     *)
(* objects of the Piped's name and the web UI, where a piped is disabled   *)
(* by hand, are in the controllers' own modules; so is the list that fails *)
(* although what it looks for is there, and the duplicate it leads to.     *)
(***************************************************************************)
EXTENDS Naturals

CONSTANTS
  ControlPlanes, Environment, Piped,   \* the objects
  NoObject,   \* what an idle worker is working on
  MaxSpent    \* bound: deletions, recreations, failing calls and restarts

Objects == ControlPlanes \cup {Environment, Piped}

ASSUME ObjectsAssumption ==
  /\ Environment \notin ControlPlanes /\ Piped \notin ControlPlanes
  /\ Environment # Piped /\ NoObject \notin Objects
ASSUME SpentAssumption == MaxSpent \in Nat

VARIABLES
  api, created, \* the objects, see FinalizedObjects
  owner,        \* the ControlPlane whose Secret, server and so on are there
  registered,   \* at the PipeCD server: the environment, the piped (enabled)
  key,          \* in memory: pipedKeyCache
  call,         \* of each controller: the call its worker is in
  spent         \* deletions, recreations, failed calls and restarts so far

\* The informers' copies are not modelled.
INSTANCE FinalizedObjects WITH cache <- [o \in Objects |-> 0]

objects == <<api, created>>
vars == <<objects, owner, registered, key, call, spent>>

Controllers == {"controlplane", "environment", "piped"}

\* What is cached: nothing, the registered piped's key, that of one disabled since.
Keys == {"none", "its", "former"}

ObjectsOf(k) == CASE k = "controlplane" -> ControlPlanes
                  [] k = "environment" -> {Environment}
                  [] k = "piped" -> {Piped}

\* step: the remote call to be made next; snap: the copy of the object; to: the
\* ControlPlane whose server the web client is connected to.
NoCall == [step |-> "idle", obj |-> NoObject, snap |-> Absent, to |-> NoObject]

Nobody == [name |-> NoObject, uid |-> 0]

Init ==
  /\ api = [o \in Objects |-> Absent] /\ created = [o \in Objects |-> 0]
  /\ owner = Nobody
  /\ registered = {}
  /\ key = "none"
  /\ call = [k \in Controllers |-> NoCall]
  /\ spent = 0

Disturb == spent < MaxSpent /\ spent' = spent + 1

Step(k) == call[k].step
Obj(k) == call[k].obj
Snap(k) == call[k].snap

Continue(k, step) == call' = [call EXCEPT ![k].step = step]

\* Mutant: the worker goes on holding what it has read.
ReturnHolding(k) == call' = [call EXCEPT ![k].step = "idle"]

Return(k) == call' = [call EXCEPT ![k] = NoCall]

\* Any call of a worker may fail, also the patch made of a copy that the answer to
\* Status().Update has left without its kind; Reconcile returns the error. One that
\* fails after its effect, its answer lost, is as if the next one failed.
CallFails(k) ==
  /\ Step(k) # "idle"
  /\ Disturb
  /\ Return(k)
  /\ UNCHANGED <<objects, owner, registered, key>>

\* The operator's process ends, at any point of the calls, and is started again.
Restart ==
  /\ Disturb
  /\ call' = [k \in Controllers |-> NoCall] /\ key' = "none"
  /\ UNCHANGED <<objects, owner, registered>>

-----------------------------------------------------------------------------
(* the calls of Reconcile *)

\* NewPipeCDWebServiceClient, for the one ControlPlane c of the list.
ClientFor(c) ==
  /\ {d \in ControlPlanes : api[d].phase # "absent"} = {c}
  /\ owner # Nobody

\* A deleted object nobody else holds goes to reconcileDelete.
ToDelete(o) == api[o].phase = "deleting" /\ ~api[o].foreign

Begin(k, o, step, c) ==
  /\ Step(k) = "idle" /\ o \in ObjectsOf(k)
  /\ api[o].phase # "absent"
  /\ call' = [call EXCEPT ![k] = [step |-> step, obj |-> o, snap |-> api[o], to |-> c]]
  /\ UNCHANGED <<objects, owner, registered, key, spent>>

LoadControlPlane(c) ==
  Begin("controlplane", c, IF ToDelete(c) THEN "unfinalize" ELSE "apply", c)

\* environmentService.Delete does nothing.
LoadEnvironment ==
  \E c \in ControlPlanes :
    /\ ClientFor(c)
    /\ Begin("environment", Environment,
             IF ToDelete(Environment) THEN "unfinalize" ELSE "find", c)

\* A ghost names no Environment.
LoadPiped ==
  \E c \in ControlPlanes :
    /\ api[Environment].phase # "absent" /\ ~api[Piped].ghost
    /\ ClientFor(c)
    /\ Begin("piped", Piped,
             IF ~ToDelete(Piped) THEN "find"
             ELSE IF api[Piped].sid # 0 THEN "disable" ELSE "unfinalize", c)

\* The goroutines of reconcile; SetControllerReference refuses what belongs to
\* another ControlPlane.
ApplyChildren ==
  LET c == Obj("controlplane")
  IN  /\ Step("controlplane") = "apply"
      /\ \/ /\ owner.name \in {c, NoObject}
            /\ owner' = [name |-> c, uid |-> Snap("controlplane").uid]
            /\ Continue("controlplane", "finalize")
         \/ owner.name \notin {c, NoObject} /\ Return("controlplane") /\ UNCHANGED owner
      /\ UNCHANGED <<objects, registered, key, spent>>

\* The server the client is connected to runs.
ServerUp(k) == owner.name = call[k].to

\* Mutant: what is registered already is an error.
FindOnce(k) ==
  /\ Step(k) = "find"
  /\ \/ Obj(k) \notin registered /\ Continue(k, "add")
     \/ Obj(k) \in registered /\ Return(k)
  /\ UNCHANGED <<objects, owner, registered, key, spent>>

\* The list of environments, of enabled pipeds; any error of it leads to Add. With
\* the piped found, some key must be cached. (That the list alone fails, and Add
\* makes a duplicate, is left out.)
Find(k) ==
  /\ Step(k) = "find"
  /\ \/ Obj(k) \notin registered /\ Continue(k, "add")
     \/ /\ Obj(k) \in registered
        /\ IF ServerUp(k) /\ (k = "piped" => key # "none")
           THEN Continue(k, "record") ELSE Return(k)
  /\ UNCHANGED <<objects, owner, registered, key, spent>>

\* An environment without a name is refused; a piped needs its environment, which
\* is looked for first.
Registrable(k) ==
  IF k = "environment" THEN ~Snap(k).ghost ELSE Environment \in registered

\* AddEnvironment, RegisterPiped.
Add(k) ==
  /\ Step(k) = "add"
  /\ \/ /\ ServerUp(k) /\ Registrable(k)
        /\ registered' = registered \cup {Obj(k)}
        /\ Continue(k, "get")
     \/ (~ServerUp(k) \/ ~Registrable(k)) /\ Return(k) /\ UNCHANGED registered
  /\ UNCHANGED <<objects, owner, key, spent>>

\* What was added is asked for again, and only then the key of a piped, which the
\* answer to RegisterPiped brought, is cached.
Get(k) ==
  /\ Step(k) = "get"
  /\ \/ /\ ServerUp(k)
        /\ key' = IF k = "piped" THEN "its" ELSE key
        /\ Continue(k, "record")
     \/ ~ServerUp(k) /\ Return(k) /\ UNCHANGED key
  /\ UNCHANGED <<objects, owner, registered, spent>>

\* The children of a Piped, which nothing here depends on, and the id in the
\* status; Status().Update fails if the object has changed.
Record(k) ==
  /\ Step(k) = "record"
  /\ \/ Snap(k).sid # 0 /\ Continue(k, "finalize") /\ UNCHANGED api
     \/ /\ Snap(k).sid = 0 /\ api[Obj(k)] = Snap(k)
        /\ api' = [api EXCEPT ![Obj(k)].sid = 1]
        /\ call' = [call EXCEPT ![k].step = "finalize", ![k].snap.sid = 1]
     \/ Snap(k).sid = 0 /\ api[Obj(k)] # Snap(k) /\ Return(k) /\ UNCHANGED api
  /\ UNCHANGED <<created, owner, registered, key, spent>>

Finalize(k) ==
  /\ Step(k) = "finalize"
  /\ PatchFinalizerIn(Obj(k), Snap(k).uid)
  /\ Return(k)
  /\ UNCHANGED <<owner, registered, key, spent>>

\* Mutant: a piped that is disabled already is an error.
DisableOnce ==
  /\ Step("piped") = "disable"
  /\ \/ /\ ServerUp("piped") /\ Piped \in registered
        /\ registered' = registered \ {Piped}
        /\ key' = IF key = "its" THEN "former" ELSE key
        /\ Continue("piped", "unfinalize")
     \/ /\ ~ServerUp("piped") \/ Piped \notin registered
        /\ Return("piped") /\ UNCHANGED <<registered, key>>
  /\ UNCHANGED <<objects, owner, spent>>

\* The key stays cached.
Disable ==
  /\ Step("piped") = "disable"
  /\ \/ /\ ServerUp("piped")
        /\ registered' = registered \ {Piped}
        /\ key' = IF key = "its" THEN "former" ELSE key
        /\ Continue("piped", "unfinalize")
     \/ ~ServerUp("piped") /\ Return("piped") /\ UNCHANGED <<registered, key>>
  /\ UNCHANGED <<objects, owner, spent>>

Unfinalize(k) ==
  /\ Step(k) = "unfinalize"
  /\ PatchFinalizerOut(Obj(k))
  /\ Return(k)
  /\ UNCHANGED <<owner, registered, key, spent>>

WorkerStep(k) ==
  \/ k = "controlplane" /\ ApplyChildren
  \/ Find(k) \/ Add(k) \/ Get(k) \/ Record(k) \/ Finalize(k) \/ Unfinalize(k)
  \/ k = "piped" /\ Disable

-----------------------------------------------------------------------------
(* the user, the garbage collector *)

\* kubectl apply, in any order; only the first creation is no disturbance.
Create(o) ==
  /\ IF created[o] = 0 THEN UNCHANGED spent ELSE Disturb
  /\ CreateObject(o)
  /\ UNCHANGED <<owner, registered, key, call>>

Delete(o) == Disturb /\ DeleteObject(o) /\ UNCHANGED <<owner, registered, key, call>>

Collect ==
  /\ owner # Nobody /\ ~(Exists(owner.name) /\ api[owner.name].uid = owner.uid)
  /\ owner' = Nobody
  /\ UNCHANGED <<objects, registered, key, call, spent>>

Next ==
  \/ \E c \in ControlPlanes : LoadControlPlane(c)
  \/ LoadEnvironment \/ LoadPiped
  \/ \E k \in Controllers : WorkerStep(k) \/ CallFails(k)
  \/ \E o \in Objects : Create(o) \/ Delete(o)
  \/ Collect \/ Restart

Spec == Init /\ [][Next]_vars

(***************************************************************************)
(* Every object is handed to its controller again and again (by events,    *)
(* retries and the resync), calls return and the garbage collector         *)
(* collects.  Nothing is assumed of people.                                *)
(***************************************************************************)
FairSpec ==
  /\ Spec
  /\ \A c \in ControlPlanes : SF_vars(LoadControlPlane(c))
  /\ SF_vars(LoadEnvironment) /\ SF_vars(LoadPiped)
  /\ \A k \in Controllers : WF_vars(WorkerStep(k))
  /\ WF_vars(Collect)

-----------------------------------------------------------------------------
(* Properties *)

\* Every variable has its type, and a worker works on an object of its own.
TypeOK ==
  /\ api \in [Objects -> ObjectType] /\ created \in [Objects -> Nat]
  /\ owner \in [name : ControlPlanes, uid : Nat] \cup {Nobody}
  /\ registered \subseteq {Environment, Piped} /\ key \in Keys
  /\ \A k \in Controllers :
       /\ Step(k) \in {"idle", "apply", "find", "add", "get", "record", "finalize",
                       "disable", "unfinalize"}
       /\ IF Step(k) = "idle" THEN call[k] = NoCall ELSE Obj(k) \in ObjectsOf(k)
       /\ Snap(k) \in ObjectType /\ call[k].to \in ControlPlanes \cup {NoObject}
  /\ spent \in 0 .. MaxSpent

\* c is the only ControlPlane, for good.
Alone(c) ==
  /\ api[c].phase = "live"
  /\ \A d \in ControlPlanes \ {c} : ~Exists(d)

Finished(o) == api[o].phase = "live" /\ api[o].own

\* The piped is registered and its key is gone: the call that registered it failed
\* before it had cached the key, or the operator was restarted since. Then it goes
\* on with a former key, or asks for the piped to be disabled in the web UI.
KeyLost == Piped \in registered /\ key # "its" /\ Step("piped") # "get"

\* In whatever order a ControlPlane, an Environment and a Piped have been
\* applied, and whatever was deleted, recreated, restarted or failed before: once
\* there is one ControlPlane and the others stay, its children are there and all
\* three are registered, recorded and finalized, unless the key of the registered
\* piped has been lost.
ComesUp ==
  \A c \in ControlPlanes :
    <>[](/\ Alone(c) /\ ~KeyLost
         /\ \A o \in {Environment, Piped} : api[o].phase = "live" /\ ~api[o].ghost)
      => <>[](/\ owner.name = c /\ registered = {Environment, Piped}
              /\ \A o \in {c, Environment, Piped} : Finished(o) /\ (o # c => api[o].sid # 0))

\* As long as there is one ControlPlane and its server, a deleted Environment
\* goes, and with the Environment's object there a deleted Piped goes: whatever
\* order they are deleted in, a later recreation of what went first gets the
\* deletion going again, and neither a lost key nor a piped disabled by an earlier
\* attempt stops it.
ComesDown ==
  \A c \in ControlPlanes :
    <>[]Alone(c) =>
      /\ []<>(api[Environment].phase # "deleting")
      /\ <>[]Exists(Environment) => []<>(api[Piped].phase # "deleting" \/ api[Piped].ghost)

=============================================================================
