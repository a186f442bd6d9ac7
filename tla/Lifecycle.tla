------------------------------ MODULE Lifecycle ------------------------------
(***************************************************************************)
(* The ControlPlane objects of one namespace and the objects generated for *)
(* them, from the creation of a ControlPlane to the collection of what it  *)
(* leaves behind (controllers/controlplane_controller.go: Reconcile,       *)
(* reconcile, reconcileDelete, the owner references).                      *)
(*                                                                         *)
(* Every ControlPlane wants the ConfigMap, the Secret and the Service      *)
(* named pipecd.  SetControllerReference refuses a child that belongs to   *)
(* another object, so that a second ControlPlane does not get past its     *)
(* first goroutine while the first one's children are there.               *)
(*                                                                         *)
(* reconcile waits for its first goroutine only, and not even for that     *)
(* when wg.Wait has run before the first wg.Add.  What is still at work    *)
(* when it returns stays so beside the next calls, for the object as the   *)
(* call had read it.                                                       *)
(*                                                                         *)
(* Left to ControlPlaneReconciler: the status and versions of the spec.    *)
(***************************************************************************)
EXTENDS GeneratedObjects, FiniteSets

CONSTANTS
  ControlPlanes,    \* the ControlPlane objects
  NoControlPlane,   \* what the idle worker is working on
  Blocks,           \* the components after general, in the order of reconcile
  Disturbances,     \* bounds: how often each of Kinds may happen, one for a behaviour
  Disturbed,        \* bound: the objects that people delete or add finalizers to
  MaxLeftovers      \* bound: returned calls with a goroutine still at work

\* What may happen: a write to the Kubernetes API that fails, also for a
\* conflict; a crash of the operator; a call in which wg.Wait runs before wg.Add;
\* people delete and recreate an object, or add a foreign finalizer.
Kinds == {"api", "crash", "early", "delete", "recreate", "foreign"}

Deployed == {Blocks[n] : n \in DOMAIN Blocks}
Components == {"general"} \cup Deployed

ASSUME NoControlPlaneAssumption == NoControlPlane \notin ControlPlanes
ASSUME BlocksAssumption == Blocks \in Seq(WithDeployment)
ASSUME KindsAssumption == Disturbances \subseteq [Kinds -> Nat]
ASSUME BoundsAssumption ==
  Disturbed \subseteq ControlPlanes /\ MaxLeftovers \in Nat

VARIABLES
  api, cache, created,   \* the ControlPlane objects, see FinalizedObjects
  child,   \* the owner reference of each generated object
  pc,      \* where the worker is in Reconcile
  cur,     \* the object it is working on
  read,    \* the uid in its copy of that object (the variable cp of the code)
  block,   \* the block of reconcile it is in, 0 for general
  early,   \* wg.Wait has run before wg.Add: nobody waits for general
  body,    \* the component goroutines of the last call, 0, and of earlier ones
  spent,   \* how often each of Kinds has happened
  overtaken,   \* history: some call was early
  takenBack    \* history: of OwnFiles, those that a goroutine of an incarnation that
               \* is gone has written since one of the present incarnation did

INSTANCE FinalizedObjects WITH Objects <- ControlPlanes

objects == <<api, cache, created>>
worker == <<pc, cur, read, block, early>>
history == <<overtaken, takenBack>>
vars == <<objects, child, worker, body, spent, history>>

Children ==
  UNION {UNION {{Applied(c, i)[n] : n \in DOMAIN Applied(c, i)} : i \in Components} :
           c \in ControlPlanes}

\* Those that every ControlPlane wants.
Shared == {k \in Children : k.name = Name(NoControlPlane, "general")}

\* The ConfigMaps of which each ControlPlane has its own.
OwnFiles == {k \in Children \ Shared : k.kind = "ConfigMap"}

\* The incarnation of a ControlPlane that owns a child, by name and uid.
Nobody == [name |-> NoControlPlane, uid |-> 0]
Incarnation(c, uid) == [name |-> c, uid |-> uid]

Calls == 0 .. MaxLeftovers

\* of: the call's copy of the object; at: the position in Applied.
NoBody == [of |-> Nobody, at |-> 0]
AtWork(n, i) == body[n][i] # NoBody
Idle == [i \in Components |-> NoBody]

Init ==
  /\ ObjectsInit
  /\ child = [k \in Children |-> Nobody]
  /\ pc = "idle" /\ cur = NoControlPlane /\ read = 0 /\ block = 0 /\ early = FALSE
  /\ body = [n \in Calls |-> Idle]
  /\ spent = [k \in Kinds |-> 0]
  /\ overtaken = FALSE /\ takenBack = {}

Disturb(kind) ==
  /\ spent' = [spent EXCEPT ![kind] = @ + 1]
  /\ \E most \in Disturbances : \A k \in Kinds : spent'[k] <= most[k]

Undisturbed == UNCHANGED spent

-----------------------------------------------------------------------------
(* Reconcile *)

\* Mutant: the worker keeps its object.
ReturnHoldingObject ==
  pc' = "idle" /\ block' = 0 /\ early' = FALSE /\ UNCHANGED <<cur, read>>

\* Reconcile returns, with or without an error; the key is queued again.
Return ==
  pc' = "idle" /\ cur' = NoControlPlane /\ read' = 0 /\ block' = 0 /\ early' = FALSE

\* The goroutine of component i for a copy of c.
Launched(c, uid, i) == [j \in Components |->
  IF j = i THEN [of |-> Incarnation(c, uid), at |-> 1] ELSE NoBody]

\* The first block of reconcile: what is at work of the last call stays so. The
\* goroutine that waits for the WaitGroup may run before the first Add.
StartCall(c) ==
  /\ \/ body[0] = Idle /\ body' = [body EXCEPT ![0] = Launched(c, cache[c].uid, "general")]
     \/ \E n \in Calls :
          /\ body[0] # Idle /\ body[n] = Idle
          /\ body' = [body EXCEPT ![n] = body[0],
                                  ![0] = Launched(c, cache[c].uid, "general")]
  /\ \/ early' = FALSE /\ Undisturbed /\ UNCHANGED overtaken
     \/ early' = TRUE /\ Disturb("early") /\ overtaken' = TRUE

\* Mutant: only an object without any finalizer goes to reconcileDelete.
LoadUnlessFinalized(c) ==
  /\ pc = "idle"
  /\ cache[c].phase # "absent"
  /\ cur' = c /\ read' = cache[c].uid /\ block' = 0
  /\ \/ /\ cache[c].phase = "deleting" /\ ~cache[c].foreign /\ ~cache[c].own
        /\ pc' = "unfinalize" /\ UNCHANGED <<early, body, spent, overtaken>>
     \/ /\ cache[c].phase = "live" \/ cache[c].foreign \/ cache[c].own
        /\ pc' = "select" /\ StartCall(c)
  /\ UNCHANGED <<objects, child, takenBack>>

\* Mutant: what has its finalizer is taken to be done.
LoadUnfinished(c) ==
  /\ pc = "idle"
  /\ cache[c].phase # "absent"
  /\ cur' = c /\ read' = cache[c].uid /\ block' = 0
  /\ \/ /\ cache[c].phase = "deleting" /\ ~cache[c].foreign
        /\ pc' = "unfinalize" /\ UNCHANGED <<early, body, spent, overtaken>>
     \/ /\ (cache[c].phase = "live" \/ cache[c].foreign) /\ ~cache[c].own
        /\ pc' = "select" /\ StartCall(c)
  /\ UNCHANGED <<objects, child, takenBack>>

\* The object goes to reconcileDelete, or to reconcile.
Load(c) ==
  /\ pc = "idle"
  /\ cache[c].phase # "absent"
  /\ cur' = c /\ read' = cache[c].uid /\ block' = 0
  /\ \/ /\ cache[c].phase = "deleting" /\ ~cache[c].foreign
        /\ pc' = "unfinalize" /\ UNCHANGED <<early, body, spent, overtaken>>
     \/ /\ cache[c].phase = "live" \/ cache[c].foreign
        /\ pc' = "select" /\ StartCall(c)
  /\ UNCHANGED <<objects, child, takenBack>>

InBlock(i) == i = IF block = 0 THEN "general" ELSE Blocks[block]

NextBlock ==
  /\ block < Len(Blocks)
  /\ block' = block + 1 /\ early' = FALSE /\ UNCHANGED pc
  /\ body' = [body EXCEPT ![0][Blocks[block + 1]] =
                [of |-> Incarnation(cur, read), at |-> 1]]

\* The select takes `terminated`, which is closed once general has ended, or from
\* the beginning.
Terminated == block = 0 => early \/ ~AtWork(0, "general")

\* Mutant: main does not wait for general.
ProceedAtOnce ==
  /\ pc = "select"
  /\ NextBlock
  /\ Undisturbed
  /\ UNCHANGED <<objects, child, cur, read, history>>

\* The next block launches its component.
Proceed ==
  /\ pc = "select" /\ Terminated
  /\ NextBlock
  /\ Undisturbed
  /\ UNCHANGED <<objects, child, cur, read, history>>

\* After the last block, the patch that adds the finalizer.
AddFinalizer ==
  /\ pc = "select" /\ Terminated /\ block = Len(Blocks)
  /\ \/ PatchFinalizerIn(cur, read) /\ Undisturbed
     \/ Disturb("api") /\ UNCHANGED objects
  /\ Return
  /\ UNCHANGED <<child, body, history>>

\* reconcileDelete
RemoveFinalizer ==
  /\ pc = "unfinalize"
  /\ \/ PatchFinalizerOut(cur) /\ Undisturbed
     \/ Disturb("api") /\ UNCHANGED objects
  /\ Return
  /\ UNCHANGED <<child, body, history>>

WorkerStep ==
  \/ \E c \in ControlPlanes : Load(c)
  \/ Proceed \/ AddFinalizer \/ RemoveFinalizer

-----------------------------------------------------------------------------
(* the component goroutines *)

\* The child that a goroutine is about to write.
Target(n, i) == Applied(body[n][i].of.name, i)[body[n][i].at]

\* The next child, or the end.
Advance(n, i) ==
  LET b == body[n][i]
  IN  body' = [body EXCEPT ![n][i] = IF b.at < Len(Applied(b.of.name, i))
                                     THEN [of |-> b.of, at |-> b.at + 1] ELSE NoBody]

\* The goroutine ends with an error. Its own block's select may take it, and must
\* if it is general's and `terminated` is open; nobody receives that of a later
\* one, or of an earlier call.
Fail(n, i) ==
  /\ body' = [body EXCEPT ![n][i] = NoBody]
  /\ \/ n = 0 /\ pc = "select" /\ InBlock(i) /\ Return
     \/ ~(n = 0 /\ pc = "select" /\ block = 0 /\ ~early) /\ UNCHANGED worker

\* The owner exists, and is the incarnation that does.
Alive(owner) ==
  owner # Nobody /\ Exists(owner.name) /\ api[owner.name].uid = owner.uid

\* The child passes to an owner.
Pass(k, owner) ==
  /\ child' = [child EXCEPT ![k] = owner]
  /\ takenBack' = IF Alive(owner) THEN takenBack \ {k}
                  ELSE IF Alive(child[k]) THEN takenBack \cup ({k} \cap OwnFiles)
                  ELSE takenBack

\* Mutant: the owner reference is set whoever else has one.
ApplyAnyway(n, i) ==
  /\ AtWork(n, i)
  /\ Pass(Target(n, i), body[n][i].of)
  /\ Advance(n, i) /\ Undisturbed /\ UNCHANGED <<objects, worker, overtaken>>

\* CreateOrUpdate. SetControllerReference fails on a child of another object,
\* but compares owners by name: the child of another incarnation, earlier or
\* later, gets the uid of the goroutine's.
Apply(n, i) ==
  /\ AtWork(n, i)
  /\ LET k == Target(n, i)
         c == body[n][i].of.name
     IN  \/ /\ child[k].name \in {c, NoControlPlane}
            /\ Pass(k, body[n][i].of)
            /\ Advance(n, i) /\ Undisturbed /\ UNCHANGED worker
         \/ /\ child[k].name \notin {c, NoControlPlane}
            /\ Fail(n, i) /\ Undisturbed /\ UNCHANGED <<child, takenBack>>
         \/ Disturb("api") /\ Fail(n, i) /\ UNCHANGED <<child, takenBack>>
  /\ UNCHANGED <<objects, overtaken>>

-----------------------------------------------------------------------------
(* the user, other controllers, the informer, the garbage collector *)

Create(c) ==
  /\ CreateObject(c)
  /\ IF created[c] = 0 THEN Undisturbed ELSE Disturb("recreate")
  /\ UNCHANGED <<child, worker, body, history>>

Delete(c) ==
  /\ c \in Disturbed /\ Disturb("delete") /\ DeleteObject(c)
  /\ UNCHANGED <<child, worker, body, history>>

AddForeign(c) ==
  /\ c \in Disturbed /\ Disturb("foreign") /\ AddForeignFinalizer(c)
  /\ UNCHANGED <<child, worker, body, history>>

RemoveForeign(c) ==
  /\ RemoveForeignFinalizer(c) /\ Undisturbed
  /\ UNCHANGED <<child, worker, body, history>>

SyncCache(c) ==
  /\ CatchUp(c) /\ Undisturbed
  /\ UNCHANGED <<child, worker, body, history>>

\* The garbage collector deletes a child whose owner is gone.
Collect(k) ==
  /\ child[k] # Nobody /\ ~Alive(child[k])
  /\ child' = [child EXCEPT ![k] = Nobody]
  /\ Undisturbed
  /\ UNCHANGED <<objects, worker, body, history>>

\* The operator restarts; its informer lists the objects anew.
Crash ==
  /\ Disturb("crash")
  /\ Return
  /\ body' = [n \in Calls |-> Idle]
  /\ cache' = api
  /\ UNCHANGED <<api, created, child, history>>

Surroundings ==
  \/ \E c \in ControlPlanes :
       Create(c) \/ Delete(c) \/ AddForeign(c) \/ RemoveForeign(c) \/ SyncCache(c)
  \/ \E k \in Children : Collect(k)
  \/ Crash

Next ==
  \/ WorkerStep
  \/ \E n \in Calls, i \in Components : Apply(n, i)
  \/ Surroundings

Spec == Init /\ [][Next]_vars

(***************************************************************************)
(* The worker is handed every object again and again (by events, retries   *)
(* and the resync) and its calls return, goroutines run, the informer      *)
(* catches up, the garbage collector collects.  People do as they like.    *)
(***************************************************************************)
FairSpec ==
  /\ Spec
  /\ \A c \in ControlPlanes : SF_vars(Load(c))
  /\ \A n \in Calls : WF_vars(\E i \in Components : Apply(n, i))
  /\ WF_vars(Proceed \/ AddFinalizer \/ RemoveFinalizer)
  /\ WF_vars(\E c \in ControlPlanes : SyncCache(c))
  /\ WF_vars(\E k \in Children : Collect(k))

-----------------------------------------------------------------------------
(* Properties *)

Owners == {Nobody} \cup [name : ControlPlanes, uid : Nat]

TypeOK ==
  /\ ObjectsTyped
  /\ child \in [Children -> Owners]
  /\ pc \in {"idle", "select", "unfinalize"}
  /\ cur \in ControlPlanes \cup {NoControlPlane} /\ (cur = NoControlPlane <=> pc = "idle")
  /\ read \in Nat /\ block \in 0 .. Len(Blocks)
  /\ early \in BOOLEAN /\ (early => pc = "select" /\ block = 0 /\ overtaken)
  /\ body \in [Calls -> [Components -> [of : Owners, at : 0 .. 3]]]
  /\ spent \in [Kinds -> Nat]
  /\ overtaken \in BOOLEAN /\ takenBack \subseteq OwnFiles

\* In every call so far main has waited for general.
Ordered == ~overtaken

\* A generated object of a ControlPlane that exists never passes to another
\* ControlPlane, nor is it left without an owner.  Only a goroutine that is still
\* at work for an earlier incarnation takes it back, and never one of the objects
\* that all ControlPlanes share, unless wg.Wait has overtaken wg.Add in some call.
NeverStolen ==
  [][\A k \in Children :
       Alive(child[k]) /\ child'[k] # child[k] =>
         /\ child'[k].name = child[k].name /\ child'[k].uid < child[k].uid
         /\ Ordered' => k \notin Shared]_vars

\* No pod is started without its files, unless wg.Wait has overtaken wg.Add in
\* some call: a Deployment of a ControlPlane that exists finds every file its
\* containers open in a ConfigMap or Secret of the same incarnation, whatever was
\* deleted, recreated, refused or collected before.  The exception is what is not
\* shared, the configuration of the gateway: a goroutine of an earlier incarnation
\* may have taken it back, until the present one's writes it again.
PodsFindTheirFiles ==
  Ordered =>
    \A c \in ControlPlanes, i \in Deployed :
      LET owner == child[Object("Deployment", c, i)]
      IN  Alive(owner) =>
            \A f \in Opens(i) :
              /\ f[1] \in DOMAIN Mounts(c, i)
              /\ LET file == Mounts(c, i)[f[1]]
                 IN  /\ child[file] = owner \/ file \in takenBack
                     /\ f[2] \in Data(file)

\* Two ControlPlanes that both exist never have Deployments at the same time,
\* unless wg.Wait has overtaken wg.Add in some call.  The labels do not tell their
\* pods apart: each one's Services would lead to the other's.  Nothing but the
\* shared names, and that main waits for general, keeps them from it.
OneControlPlaneAtWork ==
  Ordered =>
    \A c, d \in ControlPlanes, i, j \in Deployed :
      LET mine == child[Object("Deployment", c, i)]
          theirs == child[Object("Deployment", d, j)]
      IN  Alive(mine) /\ Alive(theirs) => mine = theirs

\* An object being deleted goes away, unless a foreign finalizer holds it.
DeletionCompletes ==
  \A c \in ControlPlanes :
    api[c].phase = "deleting" ~> api[c].phase # "deleting" \/ api[c].foreign

\* Connecting to a port of a Service of c leads to a container that listens,
\* and only to c's.
Leads(c, to) ==
  \E i \in Components :
    /\ to[1] = Name(c, i) /\ to[2] \in DOMAIN ServicePorts(i)
    /\ child[Object("Service", c, i)] = Incarnation(c, api[c].uid)
    /\ Selects(i) \in Deployed
    /\ ServicePorts(i)[to[2]] \in DOMAIN ContainerPorts(Selects(i))
    /\ \A d \in ControlPlanes :
         LET owner == child[Object("Deployment", d, Selects(i))]
         IN  IF d = c THEN owner = Incarnation(c, api[c].uid) ELSE owner = Nobody

\* Of the instance's components: from outside to the gateway, what those that
\* are deployed connect to, and the operator's web client.
Connections(c) ==
  {to \in {<<Name(c, "general"), 8080>>, ClientConnects(c)}
            \cup UNION {Connects(c, i) : i \in Deployed} :
     \E i \in Components : to[1] = Name(c, i) /\ Selects(i) \in Deployed}

\* The Secret of which the web client takes its key is c's, too.
Serves(c) ==
  /\ \A to \in Connections(c) : Leads(c, to)
  /\ child[ClientSecret] = Incarnation(c, api[c].uid)
  /\ "encryption-key" \in Data(ClientSecret)

\* The ControlPlane that is left alone takes over: what the others leave
\* behind is collected, it gets the names it was refused, and every connection
\* between its components, to its gateway and from the operator to its server
\* leads to pods of its own, whatever goroutines of earlier incarnations have
\* taken back.
SurvivorServes ==
  \A c \in ControlPlanes :
    <>[](Exists(c) /\ \A d \in ControlPlanes \ {c} : ~Exists(d)) => <>[]Serves(c)

=============================================================================
