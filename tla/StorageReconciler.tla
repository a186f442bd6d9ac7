-------------------------- MODULE StorageReconciler --------------------------
(***************************************************************************)
(* The Minio reconciler (controllers/minio_controller.go) and the Mongo    *)
(* reconciler, which is the same code for another kind                     *)
(* (controllers/mongo_controller.go): call after call of the one-block     *)
(* ReconcileGroup for one object, with the body of its component goroutine *)
(* spelled out: CreateOrUpdate of a StatefulSet, then of a Service.        *)
(*                                                                         *)
(* The work queue never hands out a key twice at a time, but Reconcile may *)
(* return before its goroutine has ended, when wg.Wait overtakes wg.Add.   *)
(* The goroutine then goes on as a leftover beside the calls that follow.  *)
(*                                                                         *)
(* What the spec says of the storage decides whether it can be applied: a  *)
(* pointer that is left out is dereferenced in a goroutine, which ends the *)
(* process, and the claim templates of a StatefulSet cannot be changed.    *)
(***************************************************************************)
EXTENDS ReconcileGroup, Sequences

CONSTANTS
  Storages,      \* what the versions of the spec may say of the storage
  MaxVersion,    \* bound: versions of the object's spec, 1 being its creation
  MaxFaults,     \* bound: failing API calls and crashes
  MaxLeftovers   \* bound: leftover goroutines at a time

\* spec.storage (or, of a Minio, spec.secret) left out; neither of its fields
\* given; one of them.
ASSUME StoragesAssumption == Storages \subseteq {"omitted", "empty", "emptyDir", "claim"}
\* One block, which sends the errors it meets as they are, and no finalizer.
ASSUME OneBlockAssumption ==
  NumComponents = 1 /\ NilSenders = {} /\ ~PatchesFinalizer
ASSUME StorageBoundsAssumption ==
  MaxVersion \in Nat \ {0} /\ MaxFaults \in Nat /\ MaxLeftovers \in Nat

Children == {"statefulset", "service"}
Leftovers == 1 .. MaxLeftovers
Goroutines == {0} \cup Leftovers     \* 0 is the goroutine of the current call

VARIABLES
  storage,      \* what each version of the object's spec says of the storage
  seen,         \* the version in the informer's cache, 0 before it is there
  loaded,       \* the version of the copy m of the current call
  child,        \* the children at the API server
  childSeen,    \* their copies in the informer's cache
  body,         \* the goroutines inside reconcileMinio
  faults,       \* failed API calls so far
  overlapped    \* history: a goroutine whose call's Wait ran early was left over

store == <<storage, seen, child, childSeen>>
storageVars == <<store, loaded, body, faults, overlapped>>
allVars == <<vars, storageVars>>

\* The version of the spec at the API server.
version == Len(storage)

\* MakeMinioStatefulSetSpec and MakeMinioPodSpec dereference the pointer
\* spec.storage, and MakeMinioPodSpec spec.secret, without a check.
Complete(ver) == storage[ver] # "omitted"

ClaimTemplates(ver) == IF storage[ver] = "claim" THEN {"volume"} ELSE {}

\* A child: the version of the spec it was written from, 0 when it does not
\* exist, and its resource version.
NoChild == [ver |-> 0, rev |-> 0]

NoBody == [step |-> "none", child |-> "statefulset", ver |-> 0, copy |-> NoChild]

StorageInit ==
  /\ Init
  /\ storage \in {<<s>> : s \in Storages} /\ seen = 1 /\ loaded = 1
  /\ child = [c \in Children |-> NoChild]
  /\ childSeen = [c \in Children |-> NoChild]
  /\ body = [g \in Goroutines |-> NoBody]
  /\ faults = 0
  /\ overlapped = FALSE

-----------------------------------------------------------------------------
(* the calls of Reconcile, one after the other *)

\* Reconcile begins, with a WaitGroup and channels of its own.
FreshCall ==
  /\ mainPc' = "launch" /\ block' = 1 /\ result' = "none"
  /\ counter' = 0 /\ waiterPc' = "start"
  /\ comp' = [i \in Components |-> "idle"] /\ outcome' = [i \in Components |-> "none"]
  /\ earlyWait' = FALSE

\* The next call, after an event, an error or the resync: it loads the object. (If
\* Get fails the call is over before it has done anything, which is no step here.
\* The object is never deleted in this module, so Get does find it.) A goroutine of
\* the call before that is still in its body is left over; one that is blocked on
\* its send stays blocked for good and is forgotten here.
NextCall ==
  /\ mainPc = "returned"
  /\ \/ comp[1] # "running" /\ UNCHANGED <<body, overlapped>>
     \/ /\ comp[1] = "running"
        /\ \E g \in Leftovers :
             /\ body[g] = NoBody
             /\ body' = [body EXCEPT ![g] = body[0], ![0] = NoBody]
        /\ overlapped' = (overlapped \/ earlyWait)
  /\ loaded' = seen
  /\ FreshCall
  /\ UNCHANGED <<store, faults>>

\* The process ends, with every goroutine it runs; started again, it lists
\* the objects anew and calls Reconcile.
Restart ==
  /\ FreshCall
  /\ body' = [g \in Goroutines |-> NoBody]
  /\ seen' = version /\ childSeen' = child /\ loaded' = version
  /\ UNCHANGED <<storage, child, overlapped>>

Crash ==
  /\ faults < MaxFaults /\ faults' = faults + 1
  /\ Restart

\* go r.reconcileMinio(ctx, &wg, errStreamMinio, &m)
GoReconcile ==
  /\ Launch
  /\ body' = [body EXCEPT ![0] = [NoBody EXCEPT !.step = "get", !.ver = loaded]]
  /\ UNCHANGED <<store, loaded, faults, overlapped>>

\* The select, the waiter and the deferred Done are those of the group.
GroupStep ==
  /\ Receive \/ Proceed \/ Waiter \/ Done(1)
  /\ UNCHANGED storageVars

-----------------------------------------------------------------------------
(* the body of reconcileMinio, in the current call's goroutine or a leftover *)

\* The goroutine sends its error: nobody receives a leftover's.
Fail(g) ==
  /\ body' = [body EXCEPT ![g] = NoBody]
  /\ IF g = 0 THEN BodyFails(1) ELSE UNCHANGED vars

\* The child is as it should be: on to the Service, or to the end.
ChildDone(g) ==
  IF body[g].child = "statefulset"
  THEN /\ body' = [body EXCEPT ![g] =
                     [@ EXCEPT !.step = "get", !.child = "service", !.copy = NoChild]]
       /\ UNCHANGED vars
  ELSE /\ body' = [body EXCEPT ![g] = NoBody]
       /\ IF g = 0 THEN BodySucceeds(1) ELSE UNCHANGED vars

\* CreateOrUpdate reads the child from the informer's cache.
GetChild(g) ==
  /\ body[g].step = "get"
  /\ body' = [body EXCEPT ![g].step = "put", ![g].copy = childSeen[body[g].child]]
  /\ UNCHANGED <<vars, store, loaded, faults, overlapped>>

\* The API server gives a child a new resource version when the write
\* changes it.
WriteChild(g) ==
  /\ child' = [child EXCEPT ![body[g].child] =
       IF @.ver = body[g].ver THEN @ ELSE [ver |-> body[g].ver, rev |-> @.rev + 1]]
  /\ ChildDone(g)

Fresh(g) == body[g].copy.rev = child[body[g].child].rev

\* Generating the StatefulSet's spec panics.
Panics(g) == body[g].child = "statefulset" /\ ~Complete(body[g].ver)

\* The API server refuses a StatefulSet whose claim templates have changed.
Refused(g) ==
  /\ body[g].child = "statefulset" /\ child["statefulset"] # NoChild
  /\ ClaimTemplates(body[g].ver) # ClaimTemplates(child["statefulset"].ver)

\* Mutant: a conflict is taken for success.
PutChildIgnoringConflict(g) ==
  /\ body[g].step = "put" /\ ~Panics(g)
  /\ IF Fresh(g) /\ ~Refused(g) THEN WriteChild(g) ELSE ChildDone(g) /\ UNCHANGED child
  /\ UNCHANGED <<storage, seen, childSeen, loaded, faults, overlapped>>

\* Mutant: a child that exists is not updated.
PutChildOnce(g) ==
  /\ body[g].step = "put" /\ ~Panics(g)
  /\ IF body[g].copy = NoChild /\ Fresh(g)
     THEN WriteChild(g) ELSE ChildDone(g) /\ UNCHANGED child
  /\ UNCHANGED <<storage, seen, childSeen, loaded, faults, overlapped>>

\* CreateOrUpdate creates the child, or updates it at the resource version it
\* has read: both fail if the cache was behind. An update is sent even if
\* nothing has changed, since the copy it compares with carries the defaults
\* of the API server, which the generated spec does not.
PutChild(g) ==
  /\ body[g].step = "put" /\ ~Panics(g)
  /\ \/ Fresh(g) /\ ~Refused(g) /\ WriteChild(g)
     \/ (~Fresh(g) \/ Refused(g)) /\ Fail(g) /\ UNCHANGED child
  /\ UNCHANGED <<storage, seen, childSeen, loaded, faults, overlapped>>

\* Nothing recovers in the goroutine: the process dies.
Panic(g) ==
  /\ body[g].step = "put" /\ Panics(g)
  /\ Restart
  /\ UNCHANGED faults

\* Reading or writing the child fails otherwise.
CallFails(g) ==
  /\ body[g].step = "get" \/ (body[g].step = "put" /\ ~Panics(g))
  /\ faults < MaxFaults /\ faults' = faults + 1
  /\ Fail(g)
  /\ UNCHANGED <<store, loaded, overlapped>>

Body(g) == GetChild(g) \/ PutChild(g) \/ Panic(g) \/ CallFails(g)

-----------------------------------------------------------------------------
(* the user and the informer *)

Edit ==
  /\ version < MaxVersion
  /\ \E s \in Storages : storage' = Append(storage, s)
  /\ UNCHANGED <<vars, seen, child, childSeen, loaded, body, faults, overlapped>>

Sync ==
  /\ \/ seen # version /\ seen' = version /\ UNCHANGED childSeen
     \/ \E c \in Children :
          /\ childSeen[c] # child[c]
          /\ childSeen' = [childSeen EXCEPT ![c] = child[c]]
          /\ UNCHANGED seen
  /\ UNCHANGED <<vars, storage, child, loaded, body, faults, overlapped>>

StorageNext ==
  \/ NextCall \/ GoReconcile \/ GroupStep
  \/ \E g \in Goroutines : Body(g)
  \/ Edit \/ Sync \/ Crash

StorageSpec == StorageInit /\ [][StorageNext]_allVars

(***************************************************************************)
(* Every goroutine runs, every API call returns, the informer catches up,  *)
(* the resync calls Reconcile again and again, and a process that has died *)
(* is started again.                                                       *)
(***************************************************************************)
FairStorageSpec ==
  /\ StorageSpec
  /\ WF_allVars(NextCall) /\ WF_allVars(GoReconcile)
  /\ WF_allVars((Receive \/ Proceed) /\ UNCHANGED storageVars)
  /\ WF_allVars(Waiter /\ UNCHANGED storageVars)
  /\ WF_allVars(Done(1) /\ UNCHANGED storageVars)
  /\ \A g \in Goroutines : WF_allVars(Body(g))
  /\ WF_allVars(Sync)

-----------------------------------------------------------------------------
(* Properties *)

ChildType == [ver : 0 .. MaxVersion, rev : Nat]

StorageTypeOK ==
  /\ TypeOK
  /\ storage \in Seq(Storages) /\ version \in 1 .. MaxVersion /\ seen \in 1 .. version /\ loaded \in 1 .. seen
  /\ child \in [Children -> ChildType] /\ childSeen \in [Children -> ChildType]
  /\ body \in [Goroutines -> [step : {"none", "get", "put"}, child : Children,
                              ver : 0 .. MaxVersion, copy : ChildType]]
  /\ faults \in 0 .. MaxFaults /\ overlapped \in BOOLEAN

Contract == INSTANCE ReconcileContract WITH
  Parts <- Children, Kept <- Children,
  Needs <- [c \in Children |-> IF c = "service" THEN {"statefulset"} ELSE {}],
  asked <- version, applied <- [c \in Children |-> child[c].ver],
  loose <- overlapped

\* The children go through the versions of the spec as the contract says: a
\* Service follows its StatefulSet, and nothing an earlier call has written
\* is undone, be the caches as far behind as they may, calls failing, specs
\* refused and the process dying, unless wg.Wait has overtaken wg.Add.
KeepsContract == Contract!Spec

\* A call that returned nil has left both children as its copy of the object
\* asks for, unless it or one before it did not wait for its goroutine.
NilMeansApplied ==
  [][mainPc # "returned" /\ mainPc' = "returned" /\ result' = "nil"
     /\ ~earlyWait /\ ~overlapped =>
       \A c \in Children : child[c].ver = loaded]_allVars

\* The last version of the spec says what storage to use, and asks for the
\* claim templates the StatefulSet has if there is one.
Applicable ==
  /\ Complete(version)
  /\ child["statefulset"] = NoChild
       \/ ClaimTemplates(version) = ClaimTemplates(child["statefulset"].ver)

\* If the last version of the spec can be applied, the children end up as it
\* asks for and stay so: whatever was left over, stale, refused or lost when
\* the process died, and however often an earlier version has killed it.
Converges == <>[](Applicable => \A c \in Children : child[c].ver = version)

=============================================================================
