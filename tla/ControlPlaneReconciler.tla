----------------------- MODULE ControlPlaneReconciler -----------------------
(***************************************************************************)
(* The ControlPlane reconciler (controllers/controlplane_controller.go),   *)
(* call after call of ReconcileGroup for one object, with the bodies of    *)
(* its component goroutines: general, then gateway, server, cache and ops. *)
(*                                                                         *)
(* When general has ended, `terminated` is closed and main runs through    *)
(* the remaining blocks: their goroutines work side by side, often after   *)
(* Reconcile has returned, and beside those of the next calls. All         *)
(* goroutines of a call share one copy of the object, the pointer cp, and  *)
(* update the object's status from it without a lock.                      *)
(*                                                                         *)
(* CreateOrUpdate is one step: what it writes does not depend on what it   *)
(* has read, and a conflict is one of the calls that fail.  The two steps  *)
(* are told apart in StorageReconciler.                                    *)
(***************************************************************************)
EXTENDS ReconcileGroup, Sequences

CONSTANTS
  MaxVersion,    \* bound: versions of the object's spec, 1 being its creation
  MaxChanges,    \* bound: changes of the Deployments' available replicas
  MaxFaults,     \* bound: failing API calls
  MaxLeftovers   \* bound: earlier calls with a goroutine at work

ASSUME ManyBlocksAssumption == NumComponents >= 2 /\ PatchesFinalizer
ASSUME BoundsAssumption ==
  /\ MaxVersion \in Nat \ {0}
  /\ MaxChanges \in Nat /\ MaxFaults \in Nat /\ MaxLeftovers \in Nat

General == 1
Gateway == 2
Deployed == Components \ {General}   \* the components with a Deployment

\* What the body of a component does, in this order.
Work(i) ==
  CASE i = General -> <<"configmap", "secret", "service">>
    [] i = Gateway -> <<"configmap", "deployment", "status", "service">>
    [] OTHER -> <<"deployment", "status", "service">>

Kinds == {"configmap", "secret", "deployment", "service"}
KindsOf(i) == Kinds \cap {Work(i)[n] : n \in DOMAIN Work(i)}

Calls == 0 .. MaxLeftovers   \* 0 is the current call
NotFound == -1
Counts == {0, 1}             \* available replicas: none, or all

VARIABLES
  cp,          \* the ControlPlane at the API server
  seen,        \* the informer's copy of it
  copy,        \* the copy each call works on, shared by its goroutines
  child,       \* the version of the spec each child was written from, 0: none
  available,   \* status.availableReplicas of the Deployments
  availableSeen,  \* the same in the informer's cache, or NotFound
  body,        \* the component goroutines of each call that are at work
  changes, faults,   \* bounds spent so far
  overlapped   \* history: wg.Wait ran before the first wg.Add in an earlier call

cluster == <<cp, seen, child, available, availableSeen>>
bounds == <<changes, faults>>
ownVars == <<cluster, copy, body, bounds, overlapped>>
allVars == <<vars, ownVars>>

NoCounts == [i \in Deployed |-> 0]

\* ver: the version of the spec; count: the status; rv: the resource version.
NoCopy == [ver |-> 0, count |-> NoCounts, rv |-> 0]

\* at: the position in Work; a status update is sent for the count that was
\* read, answered, and the answer decoded into the call's copy.
NoBody == [at |-> 0, phase |-> "start", read |-> 0, answer |-> NoCopy]

AtWork(c, i) == body[c][i].at # 0
Task(c, i) == Work(i)[body[c][i].at]

FirstVersion == [ver |-> 1, count |-> NoCounts, rv |-> 1]

CPInit ==
  /\ Init
  /\ cp = [object |-> FirstVersion, finalizer |-> FALSE]
  /\ seen = FirstVersion
  /\ copy = [c \in Calls |-> IF c = 0 THEN FirstVersion ELSE NoCopy]
  /\ child = [i \in Components |-> [k \in KindsOf(i) |-> 0]]
  /\ available = NoCounts
  /\ availableSeen = [i \in Deployed |-> NotFound]
  /\ body = [c \in Calls |-> [i \in Components |-> NoBody]]
  /\ changes = 0 /\ faults = 0
  /\ overlapped = FALSE

-----------------------------------------------------------------------------
(* the calls of Reconcile, one after the other *)

Idle(c) == \A i \in Components : ~AtWork(c, i)

\* The next call loads the object from the cache. The goroutines of the call
\* before that are at work go on with their copy; one that is blocked on its
\* send stays blocked for good and is forgotten here.
NextCall ==
  /\ mainPc = "returned"
  /\ \/ Idle(0) /\ body' = body /\ copy' = [copy EXCEPT ![0] = seen]
     \/ /\ ~Idle(0)
        /\ \E c \in Calls \ {0} :
             /\ Idle(c)
             /\ body' = [body EXCEPT ![c] = body[0], ![0] = [i \in Components |-> NoBody]]
             /\ copy' = [copy EXCEPT ![c] = copy[0], ![0] = seen]
  /\ overlapped' = (overlapped \/ earlyWait)
  /\ mainPc' = "launch" /\ block' = 1 /\ result' = "none"
  /\ counter' = 0 /\ waiterPc' = "start"
  /\ comp' = [i \in Components |-> "idle"] /\ outcome' = [i \in Components |-> "none"]
  /\ earlyWait' = FALSE
  /\ UNCHANGED <<cluster, bounds>>

\* go r.reconcileX(ctx, log, &wg, errStreamX, cp)
GoReconcile ==
  /\ Launch
  /\ body' = [body EXCEPT ![0][block].at = 1]
  /\ UNCHANGED <<cluster, copy, bounds, overlapped>>

\* The API server gives an object it changes a new resource version.
Stored(o) == IF o = cp.object THEN o ELSE [o EXCEPT !.rv = cp.object.rv + 1]

\* The server-side apply of the finalizer.  It may fail, also because an
\* answer decoded meanwhile has left the copy without its kind.
FinalizerPatched ==
  /\ PatchFinalizer
  /\ cp' = IF result' = "nil" /\ ~cp.finalizer
           THEN [object |-> [cp.object EXCEPT !.rv = @ + 1], finalizer |-> TRUE]
           ELSE cp
  /\ UNCHANGED <<seen, child, available, availableSeen>>
  /\ UNCHANGED <<copy, body, bounds, overlapped>>

Selected == (Receive \/ Proceed) /\ UNCHANGED ownVars
Waited == Waiter /\ UNCHANGED ownVars
DoneCalled(i) == Done(i) /\ UNCHANGED ownVars

-----------------------------------------------------------------------------
(* the bodies; o is the call's copy of the object after the step *)

\* A call nobody works for any more needs no copy.
Leave(c, i, o) ==
  /\ body' = [body EXCEPT ![c][i] = NoBody]
  /\ copy' = [copy EXCEPT ![c] =
       IF c # 0 /\ \A j \in Components \ {i} : ~AtWork(c, j) THEN NoCopy ELSE o]

\* Mutant: the body returns without sending its error.
FailSilently(c, i, v) ==
  /\ Leave(c, i, copy[c])
  /\ IF c = 0 THEN BodySucceeds(i) ELSE UNCHANGED vars

\* The goroutine sends v: nobody receives what an earlier call's sends.
Fail(c, i, v) ==
  /\ Leave(c, i, copy[c])
  /\ IF c = 0 THEN BodyFails(i) /\ outcome'[i] = v ELSE UNCHANGED vars

Advance(c, i, o) ==
  IF body[c][i].at < Len(Work(i))
  THEN /\ body' = [body EXCEPT ![c][i] = [NoBody EXCEPT !.at = body[c][i].at + 1]]
       /\ copy' = [copy EXCEPT ![c] = o]
       /\ UNCHANGED vars
  ELSE /\ Leave(c, i, o)
       /\ IF c = 0 THEN BodySucceeds(i) ELSE UNCHANGED vars

\* Mutant: a child that exists is not updated.
ApplyChildOnce(c, i) ==
  /\ AtWork(c, i) /\ Task(c, i) # "status"
  /\ child' = [child EXCEPT ![i][Task(c, i)] = IF @ = 0 THEN copy[c].ver ELSE @]
  /\ Advance(c, i, copy[c])
  /\ UNCHANGED <<cp, seen, available, availableSeen, bounds, overlapped>>

ApplyChild(c, i) ==
  /\ AtWork(c, i) /\ Task(c, i) # "status"
  /\ child' = [child EXCEPT ![i][Task(c, i)] = copy[c].ver]
  /\ Advance(c, i, copy[c])
  /\ UNCHANGED <<cp, seen, available, availableSeen, bounds, overlapped>>

\* Mutant: the count is put into the copy before it is compared with it.
ReadCountAssignFirst(c, i) ==
  /\ AtWork(c, i) /\ Task(c, i) = "status" /\ body[c][i].phase = "start"
  /\ \/ availableSeen[i] = NotFound /\ Fail(c, i, "nil")
     \/ /\ availableSeen[i] # NotFound
        /\ Advance(c, i, [copy[c] EXCEPT !.count[i] = availableSeen[i]])
  /\ UNCHANGED <<cluster, bounds, overlapped>>

\* The Deployment is read from the cache: not found there, the body ends with
\* a nil error.  A count that differs from the copy's is put into the copy.
ReadCount(c, i) ==
  /\ AtWork(c, i) /\ Task(c, i) = "status" /\ body[c][i].phase = "start"
  /\ \/ availableSeen[i] = NotFound /\ Fail(c, i, "nil")
     \/ availableSeen[i] = copy[c].count[i] /\ Advance(c, i, copy[c])
     \/ /\ availableSeen[i] \notin {NotFound, copy[c].count[i]}
        /\ copy' = [copy EXCEPT ![c].count[i] = availableSeen[i]]
        /\ body' = [body EXCEPT ![c][i].phase = "send", ![c][i].read = availableSeen[i]]
        /\ UNCHANGED vars
  /\ UNCHANGED <<cluster, bounds, overlapped>>

\* Mutant: the resource version is not checked, as with a patch of the status.
SendStatusUnchecked(c, i) ==
  /\ AtWork(c, i) /\ body[c][i].phase = "send"
  /\ LET stored == Stored([cp.object EXCEPT !.count = copy[c].count])
     IN  /\ cp' = [cp EXCEPT !.object = stored]
         /\ body' = [body EXCEPT ![c][i].phase = "decode", ![c][i].answer = stored]
  /\ UNCHANGED <<vars, copy>>
  /\ UNCHANGED <<seen, child, available, availableSeen, bounds, overlapped>>

\* Status().Update sends the copy as it is now, with what the other
\* goroutines have put into it; the API server refuses an old one.
SendStatus(c, i) ==
  /\ AtWork(c, i) /\ body[c][i].phase = "send"
  /\ \/ /\ copy[c].rv = cp.object.rv
        /\ LET stored == Stored([cp.object EXCEPT !.count = copy[c].count])
           IN  /\ cp' = [cp EXCEPT !.object = stored]
               /\ body' = [body EXCEPT ![c][i].phase = "decode", ![c][i].answer = stored]
        /\ UNCHANGED <<vars, copy>>
     \/ copy[c].rv # cp.object.rv /\ Fail(c, i, "error") /\ UNCHANGED cp
  /\ UNCHANGED <<seen, child, available, availableSeen, bounds, overlapped>>

\* The client decodes the answer over the copy, whatever it holds by now.
DecodeAnswer(c, i) ==
  /\ AtWork(c, i) /\ body[c][i].phase = "decode"
  /\ Advance(c, i, body[c][i].answer)
  /\ UNCHANGED <<cluster, bounds, overlapped>>

\* A read or a write fails.
CallFails(c, i) ==
  /\ AtWork(c, i) /\ body[c][i].phase # "decode"
  /\ faults < MaxFaults /\ faults' = faults + 1
  /\ Fail(c, i, "error")
  /\ UNCHANGED <<cluster, changes, overlapped>>

Body(c, i) ==
  ApplyChild(c, i) \/ ReadCount(c, i) \/ SendStatus(c, i) \/ DecodeAnswer(c, i) \/ CallFails(c, i)

-----------------------------------------------------------------------------
(* the user, the Deployments and the informer *)

Edit ==
  /\ cp.object.ver < MaxVersion
  /\ cp' = [cp EXCEPT !.object = Stored([cp.object EXCEPT !.ver = @ + 1])]
  /\ UNCHANGED <<seen, child, available, availableSeen>>
  /\ UNCHANGED <<vars, copy, body, bounds, overlapped>>

\* The pods of a Deployment become available, or cease to be.
ReplicasChange(i) ==
  /\ child[i]["deployment"] # 0
  /\ changes < MaxChanges /\ changes' = changes + 1
  /\ \E n \in Counts \ {available[i]} : available' = [available EXCEPT ![i] = n]
  /\ UNCHANGED <<cp, seen, child, availableSeen>>
  /\ UNCHANGED <<vars, copy, body, faults, overlapped>>

Present(i) == IF child[i]["deployment"] = 0 THEN NotFound ELSE available[i]

Sync ==
  /\ \/ seen # cp.object /\ seen' = cp.object /\ UNCHANGED availableSeen
     \/ \E i \in Deployed :
          /\ availableSeen[i] # Present(i)
          /\ availableSeen' = [availableSeen EXCEPT ![i] = Present(i)]
          /\ UNCHANGED seen
  /\ UNCHANGED <<cp, child, available>>
  /\ UNCHANGED <<vars, copy, body, bounds, overlapped>>

CPNext ==
  \/ NextCall \/ GoReconcile \/ FinalizerPatched \/ Selected \/ Waited
  \/ \E i \in Components : DoneCalled(i)
  \/ \E c \in Calls, i \in Components : Body(c, i)
  \/ Edit \/ Sync
  \/ \E i \in Deployed : ReplicasChange(i)

CPSpec == CPInit /\ [][CPNext]_allVars

(***************************************************************************)
(* Every goroutine runs, every API call returns, the informer catches up,  *)
(* and the resync calls Reconcile again and again.                         *)
(***************************************************************************)
Fairness ==
  /\ WF_allVars(NextCall) /\ WF_allVars(GoReconcile) /\ WF_allVars(FinalizerPatched)
  /\ WF_allVars(Selected) /\ WF_allVars(Waited) /\ WF_allVars(Sync)
  /\ \A i \in Components : WF_allVars(DoneCalled(i))
  /\ \A c \in Calls, i \in Components : WF_allVars(Body(c, i))

FairCPSpec == CPSpec /\ Fairness

-----------------------------------------------------------------------------
(* Properties *)

CopyType == [ver : 0 .. MaxVersion, count : [Deployed -> Counts], rv : Nat]

CPTypeOK ==
  /\ TypeOK
  /\ cp \in [object : CopyType, finalizer : BOOLEAN]
  /\ seen \in CopyType /\ copy \in [Calls -> CopyType]
  /\ \A i \in Components : child[i] \in [KindsOf(i) -> 0 .. MaxVersion]
  /\ available \in [Deployed -> Counts]
  /\ availableSeen \in [Deployed -> Counts \cup {NotFound}]
  /\ body \in [Calls -> [Components ->
       [at : 0 .. 4, phase : {"start", "send", "decode"},
                               read : Counts, answer : CopyType]]]
  /\ changes \in 0 .. MaxChanges /\ faults \in 0 .. MaxFaults /\ overlapped \in BOOLEAN

Ordered == ~overlapped /\ ~earlyWait

\* No Deployment is rolled out from a newer version of the spec than the
\* ConfigMap and the Secret its pods mount, however many calls work on the
\* children at a time, as long as wg.Wait has never run before wg.Add.
MountedBeforeRollout ==
  Ordered => \A i \in Deployed : \A k \in {"configmap", "secret"} :
               child[i]["deployment"] <= child[General][k]

Parts == UNION {{i} \X KindsOf(i) : i \in Components}
Shared == {General} \X KindsOf(General)

\* What the goroutines before it, and general itself, have applied.
NeedsOf(i, k) ==
  IF i # General THEN Shared
  ELSE {<<General, l>> : l \in {l \in KindsOf(General) :
          \E m, n \in DOMAIN Work(General) :
            m < n /\ Work(General)[m] = l /\ Work(General)[n] = k}}

Contract == INSTANCE ReconcileContract WITH
  Parts <- Parts, Kept <- Shared,
  Needs <- [part \in Parts |-> NeedsOf(part[1], part[2])],
  asked <- cp.object.ver, applied <- [part \in Parts |-> child[part[1]][part[2]]],
  loose <- ~Ordered

\* The children go through the versions of the spec as the contract says: each
\* after what it needs, and what all components share is never put back to an
\* older version, as long as wg.Wait has never run before wg.Add: unlike the
\* other goroutines, the first one is not left over.
KeepsContract == Contract!Spec

\* An update of the status changes a component's count only to what that
\* component has read and is about to send itself, whoever sends it: no copy
\* that is behind, of this call or an earlier one, takes back a count, as long
\* as no call fails between reading and sending.
CountsAreRead ==
  [][faults = 0 => \A i \in Deployed : cp'.object.count[i] # cp.object.count[i] =>
       \E c \in Calls : /\ body[c][i].phase = "send"
                        /\ body[c][i].read = cp'.object.count[i]]_allVars

\* All children end up as the last version of the spec asks for and stay so:
\* leftovers, lost status updates and bodies that stop at a Deployment they
\* do not find do not keep a component from its Service.
Converges ==
  <>[](\A i \in Components : \A k \in KindsOf(i) : child[i][k] = cp.object.ver)

\* The counts in the status end up as the Deployments'.
StatusConverges == <>[](cp.object.count = available)

\* "this is equal deployment.status.availableReplicas of gateway", and of the
\* others (controlplane_types.go:408-418): a status update that succeeds has
\* recorded the count it was sent for, the one its Deployment reported.
StatusEqualsReplicas ==
  Ordered => \A c \in Calls, i \in Deployed :
    body[c][i].phase = "decode" => body[c][i].answer.count[i] = body[c][i].read

=============================================================================
