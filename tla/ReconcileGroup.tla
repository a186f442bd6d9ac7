--------------------------- MODULE ReconcileGroup ---------------------------
(***************************************************************************)
(* One call of the fan-out Reconcile shared by the ControlPlane, Minio and *)
(* Mongo reconcilers (controllers/controlplane_controller.go:75-151,       *)
(* minio_controller.go:55-74, mongo_controller.go:55-74).                  *)
(*                                                                         *)
(* Three kinds of goroutine take part:                                     *)
(*   main    the worker that called Reconcile; it runs one block per       *)
(*           component: wg.Add(1), go reconcileX, select                   *)
(*   waiter  the goroutine started first: wg.Wait(); close(terminated)     *)
(*   comp[i] the component goroutine of block i; it ends by wg.Done(),     *)
(*           after sending on its own unbuffered channel if it failed      *)
(*                                                                         *)
(* The body of a component is abstracted to its outcome: "ok" (it sends    *)
(* nothing), "error" (it sends an error) or "nil" (it sends                *)
(* client.IgnoreNotFound(err) for an object it did not find, which is a    *)
(* nil error).                                                             *)
(***************************************************************************)
EXTENDS Integers

CONSTANTS
  NumComponents,     \* blocks of the call: 5 for ControlPlane, 1 for Minio and Mongo
  NilSenders,        \* components that may send a nil error
  PatchesFinalizer   \* TRUE when the blocks are followed by a finalizer patch

Components == 1 .. NumComponents

ASSUME NumComponentsAssumption == NumComponents \in Nat \ {0}
ASSUME NilSendersAssumption == NilSenders \subseteq Components
ASSUME PatchesFinalizerAssumption == PatchesFinalizer \in BOOLEAN

VARIABLES
  mainPc,     \* where main is: "launch", "select", "patch" or "returned"
  block,      \* the block main is in
  result,     \* the error Reconcile returned: "none" while it runs
  counter,    \* the WaitGroup's counter
  waiterPc,   \* where the waiter is
  comp,       \* where each component goroutine is
  outcome,    \* how each component's body ended
  earlyWait   \* history: wg.Wait ran before the first wg.Add

vars == <<mainPc, block, result, counter, waiterPc, comp, outcome, earlyWait>>

\* The channel `terminated` is closed; it is never opened again.
Terminated == waiterPc = "closed"

Init ==
  /\ mainPc = "launch"
  /\ block = 1
  /\ result = "none"
  /\ counter = 0
  /\ waiterPc = "start"
  /\ comp = [i \in Components |-> "idle"]
  /\ outcome = [i \in Components |-> "none"]
  /\ earlyWait = FALSE

-----------------------------------------------------------------------------
(* main *)

\* wg.Add(1); errStream := make(chan error); go r.reconcileX(...).
Launch ==
  /\ mainPc = "launch"
  /\ mainPc' = "select"
  /\ counter' = counter + 1
  /\ comp' = [comp EXCEPT ![block] = "running"]
  /\ UNCHANGED <<block, result, waiterPc, outcome, earlyWait>>

\* Mutant: the error is taken from the channel but not returned.
ReceiveWithoutReturn ==
  /\ mainPc = "select"
  /\ comp[block] = "sending"
  /\ block < NumComponents
  /\ mainPc' = "launch"
  /\ block' = block + 1
  /\ comp' = [comp EXCEPT ![block] = "finishing"]
  /\ UNCHANGED <<result, counter, waiterPc, outcome, earlyWait>>

\* case err = <-errStream: return ctrl.Result{}, err. The channel is
\* unbuffered: the component's send completes in the same step.
Receive ==
  /\ mainPc = "select"
  /\ comp[block] = "sending"
  /\ mainPc' = "returned"
  /\ result' = outcome[block]
  /\ comp' = [comp EXCEPT ![block] = "finishing"]
  /\ UNCHANGED <<block, counter, waiterPc, outcome, earlyWait>>

\* Mutant: a select with a default case, main does not wait.
ProceedAtOnce ==
  /\ mainPc = "select"
  /\ \/ block < NumComponents /\ block' = block + 1 /\ mainPc' = "launch" /\ UNCHANGED result
     \/ block = NumComponents /\ mainPc' = "returned" /\ result' = "nil" /\ UNCHANGED block
  /\ UNCHANGED <<counter, waiterPc, comp, outcome, earlyWait>>

\* case <-terminated: main goes on to the next block; after the last one
\* it patches the finalizer, or returns nil when the caller has none.
Proceed ==
  /\ mainPc = "select"
  /\ Terminated
  /\ \/ /\ block < NumComponents
        /\ block' = block + 1
        /\ mainPc' = "launch"
        /\ UNCHANGED result
     \/ /\ block = NumComponents
        /\ PatchesFinalizer
        /\ mainPc' = "patch"
        /\ UNCHANGED <<block, result>>
     \/ /\ block = NumComponents
        /\ ~PatchesFinalizer
        /\ mainPc' = "returned"
        /\ result' = "nil"
        /\ UNCHANGED block
  /\ UNCHANGED <<counter, waiterPc, comp, outcome, earlyWait>>

\* r.Patch of the finalizer, which may fail, and the return after it.
PatchFinalizer ==
  /\ mainPc = "patch"
  /\ mainPc' = "returned"
  /\ result' \in {"nil", "error"}
  /\ UNCHANGED <<block, counter, waiterPc, comp, outcome, earlyWait>>

Main == Launch \/ Receive \/ Proceed \/ PatchFinalizer

-----------------------------------------------------------------------------
(* waiter *)

\* wg.Wait(): returns at once when the counter is zero, parks otherwise.
CallWait ==
  /\ waiterPc = "start"
  /\ waiterPc' = IF counter = 0 THEN "closing" ELSE "parked"
  /\ earlyWait' = (block = 1 /\ mainPc = "launch")
  /\ UNCHANGED <<mainPc, block, result, counter, comp, outcome>>

\* The parked waiter, released by the last Done, returns from Wait. The
\* runtime panics here if the counter has been raised in the meantime:
\* NoWaitGroupMisuse says it never is.
ReturnFromWait ==
  /\ waiterPc = "released"
  /\ waiterPc' = "closing"
  /\ UNCHANGED <<mainPc, block, result, counter, comp, outcome, earlyWait>>

\* close(terminated)
CloseTerminated ==
  /\ waiterPc = "closing"
  /\ waiterPc' = "closed"
  /\ UNCHANGED <<mainPc, block, result, counter, comp, outcome, earlyWait>>

Waiter == CallWait \/ ReturnFromWait \/ CloseTerminated

-----------------------------------------------------------------------------
(* components *)

\* Mutant: wg.Done() is not deferred and the successful path forgets it.
SucceedWithoutDone(i) ==
  /\ comp[i] = "running"
  /\ comp' = [comp EXCEPT ![i] = "exited"]
  /\ outcome' = [outcome EXCEPT ![i] = "ok"]
  /\ UNCHANGED <<mainPc, block, result, counter, waiterPc, earlyWait>>

\* The body ran to its end without an error: nothing is sent.
BodySucceeds(i) ==
  /\ comp[i] = "running"
  /\ comp' = [comp EXCEPT ![i] = "finishing"]
  /\ outcome' = [outcome EXCEPT ![i] = "ok"]
  /\ UNCHANGED <<mainPc, block, result, counter, waiterPc, earlyWait>>

\* Mutant: the error channel is buffered.
FailBuffered(i) ==
  /\ comp[i] = "running"
  /\ comp' = [comp EXCEPT ![i] = "finishing"]
  /\ outcome' = [outcome EXCEPT ![i] = "error"]
  /\ UNCHANGED <<mainPc, block, result, counter, waiterPc, earlyWait>>

\* The body reached errStream <- err, or errStream <- client.IgnoreNotFound(err);
\* the goroutine blocks there until main receives.
BodyFails(i) ==
  /\ comp[i] = "running"
  /\ comp' = [comp EXCEPT ![i] = "sending"]
  /\ \E v \in {"error"} \cup (IF i \in NilSenders THEN {"nil"} ELSE {}) :
        outcome' = [outcome EXCEPT ![i] = v]
  /\ UNCHANGED <<mainPc, block, result, counter, waiterPc, earlyWait>>

\* Mutant: a component calls Done twice.
DoneTwice(i) ==
  /\ comp[i] = "finishing"
  /\ comp' = [comp EXCEPT ![i] = "exited"]
  /\ counter' = counter - 2
  /\ UNCHANGED <<mainPc, block, result, waiterPc, outcome, earlyWait>>

\* defer (*wg).Done(): the Done that takes the counter to zero releases a
\* parked waiter.
Done(i) ==
  /\ comp[i] = "finishing"
  /\ comp' = [comp EXCEPT ![i] = "exited"]
  /\ counter' = counter - 1
  /\ waiterPc' = IF counter = 1 /\ waiterPc = "parked" THEN "released" ELSE waiterPc
  /\ UNCHANGED <<mainPc, block, result, outcome, earlyWait>>

Component(i) == BodySucceeds(i) \/ BodyFails(i) \/ Done(i)

-----------------------------------------------------------------------------

Next == Main \/ Waiter \/ \E i \in Components : Component(i)

Spec == Init /\ [][Next]_vars

(***************************************************************************)
(* The Go scheduler runs every runnable goroutine, and every API call the  *)
(* bodies make returns: each goroutine is weakly fair. Nothing is assumed  *)
(* about which ready case a select takes.                                  *)
(***************************************************************************)
FairSpec ==
  /\ Spec
  /\ WF_vars(Main)
  /\ WF_vars(Waiter)
  /\ \A i \in Components : WF_vars(Component(i))

-----------------------------------------------------------------------------
(* Properties *)

CompPcs == {"idle", "running", "sending", "finishing", "exited"}

TypeOK ==
  /\ mainPc \in {"launch", "select", "patch", "returned"}
  /\ block \in Components
  /\ result \in {"none", "nil", "error"}
  /\ counter \in Nat
  /\ waiterPc \in {"start", "parked", "released", "closing", "closed"}
  /\ comp \in [Components -> CompPcs]
  /\ outcome \in [Components -> {"none", "ok", "error", "nil"}]
  /\ earlyWait \in BOOLEAN

\* The WaitGroup is used as its documentation demands although Wait is
\* started before the first Add and Add is called again for every block: the
\* counter is never raised while a released waiter is still inside Wait (the
\* runtime would panic), and a waiter is parked only while some Done is
\* still due (it would never be released).
NoWaitGroupMisuse ==
  /\ waiterPc = "released" => counter = 0
  /\ waiterPc = "parked" => counter > 0

\* Unless wg.Wait ran before the first wg.Add, the blocks after the first
\* start only when the first component has run to its end without failing:
\* the shared ConfigMap, Secret and Service of the control plane are applied
\* before any Deployment that mounts them.
RestAfterFirst ==
  ~earlyWait /\ block > 1 => comp[1] = "exited" /\ outcome[1] = "ok"

\* Unless wg.Wait ran before the first wg.Add, a failure of the first
\* component is what Reconcile returns: main never leaves its block for
\* another one or for the finalizer.
FirstFailureReported ==
  ~earlyWait /\ outcome[1] \in {"error", "nil"} =>
    /\ block = 1
    /\ mainPc \in {"select", "returned"}
    /\ mainPc = "returned" => result = outcome[1]

\* A component goroutine that failed gets past its send, and so to its
\* Done, only by handing its error to main, which returns it: of all the
\* failed components of a call at most one ever ends, the others stay
\* blocked with their WaitGroup count held.
OneFailureDelivered ==
  \A i \in Components :
    outcome[i] \in {"error", "nil"} /\ comp[i] \in {"finishing", "exited"} =>
      /\ mainPc = "returned"
      /\ block = i
      /\ result = outcome[i]

\* Reconcile returns: main is never left in a select that no case will
\* ever leave.
ReconcileReturns == <>(mainPc = "returned")

\* The waiter ends, whatever the components do: it never outlives the call
\* for good, even when component goroutines do.
WaiterEnds == <>Terminated

=============================================================================
