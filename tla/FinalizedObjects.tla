-------------------------- MODULE FinalizedObjects --------------------------
(***************************************************************************)
(* Custom resources with finalizers at the API server, and the informer's  *)
(* copies of them, as the Piped, Environment and ControlPlane controllers  *)
(* use them: what people, the API server and the informer do to them, and  *)
(* what the two patches of the controllers do (controllers/utils.go and    *)
(* the calls of client.Apply).                                             *)
(*                                                                         *)
(* The patch is a server-side apply that carries the operator's finalizer  *)
(* or none, since generatePatchFinalizersObject writes the others under a  *)
(* key that is not the object's.  It has no precondition: it creates the   *)
(* object it does not find, a ghost, with the finalizer and no spec.       *)
(***************************************************************************)
EXTENDS Naturals

CONSTANT Objects   \* their namespaced names

VARIABLES
  api,       \* the objects at the API server
  cache,     \* the informer's copies of them, never newer
  created    \* how often each object has been created: the last uid

\* own: the operator's finalizer; foreign: any other; sid: the id in the
\* status. uid numbers the incarnations of an object. finBy is a history
\* field: the incarnation the reconcile had read that added the finalizer.
Absent == [phase |-> "absent", ghost |-> FALSE, own |-> FALSE, foreign |-> FALSE,
           sid |-> 0, uid |-> 0, finBy |-> 0]

ObjectType ==
  [phase : {"absent", "live", "deleting"}, ghost : BOOLEAN, own : BOOLEAN,
   foreign : BOOLEAN, sid : Nat, uid : Nat, finBy : Nat]

Exists(p) == api[p].phase # "absent"

ObjectsInit ==
  /\ api = [p \in Objects |-> Absent]
  /\ cache = [p \in Objects |-> Absent]
  /\ created = [p \in Objects |-> 0]

ObjectsTyped ==
  /\ api \in [Objects -> ObjectType]
  /\ cache \in [Objects -> ObjectType]
  /\ created \in [Objects -> Nat]

-----------------------------------------------------------------------------
(* people and the informer *)

\* kubectl apply: it creates the object, or gives a ghost its spec.
CreateObject(p) ==
  /\ \/ /\ ~Exists(p)
        /\ created' = [created EXCEPT ![p] = @ + 1]
        /\ api' = [api EXCEPT ![p] =
             [Absent EXCEPT !.phase = "live", !.uid = created[p] + 1]]
     \/ /\ api[p].phase = "live" /\ api[p].ghost
        /\ api' = [api EXCEPT ![p].ghost = FALSE]
        /\ UNCHANGED created
  /\ UNCHANGED cache

\* kubectl delete: an object with finalizers is marked only.
DeleteObject(p) ==
  /\ api[p].phase = "live"
  /\ api' = [api EXCEPT ![p] = IF @.own \/ @.foreign
                               THEN [@ EXCEPT !.phase = "deleting"] ELSE Absent]
  /\ UNCHANGED <<cache, created>>

\* Someone else adds a finalizer to the object, and removes it again.
AddForeignFinalizer(p) ==
  /\ api[p].phase = "live" /\ ~api[p].foreign
  /\ api' = [api EXCEPT ![p].foreign = TRUE]
  /\ UNCHANGED <<cache, created>>

RemoveForeignFinalizer(p) ==
  /\ api[p].foreign
  /\ api' = [api EXCEPT ![p] = IF @.phase = "deleting" /\ ~@.own
                               THEN Absent ELSE [@ EXCEPT !.foreign = FALSE]]
  /\ UNCHANGED <<cache, created>>

\* The informer catches up with an object.
CatchUp(p) ==
  /\ cache[p] # api[p]
  /\ cache' = [cache EXCEPT ![p] = api[p]]
  /\ UNCHANGED <<api, created>>

-----------------------------------------------------------------------------
(* the controllers' patches of object p, made from a copy with uid `by` *)

PatchGhost(p, own, by) ==
  /\ created' = [created EXCEPT ![p] = @ + 1]
  /\ api' = [api EXCEPT ![p] =
       [Absent EXCEPT !.phase = "live", !.ghost = TRUE, !.uid = created[p] + 1,
                      !.own = own, !.finBy = IF own THEN by ELSE 0]]

\* The API server forbids a new finalizer on an object being deleted.
PatchFinalizerIn(p, by) ==
  /\ \/ ~Exists(p) /\ PatchGhost(p, TRUE, by)
     \/ /\ api[p].phase = "live" /\ ~api[p].own
        /\ api' = [api EXCEPT ![p].own = TRUE, ![p].finBy = by]
        /\ UNCHANGED created
     \/ /\ Exists(p) /\ (api[p].own \/ api[p].phase = "deleting")
        /\ UNCHANGED <<api, created>>
  /\ UNCHANGED cache

\* The object without the operator's finalizer; the API server removes a
\* deleted object with its last finalizer.
WithoutOwn(o) ==
  IF o.phase = "deleting" /\ ~o.foreign
  THEN Absent ELSE [o EXCEPT !.own = FALSE, !.finBy = 0]

PatchFinalizerOut(p) ==
  /\ \/ ~Exists(p) /\ PatchGhost(p, FALSE, 0)
     \/ /\ Exists(p)
        /\ api' = [api EXCEPT ![p] = WithoutOwn(@)]
        /\ UNCHANGED created
  /\ UNCHANGED cache

=============================================================================
