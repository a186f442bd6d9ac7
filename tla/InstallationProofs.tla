------------------------- MODULE InstallationProofs -------------------------
(***************************************************************************)
(* Safety of an installation, for any number of ControlPlanes and of       *)
(* deletions, recreations and failing calls: what couples the status and   *)
(* the finalizer of the Environment and of the Piped to what is registered *)
(* at the server, in whatever order the objects come and go.               *)
(***************************************************************************)
EXTENDS Installation, TLAPS

\* A live object with an id in its status is registered, and with the Piped so is
\* its Environment.
RecordedIsRegistered ==
  /\ \A o \in {Environment, Piped} :
       api[o].phase = "live" /\ api[o].sid # 0 => o \in registered
  /\ Piped \in registered => Environment \in registered

\* An object whose finalizer was added by a call that had read this incarnation has
\* an id in its status.
FinalizedIsRecorded ==
  \A o \in {Environment, Piped} : api[o].own /\ api[o].finBy = api[o].uid => api[o].sid # 0

\* The operator lets go of a Piped with a recorded id only when it is disabled.
ReleasedIsDisabled ==
  [][api[Piped].own /\ ~api'[Piped].own /\ api[Piped].sid # 0 => Piped \notin registered]_vars

-----------------------------------------------------------------------------

StepsOf(k) ==
  {"idle", "finalize", "unfinalize"} \cup
  CASE k = "controlplane" -> {"apply"}
    [] k = "environment" -> {"find", "add", "get", "record"}
    [] k = "piped" -> {"find", "add", "get", "record", "disable"}

\* Each worker has a call, which TypeOK says nothing of but its parts.
Steps == {"idle", "apply", "find", "add", "get", "record", "finalize", "disable", "unfinalize"}

CallType ==
  [step : Steps, obj : Objects \cup {NoObject}, snap : ObjectType,
   to : ControlPlanes \cup {NoObject}]

CallTyped == call \in [Controllers -> CallType]

StepsInv == \A k \in Controllers : Step(k) \in StepsOf(k)

\* The uid of an object that exists is its last one; nobody but the operator has a
\* finalizer, and what is being deleted has the operator's.
ObjectInv(o) ==
  /\ api[o].phase = "absent" => api[o] = Absent
  /\ api[o].phase # "absent" => api[o].uid = created[o]
  /\ ~api[o].foreign
  /\ api[o].phase = "deleting" => api[o].own

ObjectsInv == \A o \in Objects : ObjectInv(o)

\* A worker that deletes has the object as it is; one that has registered or recorded
\* it has done so for good, as long as the object is the one it has read.
WorkOf(k) ==
  Step(k) # "idle" =>
    /\ Snap(k).uid <= created[Obj(k)] /\ Snap(k).phase # "absent"
    /\ Step(k) \in {"disable", "unfinalize"} =>
         api[Obj(k)] = Snap(k) /\ Snap(k).phase = "deleting"
    /\ Step(k) \in {"get", "record", "finalize"} /\ k # "controlplane"
         => Obj(k) \in registered
    /\ Step(k) = "finalize" /\ k # "controlplane" => Snap(k).sid # 0
    /\ Exists(Obj(k)) /\ api[Obj(k)].uid = Snap(k).uid /\ Snap(k).sid # 0
         => api[Obj(k)].sid # 0

WorkInv == \A k \in Controllers : WorkOf(k)

DisabledFirst ==
  Step("piped") = "unfinalize" /\ Snap("piped").sid # 0 => Piped \notin registered

IInv ==
  /\ TypeOK /\ CallTyped /\ StepsInv /\ ObjectsInv /\ WorkInv /\ DisabledFirst
  /\ RecordedIsRegistered /\ FinalizedIsRecorded

-----------------------------------------------------------------------------
(* The objects and their workers *)

\* Each object has one controller.
LEMMA OneController ==
  /\ \A k \in Controllers : ObjectsOf(k) \subseteq Objects
  /\ \A j, k \in Controllers : j # k => ObjectsOf(j) \cap ObjectsOf(k) = {}
  /\ \A k \in Controllers : k # "controlplane" => ObjectsOf(k) \subseteq {Environment, Piped}
  /\ Environment \in Objects /\ Piped \in Objects
<1>1. ObjectsOf("controlplane") = ControlPlanes /\ ObjectsOf("environment") = {Environment}
      /\ ObjectsOf("piped") = {Piped}
  BY DEF ObjectsOf
<1> QED
  BY <1>1, ObjectsAssumption DEF Controllers, Objects

LEMMA AbsentTyped == Absent \in ObjectType /\ Absent.phase = "absent" /\ ~Absent.own
                     /\ ~Absent.foreign /\ Absent.sid = 0 /\ Absent.uid = 0 /\ Absent.finBy = 0
  BY DEF Absent, ObjectType

\* A new object: kubectl's, and the ghost of a patch.
LEMMA NewTyped ==
  \A n \in Nat :
    LET new == [Absent EXCEPT !.phase = "live", !.uid = n]
    IN  /\ new \in ObjectType /\ new.phase = "live" /\ ~new.foreign /\ ~new.own
        /\ new.uid = n /\ new.sid = 0
  BY DEF Absent, ObjectType

LEMMA GhostTyped ==
  \A by \in Nat, n \in Nat :
    LET new == [Absent EXCEPT !.phase = "live", !.ghost = TRUE, !.uid = n,
                              !.own = TRUE, !.finBy = by]
    IN  /\ new \in ObjectType /\ new.phase = "live" /\ ~new.foreign /\ new.own
        /\ new.uid = n /\ new.sid = 0 /\ new.finBy = by
  BY DEF Absent, ObjectType

\* A worker that is busy is busy with an object of its own.
LEMMA Busy ==
  ASSUME TypeOK, NEW k \in Controllers, Step(k) # "idle"
  PROVE  /\ Obj(k) \in ObjectsOf(k) /\ Obj(k) \in Objects
         /\ Snap(k) \in ObjectType /\ api[Obj(k)] \in ObjectType /\ created[Obj(k)] \in Nat
<1>1. Obj(k) \in ObjectsOf(k) /\ Snap(k) \in ObjectType
  BY DEF TypeOK
<1>2. Obj(k) \in Objects
  BY <1>1, OneController
<1> QED
  BY <1>1, <1>2 DEF TypeOK

\* What a step does that alters object p and no other: p is the same incarnation,
\* with what its status had, or one that nobody has read yet.
Alters(p) ==
  /\ api' \in [Objects -> ObjectType] /\ created' \in [Objects -> Nat]
  /\ \A o \in Objects \ {p} : api'[o] = api[o] /\ created'[o] = created[o]
  /\ created'[p] >= created[p]
  /\ api'[p].phase # "absent" /\ api'[p].uid <= created[p] =>
       Exists(p) /\ api'[p].uid = api[p].uid /\ (api[p].sid # 0 => api'[p].sid # 0)
  /\ ObjectInv(p)'

\* A new object, of a person or of a patch.
LEMMA NewAlters ==
  ASSUME TypeOK, NEW p \in Objects, NEW new \in ObjectType,
         new.phase = "live", ~new.foreign, new.uid = created[p] + 1,
         api' = [api EXCEPT ![p] = new], created' = [created EXCEPT ![p] = created[p] + 1]
  PROVE  Alters(p) /\ api'[p] = new
<1>1. created[p] \in Nat /\ api'[p] = new /\ created'[p] = created[p] + 1
  BY DEF TypeOK
<1>2. api' \in [Objects -> ObjectType] /\ created' \in [Objects -> Nat]
  BY <1>1 DEF TypeOK
<1>3. \A o \in Objects \ {p} : api'[o] = api[o] /\ created'[o] = created[o]
  BY DEF TypeOK
<1>4. ObjectInv(p)'
  BY <1>1 DEF ObjectInv
<1>5. created'[p] >= created[p] /\ ~(api'[p].uid <= created[p])
  BY <1>1
<1> QED
  BY <1>1, <1>2, <1>3, <1>4, <1>5 DEF Alters

\* An object that stays the incarnation it is, or goes.
LEMMA SameAlters ==
  ASSUME TypeOK, ObjectsInv, NEW p \in Objects, NEW new \in ObjectType,
         api' = [api EXCEPT ![p] = new], created' = created,
         \/ new = Absent
         \/ /\ Exists(p) /\ new.phase # "absent" /\ new.uid = api[p].uid
            /\ ~new.foreign /\ (new.phase = "deleting" => new.own)
            /\ api[p].sid # 0 => new.sid # 0
  PROVE  Alters(p) /\ api'[p] = new
<1>1. created[p] \in Nat /\ api'[p] = new
  BY DEF TypeOK
<1>2. api' \in [Objects -> ObjectType] /\ created' \in [Objects -> Nat]
  BY <1>1 DEF TypeOK
<1>3. \A o \in Objects \ {p} : api'[o] = api[o] /\ created'[o] = created[o]
  BY DEF TypeOK
<1>4. ObjectInv(p)'
  BY <1>1, AbsentTyped DEF ObjectInv, ObjectsInv, Exists
<1>5. created'[p] >= created[p]
  BY <1>1
<1>6. api'[p].phase # "absent" =>
       Exists(p) /\ api'[p].uid = api[p].uid /\ (api[p].sid # 0 => api'[p].sid # 0)
  BY <1>1, AbsentTyped
<1> QED
  BY <1>1, <1>2, <1>3, <1>4, <1>5, <1>6 DEF Alters

LEMMA UnchangedAlters ==
  ASSUME TypeOK, ObjectsInv, NEW p \in Objects, UNCHANGED objects
  PROVE  Alters(p) /\ api'[p] = api[p]
<1>1. api' = api /\ created' = created /\ created[p] \in Nat
  BY DEF objects, TypeOK
<1>2. ObjectInv(p)'
  BY <1>1 DEF ObjectsInv, ObjectInv
<1> QED
  BY <1>1, <1>2 DEF Alters, TypeOK, Exists

-----------------------------------------------------------------------------
(* The operations on objects *)

\* kubectl apply makes a live object without a recorded id or a finalizer, or leaves
\* both alone.
LEMMA CreateAlters ==
  ASSUME TypeOK, ObjectsInv, NEW p \in Objects, CreateObject(p)
  PROVE  /\ Alters(p) /\ api[p].phase # "deleting"
         /\ \/ api'[p].sid = 0 /\ ~api'[p].own /\ ~api[p].own
            \/ /\ api[p].phase = "live" /\ api'[p].sid = api[p].sid
               /\ api'[p].own = api[p].own
               /\ api'[p].finBy = api[p].finBy /\ api'[p].uid = api[p].uid
<1>1. api[p] \in ObjectType /\ created[p] \in Nat
  BY DEF TypeOK
<1>2. CASE ~Exists(p) /\ created' = [created EXCEPT ![p] = @ + 1]
           /\ api' = [api EXCEPT ![p] =
                [Absent EXCEPT !.phase = "live", !.uid = created[p] + 1]]
  <2> DEFINE new == [Absent EXCEPT !.phase = "live", !.uid = created[p] + 1]
  <2>1. /\ new \in ObjectType /\ new.phase = "live" /\ ~new.foreign /\ ~new.own
        /\ new.uid = created[p] + 1 /\ new.sid = 0
    <3> created[p] + 1 \in Nat /\ 0 \in Nat
      BY <1>1
    <3> QED
      BY NewTyped
  <2>2. api' = [api EXCEPT ![p] = new] /\ created' = [created EXCEPT ![p] = created[p] + 1]
    BY <1>2
  <2> HIDE DEF new
  <2>3. Alters(p) /\ api'[p] = new
    BY <2>1, <2>2, NewAlters
  <2>4. api[p] = Absent
    BY <1>2 DEF Exists, ObjectsInv, ObjectInv
  <2> QED
    BY <2>1, <2>3, <2>4, AbsentTyped
<1>3. CASE api[p].phase = "live" /\ api[p].ghost
           /\ api' = [api EXCEPT ![p].ghost = FALSE] /\ UNCHANGED created
  <2> DEFINE new == [api[p] EXCEPT !.ghost = FALSE]
  <2>1. /\ new \in ObjectType /\ new.phase = "live" /\ new.foreign = api[p].foreign
        /\ new.own = api[p].own /\ new.sid = api[p].sid
        /\ new.uid = api[p].uid /\ new.finBy = api[p].finBy
    BY <1>1, <1>3 DEF ObjectType
  <2>2. api' = [api EXCEPT ![p] = new] /\ created' = created
    BY <1>3
  <2> HIDE DEF new
  <2>3. ~new.foreign /\ Exists(p)
    BY <2>1, <1>3 DEF ObjectsInv, ObjectInv, Exists
  <2>4. Alters(p) /\ api'[p] = new
    BY <2>1, <2>2, <2>3, SameAlters
  <2> QED
    BY <2>1, <2>4, <1>3
<1> QED
  BY <1>2, <1>3 DEF CreateObject

\* kubectl delete takes the object away, or marks it, with its finalizer.
LEMMA DeleteAlters ==
  ASSUME TypeOK, ObjectsInv, NEW p \in Objects, DeleteObject(p)
  PROVE  /\ Alters(p) /\ api[p].phase = "live" /\ api'[p].phase # "live"
         /\ api[p].own = api'[p].own
         /\ api'[p].own => api'[p].sid = api[p].sid /\ api'[p].finBy = api[p].finBy
                           /\ api'[p].uid = api[p].uid
<1>1. api[p] \in ObjectType /\ api[p].phase = "live" /\ ~api[p].foreign /\ Exists(p)
  BY DEF TypeOK, DeleteObject, ObjectsInv, ObjectInv, Exists
<1>2. CASE api[p].own
  <2> DEFINE new == [api[p] EXCEPT !.phase = "deleting"]
  <2>1. /\ new \in ObjectType /\ new.phase = "deleting" /\ ~new.foreign
        /\ new.own = api[p].own /\ new.sid = api[p].sid
        /\ new.uid = api[p].uid /\ new.finBy = api[p].finBy
    BY <1>1 DEF ObjectType
  <2>2. api' = [api EXCEPT ![p] = new] /\ created' = created
    BY <1>2 DEF DeleteObject
  <2> HIDE DEF new
  <2>3. Alters(p) /\ api'[p] = new
    BY <1>1, <1>2, <2>1, <2>2, SameAlters
  <2> QED
    BY <1>1, <1>2, <2>1, <2>3
<1>3. CASE ~api[p].own
  <2>1. api' = [api EXCEPT ![p] = Absent] /\ created' = created
    BY <1>1, <1>3 DEF DeleteObject
  <2>2. Alters(p) /\ api'[p] = Absent
    BY <2>1, AbsentTyped, SameAlters
  <2>3. api[p].own = FALSE /\ api'[p].own = FALSE
    BY <1>1, <1>3, <2>2 DEF ObjectType, Absent
  <2> QED
    BY <1>1, <2>2, <2>3, AbsentTyped
<1> QED
  BY <1>2, <1>3

\* The patch that adds the finalizer leaves what it finds alone, marks a live object
\* without one, or makes a ghost.
LEMMA FinalizerInAlters ==
  ASSUME TypeOK, ObjectsInv, NEW p \in Objects, NEW by \in Nat, PatchFinalizerIn(p, by)
  PROVE  /\ Alters(p)
         /\ \/ api'[p] = api[p]
            \/ /\ ~Exists(p) /\ api'[p].sid = 0 /\ api'[p].phase = "live"
               /\ api'[p].own /\ api'[p].uid = created[p] + 1 /\ api'[p].finBy = by
            \/ /\ api[p].phase = "live" /\ ~api[p].own /\ api'[p].phase = "live"
               /\ api'[p].own /\ api'[p].sid = api[p].sid
               /\ api'[p].uid = api[p].uid /\ api'[p].finBy = by
<1>1. api[p] \in ObjectType /\ created[p] \in Nat
  BY DEF TypeOK
<1>2. CASE ~Exists(p) /\ PatchGhost(p, TRUE, by)
  <2>0. PICK n \in Nat : n = created[p] + 1
    BY <1>1
  <2> DEFINE new == [Absent EXCEPT !.phase = "live", !.ghost = TRUE, !.uid = n,
                                   !.own = TRUE, !.finBy = by]
  <2>1. /\ new \in ObjectType /\ new.phase = "live" /\ ~new.foreign /\ new.own
        /\ new.uid = n /\ new.sid = 0 /\ new.finBy = by
    BY GhostTyped
  <2>2. api' = [api EXCEPT ![p] = new] /\ created' = [created EXCEPT ![p] = created[p] + 1]
    BY <1>2, <2>0 DEF PatchGhost
  <2> HIDE DEF new
  <2>3. Alters(p) /\ api'[p] = new
    BY <2>0, <2>1, <2>2, NewAlters
  <2> QED
    BY <1>2, <2>0, <2>1, <2>3
<1>3. CASE api[p].phase = "live" /\ ~api[p].own
           /\ api' = [api EXCEPT ![p].own = TRUE, ![p].finBy = by] /\ UNCHANGED created
  <2> DEFINE new == [api[p] EXCEPT !.own = TRUE, !.finBy = by]
  <2>1. /\ new \in ObjectType /\ new.phase = "live" /\ new.foreign = api[p].foreign
        /\ new.own /\ new.sid = api[p].sid /\ new.uid = api[p].uid /\ new.finBy = by
    BY <1>1, <1>3 DEF ObjectType
  <2>2. api' = [api EXCEPT ![p] = new] /\ created' = created
    BY <1>3 DEF TypeOK
  <2> HIDE DEF new
  <2>3. ~new.foreign /\ Exists(p)
    BY <2>1, <1>3 DEF ObjectsInv, ObjectInv, Exists
  <2>4. Alters(p) /\ api'[p] = new
    BY <2>1, <2>2, <2>3, SameAlters
  <2> QED
    BY <1>3, <2>1, <2>4
<1>4. CASE UNCHANGED <<api, created>>
  BY <1>4, UnchangedAlters DEF objects
<1> QED
  BY <1>2, <1>3, <1>4 DEF PatchFinalizerIn

\* The patch that takes the finalizer away from an object being deleted lets it go.
LEMMA FinalizerOutAlters ==
  ASSUME TypeOK, ObjectsInv, NEW p \in Objects, api[p].phase = "deleting",
         PatchFinalizerOut(p)
  PROVE  Alters(p) /\ api'[p] = Absent
<1>1. Exists(p) /\ ~api[p].foreign
  BY DEF Exists, ObjectsInv, ObjectInv
<1>2. api' = [api EXCEPT ![p] = Absent] /\ created' = created
  BY <1>1 DEF PatchFinalizerOut, WithoutOwn
<1> QED
  BY <1>2, AbsentTyped, SameAlters

\* The id in the status.
LEMMA StatusAlters ==
  ASSUME TypeOK, ObjectsInv, NEW p \in Objects, Exists(p),
         api' = [api EXCEPT ![p].sid = 1], created' = created
  PROVE  /\ Alters(p) /\ api'[p].sid = 1 /\ api'[p].phase = api[p].phase
         /\ api'[p].uid = api[p].uid /\ api'[p].own = api[p].own
<1>1. api[p] \in ObjectType
  BY DEF TypeOK
<1> DEFINE new == [api[p] EXCEPT !.sid = 1]
<1>2. /\ new \in ObjectType /\ new.phase = api[p].phase /\ new.foreign = api[p].foreign
      /\ new.own = api[p].own /\ new.sid = 1 /\ new.uid = api[p].uid
  BY <1>1 DEF ObjectType
<1>3. api' = [api EXCEPT ![p] = new]
  OBVIOUS
<1> HIDE DEF new
<1>4. ~new.foreign /\ new.phase # "absent" /\ (new.phase = "deleting" => new.own)
  BY <1>2 DEF ObjectsInv, ObjectInv, Exists
<1>5. Alters(p) /\ api'[p] = new
  <2> 1 # 0 /\ new \in ObjectType /\ new.uid = api[p].uid /\ ~new.foreign /\ new.sid # 0
    BY <1>2, <1>4
  <2> QED
    BY <1>3, <1>4, SameAlters
<1> QED
  BY <1>2, <1>5

-----------------------------------------------------------------------------
(* The calls *)

OthersStay(k) == \A j \in Controllers \ {k} : call'[j] = call[j]

LEMMA ContinueSets ==
  ASSUME CallTyped, NEW k \in Controllers, NEW step \in Steps, Continue(k, step)
  PROVE  /\ CallTyped' /\ OthersStay(k)
         /\ Step(k)' = step /\ Obj(k)' = Obj(k) /\ Snap(k)' = Snap(k)
<1>1. call[k] \in CallType
  BY DEF CallTyped
<1> DEFINE new == [call[k] EXCEPT !.step = step]
<1>2. /\ new \in CallType /\ new.step = step /\ new.obj = call[k].obj
      /\ new.snap = call[k].snap
  BY <1>1 DEF CallType
<1>3. call' = [call EXCEPT ![k] = new]
  BY DEF Continue
<1> HIDE DEF new
<1>4. call'[k] = new /\ CallTyped' /\ OthersStay(k)
  BY <1>2, <1>3 DEF CallTyped, OthersStay
<1> QED
  BY <1>2, <1>4 DEF Step, Obj, Snap

LEMMA ReturnSets ==
  ASSUME CallTyped, NEW k \in Controllers, Return(k)
  PROVE  CallTyped' /\ OthersStay(k) /\ call'[k] = NoCall /\ Step(k)' = "idle"
<1>1. NoCall \in CallType /\ NoCall.step = "idle"
  BY AbsentTyped DEF NoCall, CallType, Steps
<1>2. call' = [call EXCEPT ![k] = NoCall]
  BY DEF Return
<1>3. call'[k] = NoCall /\ CallTyped' /\ OthersStay(k)
  BY <1>1, <1>2 DEF CallTyped, OthersStay
<1> QED
  BY <1>1, <1>3 DEF Step

LEMMA BeginSets ==
  ASSUME TypeOK, CallTyped, NEW k \in Controllers, NEW o, NEW step \in Steps,
         NEW c \in ControlPlanes, Begin(k, o, step, c)
  PROVE  /\ CallTyped' /\ OthersStay(k)
         /\ Step(k)' = step /\ Obj(k)' = o /\ Snap(k)' = api[o]
<1>1. o \in ObjectsOf(k) /\ o \in Objects
  BY OneController DEF Begin
<1>2. api[o] \in ObjectType
  BY <1>1 DEF TypeOK
<1> DEFINE new == [step |-> step, obj |-> o, snap |-> api[o], to |-> c]
<1>3. new \in CallType /\ new.step = step /\ new.obj = o /\ new.snap = api[o]
  BY <1>1, <1>2 DEF CallType
<1>4. call' = [call EXCEPT ![k] = new]
  BY DEF Begin
<1> HIDE DEF new
<1>5. call'[k] = new /\ CallTyped' /\ OthersStay(k)
  BY <1>3, <1>4 DEF CallTyped, OthersStay
<1> QED
  BY <1>3, <1>5 DEF Step, Obj, Snap

\* The call that has recorded the id goes on with the answer to the update.
LEMMA RecordSets ==
  ASSUME CallTyped, NEW k \in Controllers,
         call' = [call EXCEPT ![k].step = "finalize", ![k].snap.sid = 1]
  PROVE  /\ CallTyped' /\ OthersStay(k)
         /\ Step(k)' = "finalize" /\ Obj(k)' = Obj(k)
         /\ Snap(k)'.sid = 1 /\ Snap(k)'.uid = Snap(k).uid /\ Snap(k)'.phase = Snap(k).phase
<1>1. call[k] \in CallType /\ call[k].snap \in ObjectType
  BY DEF CallTyped, CallType
<1> DEFINE snap == [call[k].snap EXCEPT !.sid = 1]
<1>2. /\ snap \in ObjectType /\ snap.sid = 1 /\ snap.uid = call[k].snap.uid
      /\ snap.phase = call[k].snap.phase
  BY <1>1 DEF ObjectType
<1> DEFINE new == [call[k] EXCEPT !.step = "finalize", !.snap = snap]
<1>3. call' = [call EXCEPT ![k] = new]
  BY <1>1 DEF CallTyped, CallType
<1> HIDE DEF snap
<1>4. new \in CallType /\ new.step = "finalize" /\ new.obj = call[k].obj /\ new.snap = snap
  BY <1>1, <1>2 DEF CallType, Steps
<1> HIDE DEF new
<1>5. call'[k] = new /\ CallTyped' /\ OthersStay(k)
  BY <1>3, <1>4 DEF CallTyped, OthersStay
<1> QED
  BY <1>2, <1>4, <1>5 DEF Step, Obj, Snap

-----------------------------------------------------------------------------
(* What every step keeps *)

\* The variables no other depends on for its type.
Counted == spent \in 0 .. MaxSpent /\ key \in Keys

Owned(k) == IF Step(k) = "idle" THEN call[k] = NoCall ELSE Obj(k) \in ObjectsOf(k)

\* A call that stays what it is stays right in what it says of its object, unless
\* that is being deleted and the step alters it, or takes its registration away.
LEMMA WorkStays ==
  ASSUME TypeOK, CallTyped, ObjectsInv, NEW p \in Objects, Alters(p),
         NEW j \in Controllers, WorkOf(j), call'[j] = call[j], Step(j) # "idle",
         Obj(j) = p /\ api[p].phase = "deleting" => api'[p] = api[p],
         Obj(j) \in registered => Obj(j) \in registered'
  PROVE  WorkOf(j)'
<1> DEFINE o == Obj(j)
<1>1. o \in Objects /\ created[o] \in Nat /\ api[o] \in ObjectType /\ Snap(j) \in ObjectType
      /\ Snap(j).uid \in Nat /\ created'[o] \in Nat
  BY Busy DEF Alters, ObjectType
<1>2. Step(j)' = Step(j) /\ Obj(j)' = o /\ Snap(j)' = Snap(j)
  BY DEF Step, Obj, Snap
<1>3. created'[o] >= created[o]
  BY <1>1 DEF Alters
<1>4. Snap(j).uid <= created[o]
  BY DEF WorkOf
<1>5. Snap(j).uid <= created'[o]
  BY <1>1, <1>3, <1>4
<1>6. Step(j) \in {"disable", "unfinalize"} => api'[o] = Snap(j) /\ Snap(j).phase = "deleting"
  BY <1>1 DEF WorkOf, Alters
<1>7. api'[o].phase # "absent" /\ api'[o].uid = Snap(j).uid /\ Snap(j).sid # 0
        => api'[o].sid # 0
  <2>1. CASE o # p
    BY <1>1, <2>1 DEF WorkOf, Alters, Exists
  <2>2. CASE o = p
    BY <1>1, <1>4, <2>2 DEF WorkOf, Alters
  <2> QED
    BY <2>1, <2>2
<1> QED
  BY <1>2, <1>5, <1>6, <1>7 DEF WorkOf, Exists

\* A step that alters at most object p and moves at most the workers of K.
LEMMA WorkKept ==
  ASSUME IInv, NEW p \in Objects, Alters(p), NEW K \in SUBSET Controllers, CallTyped',
         \A j \in Controllers \ K : call'[j] = call[j],
         \A j \in Controllers \ K : Step(j) # "idle" =>
           /\ Obj(j) = p /\ api[p].phase = "deleting" => api'[p] = api[p]
           /\ Obj(j) \in registered => Obj(j) \in registered',
         \A k \in K : Owned(k)' /\ (Step(k) \in StepsOf(k))' /\ WorkOf(k)',
         registered' \subseteq {Environment, Piped},
         (owner \in [name : ControlPlanes, uid : Nat] \cup {Nobody})',
         Counted'
  PROVE  TypeOK' /\ CallTyped' /\ StepsInv' /\ ObjectsInv' /\ WorkInv'
<1>1. \A j \in Controllers : Owned(j)' /\ (Step(j) \in StepsOf(j))'
  <2> SUFFICES ASSUME NEW j \in Controllers
               PROVE  Owned(j)' /\ (Step(j) \in StepsOf(j))'
    OBVIOUS
  <2>1. CASE j \in K
    BY <2>1
  <2>2. CASE j \notin K
    <3>1. call'[j] = call[j] /\ Step(j)' = Step(j) /\ Obj(j)' = Obj(j)
      BY <2>2 DEF Step, Obj
    <3>2. Owned(j)
      BY DEF IInv, TypeOK, Owned
    <3>3. Step(j) \in StepsOf(j)
      BY DEF IInv, StepsInv
    <3> QED
      BY <3>1, <3>2, <3>3 DEF Owned, StepsOf
  <2> QED
    BY <2>1, <2>2
<1>2. \A j \in Controllers : WorkOf(j)'
  <2> SUFFICES ASSUME NEW j \in Controllers PROVE WorkOf(j)'
    OBVIOUS
  <2>1. CASE j \in K
    BY <2>1
  <2>2. CASE j \notin K /\ Step(j) = "idle"
    BY <2>2 DEF WorkOf, Step
  <2>3. CASE j \notin K /\ Step(j) # "idle"
    BY <2>3, WorkStays DEF IInv, WorkInv
  <2> QED
    BY <2>1, <2>2, <2>3
<1>3. TypeOK'
  <2>1. \A k \in Controllers :
          /\ call'[k].step \in Steps /\ call'[k].snap \in ObjectType
          /\ call'[k].to \in ControlPlanes \cup {NoObject}
    BY DEF CallTyped, CallType
  <2> QED
    BY <1>1, <2>1 DEF TypeOK, Steps, Owned, Step, Snap, Alters, Counted
<1>4. \A o \in Objects : ObjectInv(o)'
  BY DEF Alters, IInv, ObjectsInv, ObjectInv
<1> QED
  BY <1>1, <1>2, <1>3, <1>4 DEF StepsInv, ObjectsInv, WorkInv

\* A step of a worker that alters its own object.
LEMMA OwnObjectKept ==
  ASSUME IInv, NEW k \in Controllers, NEW p \in Objects, Alters(p), CallTyped', OthersStay(k),
         \A j \in Controllers \ {k} : Step(j) # "idle" => Obj(j) # p,
         Owned(k)', (Step(k) \in StepsOf(k))', WorkOf(k)',
         registered' = registered, registered' \subseteq {Environment, Piped},
         (owner \in [name : ControlPlanes, uid : Nat] \cup {Nobody})',
         Counted'
  PROVE  TypeOK' /\ CallTyped' /\ StepsInv' /\ ObjectsInv' /\ WorkInv'
<1>1. PICK K \in SUBSET Controllers : K = {k}
  OBVIOUS
<1>2. \A j \in Controllers \ K : call'[j] = call[j] /\ (Step(j) # "idle" => Obj(j) # p)
  BY <1>1 DEF OthersStay
<1>3. \A j \in Controllers \ K : call'[j] = call[j]
  BY <1>2
<1>4. \A j \in Controllers \ K : Step(j) # "idle" =>
        /\ Obj(j) = p /\ api[p].phase = "deleting" => api'[p] = api[p]
        /\ Obj(j) \in registered => Obj(j) \in registered'
  BY <1>2
<1>5. \A j \in K : Owned(j)' /\ (Step(j) \in StepsOf(j))' /\ WorkOf(j)'
  BY <1>1
<1> QED
  BY <1>3, <1>4, <1>5, WorkKept

\* A step that leaves the objects alone and takes no registration away.
LEMMA CoupledKept ==
  ASSUME IInv, UNCHANGED api, registered \subseteq registered',
         Piped \in registered' => Environment \in registered',
         DisabledFirst'
  PROVE  DisabledFirst' /\ RecordedIsRegistered' /\ FinalizedIsRecorded'
  BY DEF IInv, RecordedIsRegistered, FinalizedIsRecorded

-----------------------------------------------------------------------------
(* The steps *)

\* A worker takes up an object of its own, as it is; a Piped with a recorded id it
\* disables first.
LEMMA BeginStep ==
  ASSUME IInv, NEW k \in Controllers, NEW o, NEW step \in StepsOf(k) \cap Steps,
         NEW c \in ControlPlanes, Begin(k, o, step, c),
         step \in {"disable", "unfinalize"} => ToDelete(o),
         step \notin {"idle", "get", "record", "finalize"},
         k = "piped" /\ step = "unfinalize" => api[o].sid = 0
  PROVE  IInv'
<1>1. /\ CallTyped' /\ OthersStay(k)
      /\ Step(k)' = step /\ Obj(k)' = o /\ Snap(k)' = api[o]
  BY BeginSets DEF IInv
<1>2. /\ o \in ObjectsOf(k) /\ o \in Objects /\ api[o].phase # "absent"
      /\ api' = api /\ created' = created /\ owner' = owner
      /\ registered' = registered /\ Counted'
  BY OneController DEF Begin, objects, Counted, IInv, TypeOK
<1>3. Alters(o) /\ api'[o] = api[o]
  BY <1>2, UnchangedAlters DEF objects, IInv
<1>4. api[o] \in ObjectType /\ created[o] \in Nat /\ api[o].uid = created[o]
  BY <1>2 DEF IInv, TypeOK, ObjectsInv, ObjectInv
<1>5. WorkOf(k)'
  BY <1>1, <1>2, <1>4 DEF WorkOf, ToDelete
<1>6. Owned(k)' /\ (Step(k) \in StepsOf(k))'
  BY <1>1, <1>2 DEF Owned, StepsOf, ObjectsOf
<1>7. TypeOK' /\ CallTyped' /\ StepsInv' /\ ObjectsInv' /\ WorkInv'
  BY <1>1, <1>2, <1>3, <1>5, <1>6, WorkKept, {k} \in SUBSET Controllers
     DEF IInv, TypeOK, OthersStay
<1>8. DisabledFirst'
  <2>1. CASE k = "piped"
    BY <1>1, <2>1 DEF DisabledFirst
  <2>2. CASE k # "piped"
    <3>1. call'["piped"] = call["piped"]
      BY <1>1, <2>2 DEF OthersStay, Controllers
    <3> QED
      BY <1>2, <3>1 DEF IInv, DisabledFirst, Step, Snap
  <2> QED
    BY <2>1, <2>2
<1> QED
  BY <1>2, <1>7, <1>8, CoupledKept DEF IInv, RecordedIsRegistered

LEMMA LoadStep ==
  ASSUME IInv,
         (\E c \in ControlPlanes : LoadControlPlane(c)) \/ LoadEnvironment \/ LoadPiped
  PROVE  IInv'
<1>1. ASSUME NEW c \in ControlPlanes, LoadControlPlane(c) PROVE IInv'
  <2> DEFINE step == IF ToDelete(c) THEN "unfinalize" ELSE "apply"
  <2>1. Begin("controlplane", c, step, c) /\ "controlplane" \in Controllers
    BY <1>1 DEF LoadControlPlane, Controllers
  <2>2. step \in StepsOf("controlplane") \cap Steps
    BY DEF StepsOf, Steps
  <2>3. step = "unfinalize" => ToDelete(c)
    OBVIOUS
  <2>4. step \notin {"idle", "get", "record", "finalize", "disable"}
    OBVIOUS
  <2> HIDE DEF step
  <2> QED
    BY <2>1, <2>2, <2>3, <2>4, BeginStep
<1>2. ASSUME LoadEnvironment PROVE IInv'
  <2> DEFINE step == IF ToDelete(Environment) THEN "unfinalize" ELSE "find"
  <2>1. PICK c \in ControlPlanes : Begin("environment", Environment, step, c)
    BY <1>2 DEF LoadEnvironment
  <2>2. step \in StepsOf("environment") \cap Steps /\ "environment" \in Controllers
    BY DEF StepsOf, Steps, Controllers
  <2>3. step = "unfinalize" => ToDelete(Environment)
    OBVIOUS
  <2>4. step \notin {"idle", "get", "record", "finalize", "disable"}
    OBVIOUS
  <2> HIDE DEF step
  <2> QED
    BY <2>1, <2>2, <2>3, <2>4, BeginStep
<1>3. ASSUME LoadPiped PROVE IInv'
  <2> DEFINE step == IF ~ToDelete(Piped) THEN "find"
                     ELSE IF api[Piped].sid # 0 THEN "disable" ELSE "unfinalize"
  <2>1. PICK c \in ControlPlanes : Begin("piped", Piped, step, c)
    BY <1>3 DEF LoadPiped
  <2>2. step \in StepsOf("piped") \cap Steps /\ "piped" \in Controllers
    BY DEF StepsOf, Steps, Controllers
  <2>3. /\ step \in {"disable", "unfinalize"} => ToDelete(Piped)
        /\ step = "unfinalize" => api[Piped].sid = 0
    OBVIOUS
  <2>4. step \notin {"idle", "get", "record", "finalize"}
    OBVIOUS
  <2> HIDE DEF step
  <2> QED
    BY <2>1, <2>2, <2>3, <2>4, BeginStep
<1> QED
  BY <1>1, <1>2, <1>3

\* A call that ends leaves nothing to be right about.
LEMMA ReturnStep ==
  ASSUME IInv, NEW k \in Controllers, Return(k), UNCHANGED <<objects, owner, registered>>,
         Counted'
  PROVE  IInv'
<1>1. CallTyped' /\ OthersStay(k) /\ call'[k] = NoCall /\ Step(k)' = "idle"
  BY ReturnSets DEF IInv
<1>2. Alters(Piped) /\ api' = api /\ registered' = registered /\ owner' = owner
  BY UnchangedAlters, OneController DEF objects, IInv
<1>3. Owned(k)' /\ (Step(k) \in StepsOf(k))' /\ WorkOf(k)'
  BY <1>1 DEF Owned, StepsOf, WorkOf
<1>4. TypeOK' /\ CallTyped' /\ StepsInv' /\ ObjectsInv' /\ WorkInv'
  <2>1. /\ registered' \subseteq {Environment, Piped} /\ Piped \in Objects
        /\ (owner \in [name : ControlPlanes, uid : Nat] \cup {Nobody})'
    BY <1>2, OneController DEF IInv, TypeOK, Nobody
  <2> QED
    BY <1>1, <1>2, <1>3, <2>1, WorkKept, {k} \in SUBSET Controllers DEF OthersStay
<1>5. DisabledFirst'
  <2>1. CASE k = "piped"
    BY <1>1, <2>1 DEF DisabledFirst
  <2>2. CASE k # "piped"
    <3>1. call'["piped"] = call["piped"]
      BY <1>1, <2>2 DEF OthersStay, Controllers
    <3> QED
      BY <1>2, <3>1 DEF IInv, DisabledFirst, Step, Snap
  <2> QED
    BY <2>1, <2>2
<1> QED
  BY <1>2, <1>4, <1>5, CoupledKept DEF IInv, RecordedIsRegistered

\* A call that goes on, with the objects as they are: what it has registered stays so,
\* and what it has disabled no other call works on.
LEMMA ContinueStep ==
  ASSUME IInv, NEW k \in Controllers, NEW step \in StepsOf(k) \cap Steps,
         Step(k) # "idle", Continue(k, step),
         UNCHANGED objects, Counted', WorkOf(k)', step # "idle",
         (owner \in [name : ControlPlanes, uid : Nat] \cup {Nobody})',
         registered' \subseteq {Environment, Piped},
         Piped \in registered' => Environment \in registered',
         \A o \in registered \ registered' : o \in ObjectsOf(k) /\ api[o].phase # "live",
         Piped \in registered' /\ Piped \notin registered => k = "piped",
         k = "piped" /\ step = "unfinalize" => Piped \notin registered'
  PROVE  IInv'
<1>1. CallTyped' /\ OthersStay(k) /\ Step(k)' = step /\ Obj(k)' = Obj(k) /\ Snap(k)' = Snap(k)
  BY ContinueSets DEF IInv
<1>2. Obj(k) \in ObjectsOf(k) /\ Obj(k) \in Objects
  BY Busy DEF IInv
<1>3. Alters(Obj(k)) /\ api' = api
  BY <1>2, UnchangedAlters DEF objects, IInv
<1>4. Owned(k)' /\ (Step(k) \in StepsOf(k))'
  BY <1>1, <1>2 DEF Owned, StepsOf, ObjectsOf
<1>5. \A j \in Controllers \ {k} : Step(j) # "idle" =>
        (Obj(j) \in registered => Obj(j) \in registered')
  BY Busy, OneController DEF IInv
<1>6. TypeOK' /\ CallTyped' /\ StepsInv' /\ ObjectsInv' /\ WorkInv'
  BY <1>1, <1>2, <1>3, <1>4, <1>5, WorkKept, {k} \in SUBSET Controllers
     DEF IInv, TypeOK, OthersStay
<1>7. DisabledFirst'
  <2>1. CASE k = "piped"
    BY <1>1, <2>1 DEF DisabledFirst
  <2>2. CASE k # "piped"
    <3>1. call'["piped"] = call["piped"]
      BY <1>1, <2>2 DEF OthersStay, Controllers
    <3> QED
      BY <2>2, <3>1 DEF IInv, DisabledFirst, Step, Snap
  <2> QED
    BY <2>1, <2>2
<1>8. RecordedIsRegistered' /\ FinalizedIsRecorded'
  BY <1>3 DEF IInv, RecordedIsRegistered, FinalizedIsRecorded
<1> QED
  BY <1>6, <1>7, <1>8 DEF IInv

LEMMA CallFailsStep ==
  ASSUME IInv, NEW k \in Controllers, CallFails(k)
  PROVE  IInv'
<1>1. Counted'
  BY SpentAssumption DEF CallFails, Disturb, IInv, TypeOK, Counted
<1> QED
  BY <1>1, ReturnStep DEF CallFails

LEMMA ApplyChildrenStep ==
  ASSUME IInv, ApplyChildren
  PROVE  IInv'
<1> DEFINE k == "controlplane"
<1>1. /\ k \in Controllers /\ Step(k) = "apply" /\ UNCHANGED <<objects, registered, key, spent>>
      /\ Obj(k) \in ControlPlanes /\ Snap(k) \in ObjectType /\ Snap(k).uid \in Nat
  <2>1. k \in Controllers /\ Step(k) = "apply" /\ UNCHANGED <<objects, registered, key, spent>>
    BY DEF ApplyChildren, Controllers
  <2> QED
    BY <2>1, Busy DEF IInv, ObjectsOf, ObjectType
<1>2. Counted' /\ registered' = registered /\ api' = api /\ created' = created
  BY <1>1 DEF IInv, TypeOK, objects, Counted
<1>3. CASE Return(k) /\ UNCHANGED owner
  BY <1>1, <1>2, <1>3, ReturnStep
<1>4. CASE Continue(k, "finalize") /\ owner' = [name |-> Obj(k), uid |-> Snap(k).uid]
  <2>1. "finalize" \in StepsOf(k) \cap Steps
    BY DEF StepsOf, Steps
  <2>2. Step(k)' = "finalize" /\ Obj(k)' = Obj(k) /\ Snap(k)' = Snap(k)
    BY <1>1, <1>4, <2>1, ContinueSets DEF IInv
  <2>3. WorkOf(k)'
    <3>1. WorkOf(k)
      BY <1>1 DEF IInv, WorkInv
    <3> QED
      BY <1>1, <1>2, <2>2, <3>1 DEF WorkOf, Exists
  <2>4. (owner \in [name : ControlPlanes, uid : Nat] \cup {Nobody})'
    BY <1>1, <1>4
  <2>5. registered' \subseteq {Environment, Piped}
        /\ (Piped \in registered' => Environment \in registered')
    BY <1>2 DEF IInv, TypeOK, RecordedIsRegistered
  <2> QED
    BY <1>1, <1>2, <1>4, <2>1, <2>3, <2>4, <2>5, ContinueStep
<1> QED
  BY <1>3, <1>4 DEF ApplyChildren

\* What is found is registered.
LEMMA FindStep ==
  ASSUME IInv, NEW k \in Controllers, Find(k)
  PROVE  IInv'
<1>1. /\ Step(k) = "find" /\ UNCHANGED <<objects, owner, registered, key, spent>>
      /\ k \in {"environment", "piped"}
  BY DEF Find, IInv, StepsInv, StepsOf, Controllers
<1>2. /\ Counted' /\ api' = api /\ created' = created /\ registered' = registered
      /\ (owner \in [name : ControlPlanes, uid : Nat] \cup {Nobody})'
  BY <1>1 DEF IInv, TypeOK, objects, Nobody, Counted
<1>3. CASE Return(k)
  BY <1>1, <1>2, <1>3, ReturnStep
<1>4. ASSUME NEW step \in {"add", "record"}, Continue(k, step),
             step = "record" => Obj(k) \in registered
      PROVE  IInv'
  <2>1. step \in StepsOf(k) \cap Steps
    BY <1>1 DEF StepsOf, Steps
  <2>2. Step(k)' = step /\ Obj(k)' = Obj(k) /\ Snap(k)' = Snap(k)
    BY <1>4, <2>1, ContinueSets DEF IInv
  <2>3. WorkOf(k)'
    <3>1. WorkOf(k)
      BY DEF IInv, WorkInv
    <3> QED
      BY <1>1, <1>2, <1>4, <2>2, <3>1 DEF WorkOf, Exists
  <2>4. /\ registered' \subseteq {Environment, Piped}
        /\ Piped \in registered' => Environment \in registered'
    BY <1>2 DEF IInv, TypeOK, RecordedIsRegistered
  <2> QED
    BY <1>1, <1>2, <1>4, <2>1, <2>3, <2>4, ContinueStep
<1> QED
  BY <1>3, <1>4 DEF Find

\* A registration is the worker's own.
LEMMA AddStep ==
  ASSUME IInv, NEW k \in Controllers, Add(k)
  PROVE  IInv'
<1>1. /\ Step(k) = "add" /\ UNCHANGED <<objects, owner, key, spent>>
      /\ k \in {"environment", "piped"}
  BY DEF Add, IInv, StepsInv, StepsOf, Controllers
<1>2. /\ Counted' /\ api' = api /\ created' = created
      /\ (owner \in [name : ControlPlanes, uid : Nat] \cup {Nobody})'
  BY <1>1 DEF IInv, TypeOK, objects, Nobody, Counted
<1>3. Obj(k) = IF k = "environment" THEN Environment ELSE Piped
  BY <1>1, Busy DEF IInv, ObjectsOf
<1>4. CASE Return(k) /\ UNCHANGED registered
  BY <1>1, <1>2, <1>4, ReturnStep
<1>5. CASE /\ Registrable(k) /\ registered' = registered \cup {Obj(k)}
           /\ Continue(k, "get")
  <2>1. "get" \in StepsOf(k) \cap Steps
    BY <1>1 DEF StepsOf, Steps
  <2>2. Step(k)' = "get" /\ Obj(k)' = Obj(k) /\ Snap(k)' = Snap(k)
    BY <1>5, <2>1, ContinueSets DEF IInv
  <2>3. WorkOf(k)'
    <3>1. WorkOf(k)
      BY DEF IInv, WorkInv
    <3> QED
      BY <1>1, <1>2, <1>5, <2>2, <3>1 DEF WorkOf, Exists
  <2>4. /\ registered' \subseteq {Environment, Piped}
        /\ Piped \in registered' => Environment \in registered'
        /\ Piped \in registered' /\ Piped \notin registered => k = "piped"
    BY <1>1, <1>3, <1>5, ObjectsAssumption DEF IInv, TypeOK, RecordedIsRegistered, Registrable
  <2>5. registered \ registered' = {}
    BY <1>5
  <2> QED
    BY <1>1, <1>2, <1>5, <2>1, <2>3, <2>4, <2>5, ContinueStep
<1> QED
  BY <1>4, <1>5 DEF Add

\* The answer changes nothing at the server.
LEMMA GetStep ==
  ASSUME IInv, NEW k \in Controllers, Get(k)
  PROVE  IInv'
<1>1. /\ Step(k) = "get" /\ UNCHANGED <<objects, owner, registered, spent>>
      /\ k \in {"environment", "piped"} /\ key' \in {key, "its"}
  BY DEF Get, IInv, StepsInv, StepsOf, Controllers
<1>2. /\ Counted' /\ api' = api /\ created' = created /\ registered' = registered
      /\ (owner \in [name : ControlPlanes, uid : Nat] \cup {Nobody})'
  BY <1>1 DEF IInv, TypeOK, objects, Nobody, Counted, Keys
<1>3. CASE Return(k)
  BY <1>1, <1>2, <1>3, ReturnStep
<1>4. CASE Continue(k, "record")
  <2>1. "record" \in StepsOf(k) \cap Steps
    BY <1>1 DEF StepsOf, Steps
  <2>2. Step(k)' = "record" /\ Obj(k)' = Obj(k) /\ Snap(k)' = Snap(k)
    BY <1>4, <2>1, ContinueSets DEF IInv
  <2>3. WorkOf(k)'
    <3>1. WorkOf(k)
      BY DEF IInv, WorkInv
    <3> QED
      BY <1>1, <1>2, <2>2, <3>1 DEF WorkOf, Exists
  <2>4. /\ registered' \subseteq {Environment, Piped}
        /\ Piped \in registered' => Environment \in registered'
    BY <1>2 DEF IInv, TypeOK, RecordedIsRegistered
  <2> QED
    BY <1>1, <1>2, <1>4, <2>1, <2>3, <2>4, ContinueStep
<1> QED
  BY <1>3, <1>4 DEF Get

\* A Piped is disabled when it is being deleted, which it stays.
LEMMA DisableStep ==
  ASSUME IInv, Disable
  PROVE  IInv'
<1> DEFINE k == "piped"
<1>1. /\ k \in Controllers /\ Step(k) = "disable" /\ UNCHANGED <<objects, owner, spent>>
      /\ key' \in {key, "former"}
  BY DEF Disable, Controllers
<1>2. /\ Counted' /\ api' = api /\ created' = created
      /\ (owner \in [name : ControlPlanes, uid : Nat] \cup {Nobody})'
  BY <1>1 DEF IInv, TypeOK, objects, Nobody, Counted, Keys
<1>3. Obj(k) = Piped /\ WorkOf(k) /\ Piped \in ObjectsOf(k)
  BY <1>1, Busy DEF IInv, ObjectsOf, WorkInv
<1>4. CASE Return(k) /\ UNCHANGED registered
  BY <1>1, <1>2, <1>4, ReturnStep
<1>5. CASE registered' = registered \ {Piped} /\ Continue(k, "unfinalize")
  <2>1. "unfinalize" \in StepsOf(k) \cap Steps
    BY DEF StepsOf, Steps
  <2>2. Step(k)' = "unfinalize" /\ Obj(k)' = Obj(k) /\ Snap(k)' = Snap(k)
    BY <1>1, <1>5, <2>1, ContinueSets DEF IInv
  <2>3. WorkOf(k)'
    BY <1>1, <1>2, <1>3, <2>2 DEF WorkOf, Exists
  <2>4. registered' \subseteq {Environment, Piped} /\ Piped \notin registered'
    BY <1>5 DEF IInv, TypeOK
  <2>5. \A o \in registered \ registered' : o \in ObjectsOf(k) /\ api[o].phase # "live"
    BY <1>1, <1>3, <1>5 DEF WorkOf
  <2> QED
    BY <1>1, <1>2, <1>5, <2>1, <2>3, <2>4, <2>5, ContinueStep
<1> QED
  BY <1>4, <1>5 DEF Disable

\* The status of the object the worker has read.
LEMMA RecordStep ==
  ASSUME IInv, NEW k \in Controllers, Record(k)
  PROVE  IInv'
<1> DEFINE p == Obj(k)
<1>1. /\ Step(k) = "record" /\ UNCHANGED <<created, owner, registered, key, spent>>
      /\ k \in {"environment", "piped"}
  BY DEF Record, IInv, StepsInv, StepsOf, Controllers
<1>2. /\ Counted' /\ registered' \subseteq {Environment, Piped}
      /\ (owner \in [name : ControlPlanes, uid : Nat] \cup {Nobody})'
      /\ created' = created /\ registered' = registered /\ owner' = owner
      /\ Piped \in registered' => Environment \in registered'
  BY <1>1 DEF IInv, TypeOK, Nobody, RecordedIsRegistered, Counted
<1>3. /\ p \in ObjectsOf(k) /\ p \in Objects /\ p \in {Environment, Piped} /\ p \in registered
      /\ WorkOf(k) /\ Snap(k) \in ObjectType
  BY <1>1, Busy DEF IInv, ObjectsOf, WorkInv, WorkOf
<1>4. "finalize" \in StepsOf(k) \cap Steps
  BY DEF StepsOf, Steps
<1>5. CASE Snap(k).sid # 0 /\ Continue(k, "finalize") /\ UNCHANGED api
  <2>1. Step(k)' = "finalize" /\ Obj(k)' = p /\ Snap(k)' = Snap(k)
    BY <1>4, <1>5, ContinueSets DEF IInv
  <2>2. WorkOf(k)'
    BY <1>1, <1>2, <1>3, <1>5, <2>1 DEF WorkOf, Exists
  <2> QED
    BY <1>1, <1>2, <1>4, <1>5, <2>2, ContinueStep DEF objects
<1>6. CASE Return(k) /\ UNCHANGED api
  BY <1>1, <1>2, <1>6, ReturnStep DEF objects
<1>7. CASE /\ api[p] = Snap(k) /\ api' = [api EXCEPT ![p].sid = 1]
           /\ call' = [call EXCEPT ![k].step = "finalize", ![k].snap.sid = 1]
  <2>1. /\ CallTyped' /\ OthersStay(k)
        /\ Step(k)' = "finalize" /\ Obj(k)' = p
        /\ Snap(k)'.sid = 1 /\ Snap(k)'.uid = Snap(k).uid /\ Snap(k)'.phase = Snap(k).phase
    BY <1>7, RecordSets DEF IInv
  <2>2. Exists(p)
    BY <1>1, <1>3, <1>7 DEF WorkOf, Exists
  <2>3. /\ Alters(p) /\ api'[p].sid = 1 /\ api'[p].phase = api[p].phase
        /\ api'[p].uid = api[p].uid /\ api'[p].own = api[p].own
    BY <1>2, <1>3, <1>7, <2>2, StatusAlters DEF IInv
  <2>4. WorkOf(k)'
    <3>1. Snap(k).uid <= created[p] /\ Snap(k).phase # "absent"
      BY <1>1, <1>3 DEF WorkOf
    <3> QED
      BY <1>2, <1>3, <2>1, <2>3, <3>1 DEF WorkOf, Exists
  <2>5. Owned(k)' /\ (Step(k) \in StepsOf(k))'
    BY <1>3, <1>4, <2>1 DEF Owned, StepsOf, ObjectsOf
  <2>6. \A j \in Controllers \ {k} : Step(j) # "idle" => Obj(j) # p
    BY <1>3, Busy, OneController DEF IInv
  <2>7. TypeOK' /\ CallTyped' /\ StepsInv' /\ ObjectsInv' /\ WorkInv'
    BY <1>2, <1>3, <2>1, <2>3, <2>4, <2>5, <2>6, OwnObjectKept
  <2>8. DisabledFirst'
    <3>1. CASE k = "piped"
      BY <2>1, <3>1 DEF DisabledFirst
    <3>2. CASE k # "piped"
      <4>1. call'["piped"] = call["piped"]
        BY <2>1, <3>2 DEF OthersStay, Controllers
      <4> QED
        BY <1>2, <4>1 DEF IInv, DisabledFirst, Step, Snap
    <3> QED
      BY <3>1, <3>2
  <2>9. RecordedIsRegistered' /\ FinalizedIsRecorded'
    BY <1>2, <1>3, <2>3, OneController
       DEF IInv, RecordedIsRegistered, FinalizedIsRecorded, Alters
  <2> QED
    BY <2>7, <2>8, <2>9 DEF IInv
<1> QED
  BY <1>5, <1>6, <1>7 DEF Record

\* A worker that patches its object and is done.
LEMMA PatchStep ==
  ASSUME IInv, NEW k \in Controllers, Step(k) # "idle", Alters(Obj(k)), Return(k),
         UNCHANGED <<owner, registered, key, spent>>,
         Obj(k) \in {Environment, Piped} /\ api'[Obj(k)].phase = "live"
           /\ api'[Obj(k)].sid # 0 => Obj(k) \in registered,
         Obj(k) \in {Environment, Piped} /\ api'[Obj(k)].own
           /\ api'[Obj(k)].finBy = api'[Obj(k)].uid => api'[Obj(k)].sid # 0
  PROVE  IInv'
<1> DEFINE p == Obj(k)
<1>1. /\ Counted' /\ registered' \subseteq {Environment, Piped}
      /\ (owner \in [name : ControlPlanes, uid : Nat] \cup {Nobody})'
      /\ registered' = registered
  BY DEF IInv, TypeOK, Nobody, Counted
<1>2. p \in ObjectsOf(k) /\ p \in Objects
  BY Busy DEF IInv
<1>3. CallTyped' /\ OthersStay(k) /\ call'[k] = NoCall /\ Step(k)' = "idle"
  BY ReturnSets DEF IInv
<1>4. Owned(k)' /\ (Step(k) \in StepsOf(k))' /\ WorkOf(k)'
  BY <1>3 DEF Owned, StepsOf, WorkOf
<1>5. \A j \in Controllers \ {k} : Step(j) # "idle" => Obj(j) # p
  BY <1>2, Busy, OneController DEF IInv
<1>6. TypeOK' /\ CallTyped' /\ StepsInv' /\ ObjectsInv' /\ WorkInv'
  BY <1>1, <1>2, <1>3, <1>4, <1>5, OwnObjectKept
<1>7. DisabledFirst'
  <2>1. CASE k = "piped"
    BY <1>3, <2>1 DEF DisabledFirst
  <2>2. CASE k # "piped"
    <3>1. call'["piped"] = call["piped"]
      BY <1>3, <2>2 DEF OthersStay, Controllers
    <3> QED
      BY <1>1, <3>1 DEF IInv, DisabledFirst, Step, Snap
  <2> QED
    BY <2>1, <2>2
<1>8. RecordedIsRegistered' /\ FinalizedIsRecorded'
  BY <1>1, <1>2, OneController DEF IInv, RecordedIsRegistered, FinalizedIsRecorded, Alters
<1> QED
  BY <1>6, <1>7, <1>8 DEF IInv

\* The finalizer of a call that has read this incarnation: its id is in the status. A
\* ghost is another incarnation than any that was read.
LEMMA FinalizeStep ==
  ASSUME IInv, NEW k \in Controllers, Finalize(k)
  PROVE  IInv'
<1> DEFINE p == Obj(k)
<1>1. /\ Step(k) = "finalize" /\ Return(k) /\ UNCHANGED <<owner, registered, key, spent>>
      /\ PatchFinalizerIn(p, Snap(k).uid)
  BY DEF Finalize
<1>2. /\ p \in ObjectsOf(k) /\ p \in Objects /\ WorkOf(k) /\ Snap(k).uid \in Nat
      /\ created[p] \in Nat /\ api[p] \in ObjectType
  BY <1>1, Busy DEF IInv, WorkInv, ObjectType
<1>3. /\ Alters(p)
      /\ \/ api'[p] = api[p]
         \/ /\ ~Exists(p) /\ api'[p].sid = 0 /\ api'[p].phase = "live"
            /\ api'[p].own /\ api'[p].uid = created[p] + 1 /\ api'[p].finBy = Snap(k).uid
         \/ /\ api[p].phase = "live" /\ ~api[p].own /\ api'[p].phase = "live"
            /\ api'[p].own /\ api'[p].sid = api[p].sid
            /\ api'[p].uid = api[p].uid /\ api'[p].finBy = Snap(k).uid
  BY <1>1, <1>2, FinalizerInAlters DEF IInv
<1>4. ASSUME p \in {Environment, Piped}
      PROVE  k # "controlplane"
  BY <1>2, <1>4, ObjectsAssumption DEF ObjectsOf
<1>5. p \in {Environment, Piped} /\ api'[p].phase = "live" /\ api'[p].sid # 0
        => p \in registered
  BY <1>3 DEF IInv, RecordedIsRegistered
<1>6. ASSUME p \in {Environment, Piped}, api'[p].own, api'[p].finBy = api'[p].uid
      PROVE  api'[p].sid # 0
  <2>1. CASE api'[p] = api[p]
    BY <1>6, <2>1 DEF IInv, FinalizedIsRecorded
  <2>2. CASE api'[p].uid = created[p] + 1 /\ api'[p].finBy = Snap(k).uid
    <3>1. Snap(k).uid <= created[p]
      BY <1>1, <1>2 DEF WorkOf
    <3>2. Snap(k).uid = created[p] + 1
      BY <1>6, <2>2
    <3> QED
      BY <1>2, <3>1, <3>2
  <2>3. CASE api[p].phase = "live" /\ api'[p].sid = api[p].sid
             /\ api'[p].uid = api[p].uid /\ api'[p].finBy = Snap(k).uid
    BY <1>1, <1>2, <1>4, <1>6, <2>3 DEF WorkOf, Exists
  <2> QED
    BY <1>3, <2>1, <2>2, <2>3
<1> QED
  BY <1>1, <1>3, <1>5, <1>6, PatchStep

\* What a worker deletes it lets go of for good.
LEMMA UnfinalizeStep ==
  ASSUME IInv, NEW k \in Controllers, Unfinalize(k)
  PROVE  IInv'
<1> DEFINE p == Obj(k)
<1>1. /\ Step(k) = "unfinalize" /\ Return(k) /\ UNCHANGED <<owner, registered, key, spent>>
      /\ PatchFinalizerOut(p)
  BY DEF Unfinalize
<1>2. p \in Objects /\ api[p].phase = "deleting"
  BY <1>1, Busy DEF IInv, WorkInv, WorkOf
<1>3. Alters(p) /\ api'[p] = Absent
  BY <1>1, <1>2, FinalizerOutAlters DEF IInv
<1> QED
  BY <1>1, <1>3, AbsentTyped, PatchStep

LEMMA WorkerSteps ==
  ASSUME IInv, NEW k \in Controllers, WorkerStep(k)
  PROVE  IInv'
  BY ApplyChildrenStep, FindStep, AddStep, GetStep, RecordStep, FinalizeStep, UnfinalizeStep, DisableStep
     DEF WorkerStep

\* People: an object of any owner.
LEMMA PeopleStep ==
  ASSUME IInv, NEW p \in Objects, Create(p) \/ Delete(p)
  PROVE  IInv'
<1>1. /\ UNCHANGED <<owner, registered, call>> /\ Counted'
      /\ CreateObject(p) \/ DeleteObject(p)
  BY SpentAssumption DEF Create, Delete, Disturb, IInv, TypeOK, Counted
<1>2. /\ registered' = registered /\ call' = call /\ owner' = owner
      /\ registered' \subseteq {Environment, Piped}
      /\ (owner \in [name : ControlPlanes, uid : Nat] \cup {Nobody})' /\ CallTyped'
  BY <1>1 DEF IInv, TypeOK, CallTyped, Nobody
<1>3. Alters(p) /\ api[p].phase # "deleting"
  BY <1>1, CreateAlters, DeleteAlters DEF IInv
<1>4. TypeOK' /\ CallTyped' /\ StepsInv' /\ ObjectsInv' /\ WorkInv'
  BY <1>1, <1>2, <1>3, WorkKept, {} \in SUBSET Controllers
<1>5. DisabledFirst'
  BY <1>2 DEF IInv, DisabledFirst, Step, Snap
<1>6. ASSUME p \in {Environment, Piped}, api'[p].phase = "live", api'[p].sid # 0
      PROVE  p \in registered
  <2>1. api[p].phase = "live" /\ api[p].sid # 0
    BY <1>1, <1>6, CreateAlters, DeleteAlters DEF IInv
  <2> QED
    BY <1>6, <2>1 DEF IInv, RecordedIsRegistered
<1>7. ASSUME p \in {Environment, Piped}, api'[p].own, api'[p].finBy = api'[p].uid
      PROVE  api'[p].sid # 0
  <2>1. /\ api[p].own /\ api'[p].sid = api[p].sid
        /\ api'[p].finBy = api[p].finBy /\ api'[p].uid = api[p].uid
    BY <1>1, <1>7, CreateAlters, DeleteAlters DEF IInv
  <2> QED
    BY <1>7, <2>1 DEF IInv, FinalizedIsRecorded
<1>8. RecordedIsRegistered' /\ FinalizedIsRecorded'
  BY <1>2, <1>3, <1>6, <1>7, OneController
     DEF IInv, RecordedIsRegistered, FinalizedIsRecorded, Alters
<1> QED
  BY <1>4, <1>5, <1>8 DEF IInv

\* The calls are lost.
LEMMA RestartStep ==
  ASSUME IInv, Restart
  PROVE  IInv'
<1>1. UNCHANGED <<api, created, owner, registered>> /\ Counted'
  BY SpentAssumption DEF Restart, Disturb, objects, IInv, TypeOK, Counted, Keys
<1>2. \A k \in Controllers : call'[k] = NoCall /\ Step(k)' = "idle"
  BY DEF Restart, NoCall, Step
<1>3. CallTyped'
  BY AbsentTyped DEF Restart, CallTyped, CallType, NoCall, Steps
<1>4. Alters(Piped) /\ Piped \in Objects
  BY <1>1, UnchangedAlters, OneController DEF IInv, objects
<1>5. \A k \in Controllers : Owned(k)' /\ (Step(k) \in StepsOf(k))' /\ WorkOf(k)'
  BY <1>2 DEF Owned, StepsOf, WorkOf
<1>6. /\ registered' \subseteq {Environment, Piped}
      /\ (owner \in [name : ControlPlanes, uid : Nat] \cup {Nobody})'
  BY <1>1 DEF IInv, TypeOK, Nobody
<1>7. TypeOK' /\ CallTyped' /\ StepsInv' /\ ObjectsInv' /\ WorkInv'
  BY <1>1, <1>3, <1>4, <1>5, <1>6, WorkKept, Controllers \in SUBSET Controllers
<1>8. DisabledFirst'
  BY <1>2 DEF DisabledFirst, Controllers
<1> QED
  BY <1>1, <1>7, <1>8, CoupledKept DEF IInv, RecordedIsRegistered

LEMMA CollectStep ==
  ASSUME IInv, Collect
  PROVE  IInv'
<1>1. UNCHANGED <<api, created, registered, key, call, spent>> /\ owner' = Nobody
  BY DEF Collect, objects
<1>2. Alters(Piped) /\ Piped \in Objects
  BY <1>1, UnchangedAlters, OneController DEF IInv, objects
<1>3. /\ registered' \subseteq {Environment, Piped} /\ Counted' /\ CallTyped'
      /\ (owner \in [name : ControlPlanes, uid : Nat] \cup {Nobody})'
  BY <1>1 DEF IInv, TypeOK, CallTyped, Nobody, Counted
<1>4. TypeOK' /\ CallTyped' /\ StepsInv' /\ ObjectsInv' /\ WorkInv'
  BY <1>1, <1>2, <1>3, WorkKept, {} \in SUBSET Controllers
<1>5. DisabledFirst'
  BY <1>1 DEF IInv, DisabledFirst, Step, Snap
<1> QED
  BY <1>1, <1>4, <1>5, CoupledKept DEF IInv, RecordedIsRegistered

LEMMA StutterStep ==
  ASSUME IInv, UNCHANGED vars
  PROVE  IInv'
<1>1. UNCHANGED <<api, created, owner, registered, key, call, spent>>
  BY DEF vars, objects
<1> QED
  BY <1>1 DEF IInv, TypeOK, CallTyped, StepsInv, ObjectsInv, ObjectInv, WorkInv, WorkOf,
              DisabledFirst, RecordedIsRegistered, FinalizedIsRecorded, Step, Obj, Snap, Exists

LEMMA InitIInv == Init => IInv
<1> SUFFICES ASSUME Init PROVE IInv
  OBVIOUS
<1>1. /\ NoCall \in CallType /\ NoCall.step = "idle" /\ NoCall.snap = Absent
      /\ NoCall.to = NoObject
  BY AbsentTyped DEF NoCall, CallType, Steps
<1>2. \A k \in Controllers : call[k] = NoCall
  BY DEF Init
<1>3. \A o \in Objects : api[o] = Absent
  BY DEF Init
<1>4. TypeOK
  BY <1>1, <1>2, AbsentTyped, SpentAssumption DEF Init, TypeOK, Step, Obj, Snap, Nobody, Keys
<1>5. CallTyped
  BY <1>1 DEF Init, CallTyped
<1>6. StepsInv /\ WorkInv
  BY <1>1, <1>2 DEF StepsInv, StepsOf, WorkInv, WorkOf, Step
<1>7. ObjectsInv
  BY <1>3, AbsentTyped DEF ObjectsInv, ObjectInv
<1>8. RecordedIsRegistered /\ FinalizedIsRecorded
  BY <1>3, AbsentTyped, OneController DEF Init, RecordedIsRegistered, FinalizedIsRecorded
<1>9. DisabledFirst
  BY DEF Init, DisabledFirst
<1> QED
  BY <1>4, <1>5, <1>6, <1>7, <1>8, <1>9 DEF IInv

LEMMA NextIInv == IInv /\ [Next]_vars => IInv'
<1> SUFFICES ASSUME IInv, [Next]_vars PROVE IInv'
  OBVIOUS
<1>1. CASE (\E c \in ControlPlanes : LoadControlPlane(c)) \/ LoadEnvironment \/ LoadPiped
  BY <1>1, LoadStep
<1>2. CASE \E k \in Controllers : WorkerStep(k) \/ CallFails(k)
  BY <1>2, WorkerSteps, CallFailsStep
<1>3. CASE \E o \in Objects : Create(o) \/ Delete(o)
  BY <1>3, PeopleStep
<1>4. CASE Collect \/ Restart
  BY <1>4, CollectStep, RestartStep
<1>5. CASE UNCHANGED vars
  BY <1>5, StutterStep
<1> QED
  BY <1>1, <1>2, <1>3, <1>4, <1>5 DEF Next

LEMMA Inductive == Spec => []IInv
  BY InitIInv, NextIInv, PTL DEF Spec

-----------------------------------------------------------------------------
(* The theorems *)

\* Every variable keeps its type, and a worker works on an object of its own kind.
THEOREM TypeCorrect == Spec => []TypeOK
<1>1. IInv => TypeOK
  BY DEF IInv
<1> QED
  BY <1>1, Inductive, PTL

\* Whatever is created, deleted and recreated in whatever order, and whatever calls
\* fail: a live Environment or Piped whose status has an id (reconcileUpdate of both
\* controllers) is registered at the server, a Piped with its Environment.
THEOREM RecordedAreRegistered == Spec => []RecordedIsRegistered
<1>1. IInv => RecordedIsRegistered
  BY DEF IInv
<1> QED
  BY <1>1, Inductive, PTL

\* The finalizer comes last (the Patch at the end of both reconciles): an Environment
\* or a Piped that has it from a call that had read this incarnation has its id in
\* its status, so that its deletion finds what to disable. Only a ghost, or an object
\* recreated during the call, may have the finalizer and no id.
THEOREM FinalizedAreRecorded == Spec => []FinalizedIsRecorded
<1>1. IInv => FinalizedIsRecorded
  BY DEF IInv
<1> QED
  BY <1>1, Inductive, PTL

\* The operator takes its finalizer from a Piped that has an id in its status only
\* when the Piped is disabled at the server (reconcileDelete of the Piped controller:
\* Disable, then the patch), whatever happened to the ControlPlane, to the Environment
\* and to the registration meanwhile.
THEOREM ReleasedAreDisabled == Spec => ReleasedIsDisabled
<1>1. ASSUME IInv, [Next]_vars
      PROVE  [api[Piped].own /\ ~api'[Piped].own /\ api[Piped].sid # 0
                => Piped \notin registered]_vars
  <2> SUFFICES ASSUME Next, api[Piped].own, ~api'[Piped].own, api[Piped].sid # 0
               PROVE  Piped \notin registered
    BY <1>1
  <2>1. Piped \in Objects /\ TypeOK /\ ObjectsInv
    BY <1>1, OneController DEF IInv
  <2>2. api' # api
    OBVIOUS
  <2>3. ASSUME NEW o \in Objects, Create(o) \/ Delete(o) PROVE FALSE
    <3>1. CreateObject(o) \/ DeleteObject(o)
      BY <2>3 DEF Create, Delete
    <3>2. CASE o # Piped
      BY <2>1, <3>1, <3>2, CreateAlters, DeleteAlters DEF Alters
    <3>3. CASE o = Piped
      BY <2>1, <3>1, <3>3, CreateAlters, DeleteAlters
    <3> QED
      BY <3>2, <3>3
  <2>4. ASSUME NEW k \in Controllers, WorkerStep(k) PROVE Piped \notin registered
    <3>1. CASE ApplyChildren \/ Find(k) \/ Add(k) \/ Get(k) \/ Disable
      BY <2>2, <3>1 DEF ApplyChildren, Find, Add, Get, Disable, objects
    <3>2. CASE Record(k)
      <4>1. api' = [api EXCEPT ![Obj(k)].sid = 1]
        BY <2>2, <3>2 DEF Record
      <4> QED
        BY <2>1, <4>1 DEF TypeOK, ObjectType
    <3>3. CASE Finalize(k)
      <4>1. Step(k) # "idle" /\ PatchFinalizerIn(Obj(k), Snap(k).uid)
        BY <3>3 DEF Finalize
      <4>2. Obj(k) \in Objects /\ Snap(k).uid \in Nat
        BY <2>1, <4>1, Busy DEF ObjectType
      <4>3. Alters(Obj(k)) /\ (api'[Obj(k)] = api[Obj(k)] \/ api'[Obj(k)].own)
        BY <2>1, <4>1, <4>2, FinalizerInAlters
      <4> QED
        BY <2>1, <4>3 DEF Alters
    <3>4. CASE Unfinalize(k)
      <4>1. Step(k) = "unfinalize" /\ PatchFinalizerOut(Obj(k))
        BY <3>4 DEF Unfinalize
      <4>2. /\ Obj(k) \in Objects /\ Obj(k) \in ObjectsOf(k)
            /\ api[Obj(k)] = Snap(k) /\ api[Obj(k)].phase = "deleting"
        BY <1>1, <4>1, Busy DEF IInv, WorkInv, WorkOf
      <4>3. Obj(k) = Piped
        BY <2>1, <4>1, <4>2, FinalizerOutAlters DEF Alters
      <4>4. k = "piped"
        BY <4>2, <4>3, ObjectsAssumption DEF ObjectsOf, Controllers
      <4> QED
        BY <1>1, <4>1, <4>2, <4>3, <4>4 DEF IInv, DisabledFirst
    <3> QED
      BY <2>4, <3>1, <3>2, <3>3, <3>4 DEF WorkerStep
  <2>5. ASSUME NEW k \in Controllers, CallFails(k) PROVE FALSE
    BY <2>2, <2>5 DEF CallFails, objects
  <2>6. CASE (\E c \in ControlPlanes : LoadControlPlane(c)) \/ LoadEnvironment \/ LoadPiped
    BY <2>2, <2>6 DEF LoadControlPlane, LoadEnvironment, LoadPiped, Begin, objects
  <2>7. CASE Collect \/ Restart
    BY <2>2, <2>7 DEF Collect, Restart, objects
  <2> QED
    BY <2>3, <2>4, <2>5, <2>6, <2>7 DEF Next
<1> QED
  BY <1>1, Inductive, PTL DEF Spec, ReleasedIsDisabled

=============================================================================
