------------------------ MODULE PipedControllerProofs ------------------------
(***************************************************************************)
(* Safety of the Piped controller, for any objects, names, disturbances    *)
(* and bounds: types, finalizer and registrations; what a Deployment finds *)
(* when it is rolled out; what a deletion disables, and when.              *)
(***************************************************************************)
EXTENDS PipedController, FiniteSetTheorems, TLAPS

\* The status of a copy of object p names a piped of p's name, if any.
Recorded(o, p) ==
  o.sid # 0 => o.sid \in DOMAIN reg /\ reg[o.sid].name = NameOf[p]

StatusRecorded ==
  /\ \A p \in Pipeds : Recorded(api[p], p) /\ Recorded(cache[p], p)
  /\ pc # "idle" => Recorded(snap, cur)

\* From the moment the worker has a piped, it has one of its object's name.
FoundOwnName ==
  pc \in {"get", "secret", "configmap", "deployment", "status", "finalize"} =>
    id \in DOMAIN reg /\ reg[id].name = NameOf[cur]

\* No copy of an object is of an incarnation still to come.
UidsCreated ==
  /\ \A p \in Pipeds : api[p].uid <= created[p] /\ cache[p].uid <= created[p]
  /\ pc # "idle" => snap.uid <= created[cur]

\* An id once recorded in an object's status stays recorded as long as the
\* object is the same.
Kept(o, p) == Exists(p) /\ api[p].uid = o.uid /\ o.sid # 0 => api[p].sid # 0

IdsKept ==
  /\ \A p \in Pipeds : Kept(cache[p], p)
  /\ pc # "idle" => Kept(snap, cur)

FinalizeAfterStatus == pc = "finalize" => snap.sid = id

\* The finalizer of a reconcile of the same object implies a recorded id.
FinalizerAfterId ==
  \A p \in Pipeds : api[p].own /\ api[p].finBy = api[p].uid => api[p].sid # 0

IInv ==
  /\ TypeOK
  /\ StatusRecorded
  /\ FoundOwnName
  /\ UidsCreated
  /\ IdsKept
  /\ FinalizeAfterStatus
  /\ FinalizerAfterId

-----------------------------------------------------------------------------

USE NoPipedAssumption, NameOfAssumption, DisturbancesAssumption, BoundsAssumption

\* The object that does not exist is an object.
LEMMA AbsentTyped == Absent \in ObjectType /\ Absent.sid = 0
  BY DEF Absent, ObjectType

\* An object changed in some of its fields is an object; its id is kept.
LEMMA ObjectUpdates ==
  ASSUME NEW o \in ObjectType, NEW b \in BOOLEAN, NEW n \in Nat
  PROVE  /\ [o EXCEPT !.sid = n] \in ObjectType
         /\ [o EXCEPT !.own = b, !.finBy = n] \in ObjectType
         /\ [o EXCEPT !.ghost = b] \in ObjectType
         /\ [o EXCEPT !.foreign = b] \in ObjectType
         /\ [o EXCEPT !.phase = "deleting"] \in ObjectType
         /\ WithoutOwn(o) \in ObjectType
         /\ [o EXCEPT !.sid = n].sid = n
         /\ [o EXCEPT !.own = b, !.finBy = n].sid = o.sid
         /\ [o EXCEPT !.ghost = b].sid = o.sid
         /\ [o EXCEPT !.foreign = b].sid = o.sid
         /\ [o EXCEPT !.phase = "deleting"].sid = o.sid
         /\ WithoutOwn(o).sid \in {0, o.sid}
  BY DEF ObjectType, WithoutOwn, Absent

\* Ids and uids are numbers.
LEMMA ObjectFields == ASSUME NEW o \in ObjectType PROVE o.sid \in Nat /\ o.uid \in Nat
  BY DEF ObjectType

\* A new object, of a user or of a patch, is an object without an id.
LEMMA NewObject ==
  ASSUME NEW n \in Nat, NEW m \in Nat, NEW b \in BOOLEAN, NEW g \in BOOLEAN
  PROVE  LET o == [Absent EXCEPT !.phase = "live", !.ghost = g, !.uid = n,
                                 !.own = b, !.finBy = m]
             u == [Absent EXCEPT !.phase = "live", !.uid = n]
         IN  o \in ObjectType /\ o.sid = 0 /\ u \in ObjectType /\ u.sid = 0
  BY DEF Absent, ObjectType

\* Putting one object into the API server keeps the types.
LEMMA ApiChange ==
  ASSUME TypeOK, Ids \subseteq Ids', NEW p, NEW o \in ObjectType, o.sid \in Ids',
         api' = [api EXCEPT ![p] = o]
  PROVE  api' \in [Pipeds -> ObjectType] /\ \A q \in Pipeds : api'[q].sid \in Ids'
  BY DEF TypeOK, ObjectsTyped, IdsRegistered

\* Disabling a registration keeps the registry's type and length.
LEMMA DisableTyped ==
  ASSUME NEW s \in Seq(Registration), NEW i
  PROVE  LET t == [s EXCEPT ![i].enabled = FALSE]
         IN  t \in Seq(Registration) /\ Len(t) = Len(s)
  <1> DEFINE r == [s[i] EXCEPT !.enabled = FALSE]
  <1>1. CASE i \in DOMAIN s
    <2>0. s[i] \in Registration
      BY <1>1
    <2>1. r \in Registration
      BY <2>0 DEF Registration
    <2> HIDE DEF r
    <2>2. LET t == [s EXCEPT ![i] = r] IN t \in Seq(Registration) /\ Len(t) = Len(s)
      BY <1>1, <2>1
    <2> QED
      BY <2>2 DEF r
  <1>2. CASE i \notin DOMAIN s
    <2>1. [s EXCEPT ![i].enabled = FALSE] = s
      BY <1>2
    <2> QED
      BY <2>1
  <1> QED
    BY <1>1, <1>2

\* A finalizer patch that creates a ghost keeps the types.
LEMMA GhostTyped ==
  ASSUME TypeOK, Ids \subseteq Ids', cur \in Pipeds, NEW b \in BOOLEAN, NEW n \in Nat,
         PatchGhost(cur, b, n)
  PROVE  /\ api' \in [Pipeds -> ObjectType] /\ \A q \in Pipeds : api'[q].sid \in Ids'
         /\ created' \in [Pipeds -> Nat]
  <1>1. created[cur] + 1 \in Nat /\ created' \in [Pipeds -> Nat]
    BY DEF TypeOK, ObjectsTyped, PatchGhost
  <1> DEFINE o == [Absent EXCEPT !.phase = "live", !.ghost = TRUE, !.uid = created[cur] + 1,
                                 !.own = b, !.finBy = IF b THEN n ELSE 0]
  <1>2. o \in ObjectType /\ o.sid = 0
    <2>1. (IF b THEN n ELSE 0) \in Nat
      OBVIOUS
    <2> QED
      BY <1>1, <2>1 DEF Absent, ObjectType
  <1>3. api' = [api EXCEPT ![cur] = o] /\ 0 \in Ids'
    BY DEF PatchGhost, TypeOK, IdsRegistered, Ids, RegistryTyped
  <1> HIDE DEF o
  <1>4. api' \in [Pipeds -> ObjectType] /\ \A q \in Pipeds : api'[q].sid \in Ids'
    BY <1>2, <1>3, ApiChange
  <1> QED
    BY <1>1, <1>4

\* A finalizer patch is a disturbance or it is not.
LEMMA PatchSpends ==
  ASSUME spent \in Nat, AddFinalizer \/ RemoveFinalizer
  PROVE  spent' \in Nat
  <1>1. Undisturbed \/ Disturb("api")
    BY DEF AddFinalizer, PatchFinalizerIn, RemoveFinalizer, PatchFinalizerOut
  <1> QED
    BY <1>1 DEF Undisturbed, Disturb

\* What the worker writes into a child is typed.
LEMMA ChildTyped ==
  ASSUME TypeOK
  PROVE  /\ [val |-> keyCache, owner |-> snap.uid] \in ChildType
         /\ [val |-> id, owner |-> snap.uid] \in ChildType
         /\ NoChild \in ChildType
  BY DEF TypeOK, WorkerTyped, IdsRegistered, Ids, ObjectType, ChildType, NoChild

\* The registry only grows, by registrations of the names in use.
LEMMA RegistryStep ==
  TypeOK /\ [Next]_vars => RegistryTyped' /\ Ids \subseteq Ids'
  <1> SUFFICES ASSUME TypeOK, [Next]_vars PROVE RegistryTyped' /\ Len(reg) <= Len(reg')
    BY DEF Ids, TypeOK, RegistryTyped
  <1>1. CASE UNCHANGED reg
    BY <1>1 DEF TypeOK, RegistryTyped
  <1>2. CASE RegisterPiped
    <2>1. NameOf[cur] \in Names
      BY <1>2 DEF RegisterPiped, TypeOK, WorkerTyped, Names
    <2>2. [name |-> NameOf[cur], enabled |-> TRUE] \in Registration
      BY <2>1 DEF Registration
    <2> QED
      BY <1>1, <1>2, <2>2 DEF RegisterPiped, TypeOK, RegistryTyped
  <1>3. ASSUME NEW i, reg' = [reg EXCEPT ![i].enabled = FALSE]
        PROVE  RegistryTyped' /\ Len(reg) <= Len(reg')
    <2>1. reg \in Seq(Registration)
      BY DEF TypeOK, RegistryTyped
    <2>2. reg' \in Seq(Registration) /\ Len(reg') = Len(reg)
      BY <1>3, <2>1, DisableTyped, Zenon
    <2>3. Len(reg) \in Nat
      BY <2>1
    <2> QED
      BY <2>2, <2>3 DEF RegistryTyped
  <1> QED
    BY <1>1, <1>2, <1>3
       DEF Next, WorkerStep, Surroundings, vars, objects, children, worker,
           Load, FindOne, FindError, FindEnvironment, GetPiped, ApplySecret,
           ApplyConfigMap, ApplyDeployment, UpdateStatus, AddFinalizer, PatchFinalizerIn,
           DisablePiped, RemoveFinalizer, PatchFinalizerOut, Create, CreateObject, Delete,
           DeleteObject, AddForeign, AddForeignFinalizer, RemoveForeign,
           RemoveForeignFinalizer, DisableInWebUI, ToggleGate, SyncCache, CatchUp, Crash,
           Collect

\* Every step keeps the types.
LEMMA TypeStep == TypeOK /\ [Next]_vars => TypeOK'
  <1> SUFFICES ASSUME TypeOK, [Next]_vars PROVE TypeOK'
    OBVIOUS
  <1>0. RegistryTyped' /\ Ids \subseteq Ids' /\ 0 \in Ids'
    BY RegistryStep DEF TypeOK, RegistryTyped, Ids
  <1> USE <1>0, AbsentTyped
      DEF TypeOK, ObjectsTyped, ChildrenTyped, WorkerTyped, IdsRegistered, Steps,
          Return, Continue, Disturb, Undisturbed, Exists, objects, children, worker
  <1>1. ASSUME NEW p \in Pipeds, Load(p) PROVE TypeOK'
    BY <1>1 DEF Load
  <1>2. CASE FindOne
    BY <1>2 DEF FindOne, Enabled, Ids, RegistryTyped
  <1>3. CASE FindError
    BY <1>3 DEF FindError
  <1>4. CASE FindEnvironment
    BY <1>4 DEF FindEnvironment
  <1>5. CASE RegisterPiped
    <2>1. Len(reg) + 1 \in Ids' \/ UNCHANGED id \/ id' = 0
      BY <1>5 DEF RegisterPiped, Ids, RegistryTyped
    <2> QED
      BY <1>5, <2>1 DEF RegisterPiped
  <1>6. CASE GetPiped
    BY <1>6 DEF GetPiped
  <1>7. CASE ApplySecret
    BY <1>7, ChildTyped DEF ApplySecret
  <1>8. CASE ApplyConfigMap
    BY <1>8, ChildTyped DEF ApplyConfigMap
  <1>9. CASE ApplyDeployment
    BY <1>9, ChildTyped DEF ApplyDeployment
  <1>10. CASE UpdateStatus
    <2>1. CASE UNCHANGED api
      BY <1>10, <2>1 DEF UpdateStatus
    <2>2. CASE api' = [api EXCEPT ![cur].sid = id]
      <3>1. id \in Nat /\ cur \in Pipeds
        BY <1>10 DEF UpdateStatus, Ids
      <3>2. api' = [api EXCEPT ![cur] = [api[cur] EXCEPT !.sid = id]]
        BY <2>2
      <3> DEFINE o == [api[cur] EXCEPT !.sid = id]
      <3>a. o \in ObjectType /\ o.sid \in Ids'
        <4>1. api[cur] \in ObjectType /\ id \in Ids
          BY <3>1
        <4>2. o \in ObjectType /\ o.sid = id
          BY <3>1, <4>1, ObjectUpdates
        <4> QED
          BY <4>1, <4>2
      <3> HIDE DEF o
      <3>3. api' \in [Pipeds -> ObjectType] /\ \A q \in Pipeds : api'[q].sid \in Ids'
        BY <3>2, <3>a, ApiChange DEF o
      <3>4. CASE snap' = [snap EXCEPT !.sid = id] /\ pc' = "finalize" /\ UNCHANGED <<cur, id>>
        <4>1. snap' \in ObjectType /\ snap'.sid = id
          BY <3>1, <3>4, ObjectUpdates
        <4> QED
          BY <1>10, <2>2, <3>1, <3>3, <3>4, <4>1 DEF UpdateStatus
      <3>5. CASE Return
        BY <1>10, <2>2, <3>1, <3>3, <3>5 DEF UpdateStatus
      <3> QED
        BY <1>10, <3>4, <3>5 DEF UpdateStatus
    <2> QED
      BY <1>10, <2>1, <2>2 DEF UpdateStatus
  <1>11. CASE AddFinalizer
    <2>a. spent' \in Nat
      BY <1>11, PatchSpends
    <2>b. Return /\ UNCHANGED <<cache, reg, keyCache, children, open>>
      BY <1>11 DEF AddFinalizer, PatchFinalizerIn
    <2>0. Return /\ UNCHANGED <<cache, reg, keyCache, children, open>> /\ spent' \in Nat
      BY <2>a, <2>b
    <2>1. cur \in Pipeds /\ snap.uid \in Nat
      BY <1>11, ObjectFields DEF AddFinalizer, PatchFinalizerIn
    <2>2. CASE UNCHANGED api
      BY <1>11, <2>0, <2>2 DEF AddFinalizer, PatchFinalizerIn, PatchGhost
    <2>3. CASE PatchGhost(cur, TRUE, snap.uid)
      <3>1. /\ api' \in [Pipeds -> ObjectType] /\ \A q \in Pipeds : api'[q].sid \in Ids'
            /\ created' \in [Pipeds -> Nat]
        BY <2>1, <2>3, GhostTyped
      <3> QED
        BY <2>0, <3>1
    <2>4. CASE api' = [api EXCEPT ![cur].own = TRUE, ![cur].finBy = snap.uid] /\ UNCHANGED
    created
      <3>1. api' = [api EXCEPT ![cur] = [api[cur] EXCEPT !.own = TRUE, !.finBy = snap.uid]]
        BY <2>1, <2>4
      <3> DEFINE o == [api[cur] EXCEPT !.own = TRUE, !.finBy = snap.uid]
      <3>a. o \in ObjectType /\ o.sid \in Ids'
        <4>1. api[cur] \in ObjectType /\ api[cur].sid \in Ids
          BY <2>1
        <4>2. o \in ObjectType /\ o.sid = api[cur].sid
          BY <2>1, <4>1, ObjectUpdates
        <4> QED
          BY <4>1, <4>2
      <3> HIDE DEF o
      <3>2. api' \in [Pipeds -> ObjectType] /\ \A q \in Pipeds : api'[q].sid \in Ids'
        BY <3>1, <3>a, ApiChange DEF o
      <3> QED
        BY <2>0, <2>4, <3>2
    <2> QED
      BY <1>11, <2>2, <2>3, <2>4 DEF AddFinalizer, PatchFinalizerIn
  <1>12. CASE DisablePiped
    BY <1>12 DEF DisablePiped
  <1>13. CASE RemoveFinalizer
    <2>a. spent' \in Nat
      BY <1>13, PatchSpends
    <2>b. Return /\ UNCHANGED <<cache, reg, keyCache, children, open>>
      BY <1>13 DEF RemoveFinalizer, PatchFinalizerOut
    <2>0. Return /\ UNCHANGED <<cache, reg, keyCache, children, open>> /\ spent' \in Nat
      BY <2>a, <2>b
    <2>1. cur \in Pipeds
      BY <1>13 DEF RemoveFinalizer, PatchFinalizerOut
    <2>2. CASE UNCHANGED <<api, created>>
      BY <2>0, <2>2
    <2>3. CASE PatchGhost(cur, FALSE, 0)
      <3>1. /\ api' \in [Pipeds -> ObjectType] /\ \A q \in Pipeds : api'[q].sid \in Ids'
            /\ created' \in [Pipeds -> Nat]
        <4>1. FALSE \in BOOLEAN /\ 0 \in Nat
          OBVIOUS
        <4> QED
          BY <2>1, <2>3, <4>1, GhostTyped
      <3> QED
        BY <2>0, <3>1
    <2>4. CASE api' = [api EXCEPT ![cur] = WithoutOwn(@)] /\ UNCHANGED created
      <3>1. WithoutOwn(api[cur]) \in ObjectType /\ WithoutOwn(api[cur]).sid \in Ids'
        BY <2>1, ObjectUpdates
      <3>2. api' \in [Pipeds -> ObjectType] /\ \A q \in Pipeds : api'[q].sid \in Ids'
        BY <2>1, <2>4, <3>1, ApiChange
      <3> QED
        BY <2>0, <2>4, <3>2
    <2> QED
      BY <1>13, <2>2, <2>3, <2>4 DEF RemoveFinalizer, PatchFinalizerOut
  <1>14. ASSUME NEW p \in Pipeds, Create(p) PROVE TypeOK'
    <2>1. created[p] + 1 \in Nat
      OBVIOUS
    <2>2. PICK o \in ObjectType : o.sid \in Ids' /\ api' = [api EXCEPT ![p] = o]
      <3>1. CASE ~Exists(p)
        <4>1. api' = [api EXCEPT ![p] = [Absent EXCEPT !.phase = "live", !.uid = created[p]
        + 1]]
          BY <1>14, <3>1 DEF Create, CreateObject
        <4> QED
          BY <2>1, <4>1, NewObject
      <3>2. CASE Exists(p) /\ api' = [api EXCEPT ![p].ghost = FALSE]
        <4>1. api' = [api EXCEPT ![p] = [api[p] EXCEPT !.ghost = FALSE]]
          BY <3>2
        <4> QED
          BY <4>1, ObjectUpdates
      <3> QED
        BY <1>14, <3>1, <3>2 DEF Create, CreateObject
    <2> QED
      BY <1>14, <2>1, <2>2, ApiChange DEF Create, CreateObject
  <1>15. ASSUME NEW p \in Pipeds, Delete(p) PROVE TypeOK'
    <2>1. api' = [api EXCEPT ![p] = IF api[p].own \/ api[p].foreign
                                    THEN [api[p] EXCEPT !.phase = "deleting"] ELSE Absent]
      BY <1>15 DEF Delete, DeleteObject
    <2>2. PICK o \in ObjectType : o.sid \in Ids' /\ api' = [api EXCEPT ![p] = o]
      BY <2>1, ObjectUpdates
    <2> QED
      BY <1>15, <2>2, ApiChange DEF Delete, DeleteObject
  <1>16. ASSUME NEW p \in Pipeds, AddForeign(p) PROVE TypeOK'
    <2>1. api' = [api EXCEPT ![p] = [api[p] EXCEPT !.foreign = TRUE]]
      BY <1>16 DEF AddForeign, AddForeignFinalizer
    <2>2. PICK o \in ObjectType : o.sid \in Ids' /\ api' = [api EXCEPT ![p] = o]
      BY <2>1, ObjectUpdates
    <2> QED
      <3>1. api' \in [Pipeds -> ObjectType] /\ \A q \in Pipeds : api'[q].sid \in Ids'
        BY <2>2, ApiChange
      <3> QED
        BY <1>16, <3>1 DEF AddForeign, AddForeignFinalizer
  <1>17. ASSUME NEW p \in Pipeds, RemoveForeign(p) PROVE TypeOK'
    <2>1. api' = [api EXCEPT ![p] = IF api[p].phase = "deleting" /\ ~api[p].own
                                    THEN Absent ELSE [api[p] EXCEPT !.foreign = FALSE]]
      BY <1>17 DEF RemoveForeign, RemoveForeignFinalizer
    <2>2. PICK o \in ObjectType : o.sid \in Ids' /\ api' = [api EXCEPT ![p] = o]
      BY <2>1, ObjectUpdates
    <2> QED
      BY <1>17, <2>2, ApiChange DEF RemoveForeign, RemoveForeignFinalizer
  <1>18. ASSUME NEW p \in Pipeds, SyncCache(p) PROVE TypeOK'
    BY <1>18 DEF SyncCache, CatchUp
  <1>19. ASSUME NEW p \in Pipeds, Collect(p) PROVE TypeOK'
    BY <1>19, ChildTyped DEF Collect
  <1>20. ASSUME NEW i \in DOMAIN reg, DisableInWebUI(i) PROVE TypeOK'
    BY <1>20 DEF DisableInWebUI
  <1>21. CASE ToggleGate
    BY <1>21 DEF ToggleGate
  <1>22. CASE Crash
    BY <1>22 DEF Crash
  <1>23. CASE UNCHANGED vars
    BY <1>23 DEF vars, Ids
  <1> QED
    BY <1>1, <1>2, <1>3, <1>4, <1>5, <1>6, <1>7, <1>8, <1>9, <1>10, <1>11, <1>12, <1>13,
       <1>14, <1>15, <1>16, <1>17, <1>18, <1>19, <1>20, <1>21, <1>22, <1>23
       DEF Next, WorkerStep, Surroundings

-----------------------------------------------------------------------------
(* What a step may do to an object, to the copies of it and to the registry *)

\* To object p: nothing that matters here, its end, its creation, the
\* recording of its id, or the addition of the finalizer.
SameObject(p) ==
  /\ api'[p].sid = api[p].sid /\ api'[p].uid = api[p].uid
  /\ api'[p].own => api[p].own /\ api'[p].finBy = api[p].finBy
  /\ Exists(p)' <=> Exists(p)

NewlyCreated(p) ==
  /\ api'[p].sid = 0 /\ api'[p].uid = created[p] + 1 /\ created'[p] = created[p] + 1
  /\ api'[p].own => pc # "idle" /\ p = cur /\ api'[p].finBy = snap.uid

IdRecorded(p) ==
  /\ pc = "status" /\ p = cur /\ api[p] = snap
  /\ api'[p].sid = id /\ api'[p].uid = api[p].uid
  /\ Exists(p)' <=> Exists(p)

FinalizerAdded(p) ==
  /\ pc = "finalize" /\ p = cur /\ Exists(p) /\ Exists(p)'
  /\ api'[p].sid = api[p].sid /\ api'[p].uid = api[p].uid /\ api'[p].finBy = snap.uid

ObjectStep(p) ==
  \/ SameObject(p) /\ created'[p] = created[p]
  \/ api'[p] = Absent /\ created'[p] = created[p]
  \/ NewlyCreated(p)
  \/ IdRecorded(p) /\ created'[p] = created[p]
  \/ FinalizerAdded(p) /\ created'[p] = created[p]

\* Every step does one of these to every object.
LEMMA EveryObjectStep ==
  ASSUME TypeOK, [Next]_vars, NEW q \in Pipeds
  PROVE  ObjectStep(q)
  <1> USE DEF TypeOK, ObjectsTyped, ObjectType, ObjectStep, SameObject, Exists, objects
  <1>1. CASE UNCHANGED <<api, created>>
    BY <1>1
  <1>2. CASE UpdateStatus /\ ~UNCHANGED api
    <2>1. /\ pc = "status" /\ cur \in Pipeds /\ api[cur] \in ObjectType
          /\ api[cur] = snap /\ api' = [api EXCEPT ![cur].sid = id] /\ UNCHANGED created
      BY <1>2 DEF UpdateStatus, WorkerTyped
    <2>2. CASE q = cur
      BY <2>1, <2>2 DEF IdRecorded
    <2>3. CASE q # cur
      BY <2>1, <2>3
    <2> QED
      BY <2>2, <2>3
  <1>3. ASSUME pc # "idle", \/ PatchGhost(cur, TRUE, snap.uid)
                             \/ PatchGhost(cur, FALSE, 0)
        PROVE  ObjectStep(q)
    <2>1. PICK b \in BOOLEAN, n \in Nat : PatchGhost(cur, b, n) /\ (b => n = snap.uid)
      BY <1>3 DEF WorkerTyped, ObjectType
    <2>2. CASE q = cur
      BY <1>3, <2>1, <2>2 DEF PatchGhost, Absent, NewlyCreated, WorkerTyped
    <2>3. CASE q # cur
      BY <2>1, <2>3 DEF PatchGhost
    <2> QED
      BY <2>2, <2>3
  <1>4. CASE AddFinalizer
    <2>1. pc = "finalize" /\ cur \in Pipeds /\ api[cur] \in ObjectType
      BY <1>4 DEF AddFinalizer, PatchFinalizerIn, WorkerTyped
    <2>2. CASE /\ api[cur].phase = "live" /\ UNCHANGED created
               /\ api' = [api EXCEPT ![cur].own = TRUE, ![cur].finBy = snap.uid]
      <3>1. CASE q = cur
        BY <2>1, <2>2, <3>1 DEF FinalizerAdded
      <3>2. CASE q # cur
        BY <2>2, <3>2
      <3> QED
        BY <3>1, <3>2
    <2>3. \/ PatchGhost(cur, TRUE, snap.uid) \/ UNCHANGED <<api, created>>
          \/ /\ api[cur].phase = "live" /\ UNCHANGED created
             /\ api' = [api EXCEPT ![cur].own = TRUE, ![cur].finBy = snap.uid]
      BY <1>4 DEF AddFinalizer, PatchFinalizerIn
    <2> QED
      BY <1>1, <1>3, <2>1, <2>2, <2>3
  <1>5. CASE RemoveFinalizer
    <2>1. pc # "idle" /\ cur \in Pipeds /\ api[cur] \in ObjectType
      BY <1>5 DEF RemoveFinalizer, PatchFinalizerOut, WorkerTyped
    <2>2. CASE Exists(cur) /\ api' = [api EXCEPT ![cur] = WithoutOwn(@)] /\ UNCHANGED created
      <3>1. CASE q = cur
        BY <2>1, <2>2, <3>1 DEF WithoutOwn
      <3>2. CASE q # cur
        BY <2>2, <3>2
      <3> QED
        BY <3>1, <3>2
    <2>3. \/ PatchGhost(cur, FALSE, 0) \/ UNCHANGED <<api, created>>
          \/ Exists(cur) /\ api' = [api EXCEPT ![cur] = WithoutOwn(@)] /\ UNCHANGED created
      BY <1>5 DEF RemoveFinalizer, PatchFinalizerOut
    <2> QED
      BY <1>1, <1>3, <2>1, <2>2, <2>3
  <1>6. ASSUME NEW p \in Pipeds, Create(p) PROVE ObjectStep(q)
    <2>1. CASE q = p /\ ~Exists(p)
      <3>1. /\ api'[p] = [Absent EXCEPT !.phase = "live", !.uid = created[p] + 1]
            /\ created'[p] = created[p] + 1
        BY <1>6, <2>1 DEF Create, CreateObject
      <3> QED
        BY <2>1, <3>1 DEF Absent, NewlyCreated
    <2>2. CASE q = p /\ Exists(p)
      BY <1>6, <2>2 DEF Create, CreateObject
    <2>3. CASE q # p
      BY <1>6, <2>3 DEF Create, CreateObject
    <2> QED
      BY <2>1, <2>2, <2>3
  <1>7. ASSUME NEW p \in Pipeds, Delete(p) PROVE ObjectStep(q)
    BY <1>7 DEF Delete, DeleteObject, Absent
  <1>8. ASSUME NEW p \in Pipeds, AddForeign(p) PROVE ObjectStep(q)
    BY <1>8 DEF AddForeign, AddForeignFinalizer
  <1>9. ASSUME NEW p \in Pipeds, RemoveForeign(p) PROVE ObjectStep(q)
    BY <1>9 DEF RemoveForeign, RemoveForeignFinalizer, Absent
  <1>10. QED
    <2>1. CASE UNCHANGED vars
      BY <1>1, <2>1 DEF vars
    <2>2. ASSUME NEW p \in Pipeds, Load(p) \/ SyncCache(p) \/ Collect(p)
          PROVE  ObjectStep(q)
      BY <1>1, <2>2 DEF Load, SyncCache, CatchUp, Collect
    <2>3. CASE FindOne \/ FindError \/ FindEnvironment \/ RegisterPiped \/ GetPiped \/ ApplySecret
      BY <1>1, <2>3 DEF FindOne, FindError, FindEnvironment, RegisterPiped, GetPiped,
                        ApplySecret
    <2>4. CASE ApplyConfigMap \/ ApplyDeployment \/ DisablePiped \/ ToggleGate \/ Crash
      BY <1>1, <2>4 DEF ApplyConfigMap, ApplyDeployment, DisablePiped, ToggleGate, Crash
    <2>5. ASSUME NEW i, DisableInWebUI(i) PROVE ObjectStep(q)
      BY <1>1, <2>5 DEF DisableInWebUI
    <2>6. CASE UpdateStatus
      BY <1>1, <1>2, <2>6 DEF UpdateStatus
    <2> QED
      BY <1>4, <1>5, <1>6, <1>7, <1>8, <1>9, <2>1, <2>2, <2>3, <2>4, <2>5, <2>6
         DEF Next, WorkerStep, Surroundings

\* The informer's copy stays as it is or becomes the object of this moment.
LEMMA CacheStep ==
  ASSUME TypeOK, [Next]_vars, NEW q \in Pipeds
  PROVE  cache'[q] = cache[q] \/ cache'[q] = api[q]
  BY DEF TypeOK, ObjectsTyped, objects, Next, WorkerStep, Surroundings, vars, Load, FindOne,
         FindError, FindEnvironment, RegisterPiped, GetPiped, ApplySecret, ApplyConfigMap,
         ApplyDeployment, UpdateStatus, AddFinalizer, PatchFinalizerIn, DisablePiped,
         RemoveFinalizer, PatchFinalizerOut, Create, CreateObject, Delete, DeleteObject,
         AddForeign, AddForeignFinalizer, RemoveForeign, RemoveForeignFinalizer,
         DisableInWebUI, ToggleGate, SyncCache, CatchUp, Crash, Collect

\* A registration keeps its id and its name.
LEMMA RegistryKept ==
  ASSUME TypeOK, [Next]_vars, NEW i \in DOMAIN reg
  PROVE  i \in DOMAIN reg' /\ reg'[i].name = reg[i].name /\ i # 0
  <1> USE DEF TypeOK, RegistryTyped, Registration
  <1>0. i # 0
    OBVIOUS
  <1>1. CASE UNCHANGED reg
    BY <1>0, <1>1
  <1>2. CASE \E r : reg' = Append(reg, r)
    BY <1>0, <1>2
  <1>3. ASSUME NEW j, reg' = [reg EXCEPT ![j].enabled = FALSE]
        PROVE  i \in DOMAIN reg' /\ reg'[i].name = reg[i].name
    BY <1>3
  <1> QED
    BY <1>0, <1>1, <1>2, <1>3
       DEF Next, WorkerStep, Surroundings, vars, objects, children, worker,
           Load, FindOne, FindError, FindEnvironment, RegisterPiped, GetPiped, ApplySecret,
           ApplyConfigMap, ApplyDeployment, UpdateStatus, AddFinalizer, PatchFinalizerIn,
           DisablePiped, RemoveFinalizer, PatchFinalizerOut, Create, CreateObject, Delete,
           DeleteObject, AddForeign, AddForeignFinalizer, RemoveForeign,
           RemoveForeignFinalizer, DisableInWebUI, ToggleGate, SyncCache, CatchUp, Crash,
           Collect

\* The steps at which the worker has a piped.
Holding == {"get", "secret", "configmap", "deployment", "status", "finalize"}

\* What a step may do to the worker: nothing; the return; the load of an
\* object; the progress of a call up to the status; the finding or making of
\* a piped; the end of the status update.
WorkerLoads ==
  /\ pc = "idle" /\ pc' \in {"find", "disable"}
  /\ cur' \in Pipeds /\ snap' = cache[cur']

WorkerGoesOn ==
  /\ pc # "idle" /\ pc' \notin {"idle", "finalize"} /\ UNCHANGED <<cur, snap>>
  /\ pc' \in Holding => pc \in Holding /\ UNCHANGED id

WorkerFinds ==
  /\ pc # "idle" /\ pc' \in Holding \ {"finalize"} /\ UNCHANGED <<cur, snap>>
  /\ id' \in DOMAIN reg' /\ reg'[id'].name = NameOf[cur]

WorkerRecords ==
  /\ pc = "status" /\ pc' = "finalize" /\ UNCHANGED <<cur, id>>
  /\ snap'.sid = id /\ snap'.uid = snap.uid
  /\ snap' = snap \/ api'[cur].sid = id

WorkerMoves ==
  \/ UNCHANGED worker
  \/ pc' = "idle"
  \/ WorkerLoads
  \/ WorkerGoesOn
  \/ WorkerFinds
  \/ WorkerRecords

\* Every step does one of these to the worker.
LEMMA EveryWorkerMove ==
  ASSUME TypeOK, [Next]_vars
  PROVE  WorkerMoves
  <1> USE DEF WorkerMoves, TypeOK, WorkerTyped
  <1>1. CASE UNCHANGED worker
    BY <1>1
  <1>2. ASSUME NEW p \in Pipeds, Load(p) PROVE WorkerMoves
    BY <1>2 DEF Load, WorkerLoads
  <1>3. CASE FindOne
    BY <1>3 DEF FindOne, Enabled, Return, Continue, WorkerFinds, Holding
  <1>4. CASE FindError \/ FindEnvironment \/ GetPiped \/ DisablePiped
    BY <1>4 DEF FindError, FindEnvironment, GetPiped, DisablePiped, Return, Continue,
                WorkerGoesOn, Holding
  <1>5. CASE RegisterPiped
    BY <1>5 DEF RegisterPiped, Return, Continue, WorkerFinds, Holding, RegistryTyped
  <1>6. CASE ApplySecret \/ ApplyConfigMap \/ ApplyDeployment
    BY <1>6 DEF ApplySecret, ApplyConfigMap, ApplyDeployment, Return, Continue,
                WorkerGoesOn, Holding
  <1>7. CASE UpdateStatus
    BY <1>7 DEF UpdateStatus, Return, Continue, WorkerRecords, ObjectType, ObjectsTyped
  <1>8. CASE AddFinalizer \/ RemoveFinalizer \/ Crash
    BY <1>8 DEF AddFinalizer, PatchFinalizerIn, RemoveFinalizer, PatchFinalizerOut, Crash,
                Return
  <1>9. CASE Surroundings /\ ~Crash
    BY <1>9 DEF Surroundings, worker, Create, CreateObject, Delete, DeleteObject, AddForeign,
                AddForeignFinalizer, RemoveForeign, RemoveForeignFinalizer, DisableInWebUI,
                ToggleGate, SyncCache, CatchUp, Collect
  <1> QED
    BY <1>1, <1>2, <1>3, <1>4, <1>5, <1>6, <1>7, <1>8, <1>9 DEF Next, WorkerStep, vars

-----------------------------------------------------------------------------
(* Every step keeps the inductive invariant *)

\* The worker's piped keeps bearing its object's name.
LEMMA FoundStep == IInv /\ [Next]_vars => FoundOwnName'
  <1> SUFFICES ASSUME IInv, [Next]_vars, pc' \in Holding
               PROVE  id' \in DOMAIN reg' /\ reg'[id'].name = NameOf[cur']
    BY DEF FoundOwnName, Holding
  <1> USE DEF Holding
  <1>1. TypeOK /\ (pc \in Holding => id \in DOMAIN reg /\ reg[id].name = NameOf[cur])
    BY DEF IInv, FoundOwnName
  <1>2. pc \in Holding /\ UNCHANGED <<cur, id>>
        => id' \in DOMAIN reg' /\ reg'[id'].name = NameOf[cur']
    BY <1>1, RegistryKept
  <1>3. WorkerMoves
    BY <1>1, EveryWorkerMove
  <1> QED
    BY <1>2, <1>3
       DEF WorkerMoves, worker, WorkerLoads, WorkerGoesOn, WorkerFinds, WorkerRecords

\* What the worker has recorded is what it works with.
LEMMA FinalizeStep == IInv /\ [Next]_vars => FinalizeAfterStatus'
  <1> SUFFICES ASSUME IInv, [Next]_vars PROVE FinalizeAfterStatus'
    OBVIOUS
  <1>1. WorkerMoves
    BY EveryWorkerMove DEF IInv
  <1> QED
    BY <1>1
       DEF IInv, FinalizeAfterStatus, WorkerMoves, worker, WorkerLoads, WorkerGoesOn,
           WorkerFinds, WorkerRecords

\* Objects and their copies name pipeds of their own name only.
LEMMA RecordedStep == IInv /\ [Next]_vars => StatusRecorded'
  <1> SUFFICES ASSUME IInv, [Next]_vars PROVE StatusRecorded'
    OBVIOUS
  <1> DEFINE Good(n, p) == n # 0 => n \in DOMAIN reg' /\ reg'[n].name = NameOf[p]
  <1>1. TypeOK /\ StatusRecorded /\ FoundOwnName
    BY DEF IInv
  <1>2. ASSUME NEW p \in Pipeds PROVE Good(api[p].sid, p) /\ Good(cache[p].sid, p)
    BY <1>1, RegistryKept DEF StatusRecorded, Recorded
  <1>3. pc # "idle" => Good(snap.sid, cur)
    BY <1>1, RegistryKept DEF StatusRecorded, Recorded
  <1>4. pc = "status" => Good(id, cur)
    BY <1>1, RegistryKept DEF FoundOwnName
  <1>5. ASSUME NEW p \in Pipeds PROVE Good(api'[p].sid, p)
    <2>1. ObjectStep(p)
      BY <1>1, EveryObjectStep
    <2>2. api'[p].sid = api[p].sid \/ api'[p].sid = 0 \/ (pc = "status" /\ p = cur /\ api'[p].sid = id)
      BY <2>1 DEF ObjectStep, SameObject, NewlyCreated, IdRecorded, FinalizerAdded, Absent
    <2> QED
      BY <1>2, <1>4, <2>2
  <1>6. ASSUME NEW p \in Pipeds PROVE Good(cache'[p].sid, p)
    BY <1>1, <1>2, CacheStep
  <1>7. pc' # "idle" => Good(snap'.sid, cur')
    <2>1. WorkerMoves
      BY <1>1, EveryWorkerMove
    <2>2. WorkerLoads => Good(snap'.sid, cur')
      BY <1>2 DEF WorkerLoads
    <2>3. WorkerRecords => Good(snap'.sid, cur')
      BY <1>4 DEF WorkerRecords
    <2>4. pc # "idle" /\ UNCHANGED <<cur, snap>> => Good(snap'.sid, cur')
      BY <1>3
    <2> HIDE DEF Good
    <2> QED
      BY <2>1, <2>2, <2>3, <2>4 DEF WorkerMoves, worker, WorkerGoesOn, WorkerFinds
  <1> QED
    BY <1>5, <1>6, <1>7 DEF StatusRecorded, Recorded

\* Uids are given out once.
LEMMA UidStep == IInv /\ [Next]_vars => UidsCreated'
  <1> SUFFICES ASSUME IInv, [Next]_vars PROVE UidsCreated'
    OBVIOUS
  <1>1. TypeOK /\ UidsCreated
    BY DEF IInv
  <1>2. ASSUME NEW p \in Pipeds
        PROVE  /\ created[p] \in Nat /\ created'[p] \in Nat
               /\ created[p] <= created'[p] /\ api'[p].uid <= created'[p]
    <2>1. ObjectStep(p) /\ created[p] \in Nat /\ api[p].uid <= created[p] /\ api[p].uid \in Nat
      BY <1>1, EveryObjectStep, ObjectFields DEF UidsCreated, TypeOK, ObjectsTyped
    <2>2. created'[p] \in {created[p], created[p] + 1}
      BY <2>1 DEF ObjectStep, NewlyCreated
    <2>3. \/ api'[p].uid = api[p].uid \/ api'[p].uid = 0
          \/ api'[p].uid = created[p] + 1 /\ created'[p] = created[p] + 1
      BY <2>1 DEF ObjectStep, SameObject, NewlyCreated, IdRecorded, FinalizerAdded, Absent
    <2> QED
      BY <2>1, <2>2, <2>3
  <1>3. ASSUME NEW p \in Pipeds PROVE cache'[p].uid <= created'[p] /\ cache[p].uid <= created'[p]
    <2>1. /\ cache[p].uid \in Nat /\ cache[p].uid <= created[p]
          /\ api[p].uid \in Nat /\ api[p].uid <= created[p]
      BY <1>1, ObjectFields DEF UidsCreated, TypeOK, ObjectsTyped
    <2>2. cache'[p].uid = cache[p].uid \/ cache'[p].uid = api[p].uid
      BY <1>1, CacheStep
    <2> QED
      BY <1>2, <2>1, <2>2
  <1>4. pc' # "idle" => snap'.uid <= created'[cur']
    <2>1. WorkerMoves
      BY <1>1, EveryWorkerMove
    <2>2. pc # "idle" => snap.uid \in Nat /\ cur \in Pipeds /\ snap.uid <= created[cur]
      BY <1>1, ObjectFields DEF UidsCreated, TypeOK, WorkerTyped
    <2>3. pc # "idle" => snap.uid <= created'[cur]
      BY <1>2, <2>2
    <2> QED
      BY <1>3, <2>1, <2>3
         DEF WorkerMoves, worker, WorkerLoads, WorkerGoesOn, WorkerFinds, WorkerRecords
  <1> QED
    BY <1>2, <1>3, <1>4 DEF UidsCreated

\* An id of the object at the API server outlives the copies that have one.
LEMMA KeptStep == IInv /\ [Next]_vars => IdsKept'
  <1> SUFFICES ASSUME IInv, [Next]_vars PROVE IdsKept'
    OBVIOUS
  <1>1. TypeOK /\ UidsCreated /\ IdsKept /\ FoundOwnName
    BY DEF IInv
  <1>2. ASSUME NEW p \in Pipeds, NEW u \in Nat, NEW n,
               u <= created[p], Exists(p) /\ api[p].uid = u /\ n # 0 => api[p].sid # 0
        PROVE  api'[p].phase # "absent" /\ api'[p].uid = u /\ n # 0 => api'[p].sid # 0
    <2>1. ObjectStep(p)
      BY <1>1, EveryObjectStep
    <2>2. CASE SameObject(p) \/ FinalizerAdded(p)
      BY <1>2, <2>2 DEF SameObject, FinalizerAdded, Exists
    <2>3. CASE api'[p] = Absent
      BY <2>3 DEF Absent
    <2>4. CASE NewlyCreated(p)
      BY <1>1, <1>2, <2>4 DEF NewlyCreated, TypeOK, ObjectsTyped
    <2>5. CASE IdRecorded(p)
      BY <1>1, <2>5, RegistryKept DEF IdRecorded, FoundOwnName
    <2> QED
      BY <2>1, <2>2, <2>3, <2>4, <2>5 DEF ObjectStep
  <1> DEFINE Good(u, n, p) == api'[p].phase # "absent" /\ api'[p].uid = u /\ n # 0 =>
  api'[p].sid # 0
  <1>3. ASSUME NEW p \in Pipeds
        PROVE  Good(cache[p].uid, cache[p].sid, p) /\ Good(api[p].uid, api[p].sid, p)
    <2>1. /\ cache[p].uid \in Nat /\ cache[p].uid <= created[p]
          /\ api[p].uid \in Nat /\ api[p].uid <= created[p]
      BY <1>1, ObjectFields DEF UidsCreated, TypeOK, ObjectsTyped
    <2>2. Exists(p) /\ api[p].uid = cache[p].uid /\ cache[p].sid # 0 => api[p].sid # 0
      BY <1>1 DEF IdsKept, Kept
    <2> QED
      BY <1>2, <2>1, <2>2
  <1>4. pc # "idle" => Good(snap.uid, snap.sid, cur)
    <2> SUFFICES ASSUME pc # "idle" PROVE Good(snap.uid, snap.sid, cur)
      OBVIOUS
    <2>1. snap.uid \in Nat /\ cur \in Pipeds /\ snap.uid <= created[cur]
      BY <1>1, ObjectFields DEF UidsCreated, TypeOK, WorkerTyped
    <2>2. Exists(cur) /\ api[cur].uid = snap.uid /\ snap.sid # 0 => api[cur].sid # 0
      BY <1>1 DEF IdsKept, Kept
    <2> QED
      BY <1>2, <2>1, <2>2
  <1>5. ASSUME NEW p \in Pipeds PROVE Good(cache'[p].uid, cache'[p].sid, p)
    BY <1>1, <1>3, CacheStep
  <1>6. pc' # "idle" => Good(snap'.uid, snap'.sid, cur')
    <2>1. WorkerMoves
      BY <1>1, EveryWorkerMove
    <2>2. WorkerLoads => Good(snap'.uid, snap'.sid, cur')
      BY <1>3 DEF WorkerLoads
    <2>3. WorkerRecords => Good(snap'.uid, snap'.sid, cur')
      BY <1>1, <1>4, RegistryKept DEF WorkerRecords, FoundOwnName
    <2>4. pc # "idle" /\ UNCHANGED <<cur, snap>> => Good(snap'.uid, snap'.sid, cur')
      BY <1>4
    <2> HIDE DEF Good
    <2> QED
      BY <2>1, <2>2, <2>3, <2>4 DEF WorkerMoves, worker, WorkerGoesOn, WorkerFinds
  <1> QED
    BY <1>5, <1>6 DEF IdsKept, Kept, Exists

\* The finalizer comes after the id.
LEMMA FinalizerStep == IInv /\ [Next]_vars => FinalizerAfterId'
  <1> SUFFICES ASSUME IInv, [Next]_vars, NEW p \in Pipeds, (api[p].own /\ api[p].finBy =
  api[p].uid)'
               PROVE  api'[p].sid # 0
    BY DEF FinalizerAfterId
  <1>1. TypeOK /\ UidsCreated /\ IdsKept /\ FoundOwnName /\ FinalizeAfterStatus /\ FinalizerAfterId
    BY DEF IInv
  <1>2. ObjectStep(p)
    BY <1>1, EveryObjectStep
  <1>3. CASE SameObject(p)
    BY <1>1, <1>3 DEF SameObject, FinalizerAfterId
  <1>4. CASE api'[p] = Absent
    BY <1>4 DEF Absent
  <1>5. CASE NewlyCreated(p)
    <2>1. snap.uid <= created[p] /\ snap.uid \in Nat /\ created[p] \in Nat
      BY <1>1, <1>5, ObjectFields DEF NewlyCreated, UidsCreated, TypeOK, ObjectsTyped,
                                      WorkerTyped
    <2> QED
      BY <1>5, <2>1 DEF NewlyCreated
  <1>6. CASE IdRecorded(p)
    BY <1>1, <1>6, RegistryKept DEF IdRecorded, FoundOwnName
  <1>7. CASE FinalizerAdded(p)
    <2>1. snap.sid = id /\ id # 0
      BY <1>1, <1>7, RegistryKept DEF FinalizerAdded, FinalizeAfterStatus, FoundOwnName
    <2>2. Exists(p) /\ api[p].uid = snap.uid
      BY <1>7 DEF FinalizerAdded
    <2> QED
      BY <1>1, <1>7, <2>1, <2>2 DEF FinalizerAdded, IdsKept, Kept
  <1> QED
    BY <1>2, <1>3, <1>4, <1>5, <1>6, <1>7 DEF ObjectStep

-----------------------------------------------------------------------------

\* The initial state satisfies the inductive invariant.
LEMMA InitIInv == Init => IInv
  <1> SUFFICES ASSUME Init PROVE IInv
    OBVIOUS
  <1>1. RegistryTyped
    BY DEF Init, RegistryTyped
  <1>2. TypeOK
    BY <1>1, AbsentTyped
       DEF Init, ObjectsInit, TypeOK, ObjectsTyped, ChildrenTyped, WorkerTyped, IdsRegistered,
           Ids, Steps, NoChild, ChildType
  <1>3. StatusRecorded /\ FoundOwnName /\ UidsCreated
    BY DEF Init, ObjectsInit, StatusRecorded, Recorded, FoundOwnName, UidsCreated, Absent
  <1>4. IdsKept /\ FinalizeAfterStatus /\ FinalizerAfterId
    BY DEF Init, ObjectsInit, IdsKept, Kept, Exists, FinalizeAfterStatus, FinalizerAfterId,
           Absent
  <1> QED
    BY <1>2, <1>3, <1>4 DEF IInv

\* The inductive invariant holds in every reachable state.
THEOREM Invariance == Spec => []IInv
  <1>1. IInv /\ [Next]_vars => IInv'
    BY TypeStep, FoundStep, FinalizeStep, RecordedStep, UidStep, KeptStep, FinalizerStep DEF
       IInv
  <1> QED
    BY <1>1, InitIInv, PTL DEF Spec

\* Every variable keeps its type and every id in use has been registered.
THEOREM TypeCorrect == Spec => []TypeOK
  <1>1. IInv => TypeOK
    BY DEF IInv
  <1> QED
    BY <1>1, Invariance, PTL

\* Whatever fails or is done from outside, an object whose finalizer was added
\* by a reconcile of this object names the registration to disable.
THEOREM FinalizerIsGuard == Spec => []FinalizerGuardsRegistration
  <1>1. IInv => FinalizerGuardsRegistration
    BY DEF IInv, FinalizerAfterId, StatusRecorded, Recorded, FinalizerGuardsRegistration
  <1> QED
    BY <1>1, Invariance, PTL

-----------------------------------------------------------------------------
(* One enabled piped per name, as long as ListPipeds does not fail *)

\* Two enabled pipeds never share a name, and between a ListPipeds that found
\* none and the registration nobody else registers one.
OneEnabled ==
  /\ \A i, j \in DOMAIN reg :
       reg[i].enabled /\ reg[j].enabled /\ reg[i].name = reg[j].name => i = j
  /\ pc \in {"env", "register"} => Enabled(NameOf[cur]) = {}

\* Under OneEnabled a name has no enabled piped or exactly one.
LEMMA NoneOrOne ==
  ASSUME OneEnabled, NEW n
  PROVE  Enabled(n) = {} \/ Cardinality(Enabled(n)) = 1
  <1>1. ASSUME NEW i \in Enabled(n) PROVE Enabled(n) = {i}
    BY DEF OneEnabled, Enabled
  <1> QED
    BY <1>1, FS_Singleton

\* Disabling never makes two enabled pipeds of a name out of one.
LEMMA DisableKeepsOne ==
  ASSUME TypeOK, OneEnabled, NEW i, reg' = [reg EXCEPT ![i].enabled = FALSE]
  PROVE  /\ \A j \in DOMAIN reg' : j \in DOMAIN reg /\ reg'[j].name = reg[j].name
                                   /\ (reg'[j].enabled => reg[j].enabled)
         /\ \A j, k \in DOMAIN reg' :
              reg'[j].enabled /\ reg'[k].enabled /\ reg'[j].name = reg'[k].name => j = k
  BY DEF TypeOK, RegistryTyped, Registration, OneEnabled

\* No step makes a second one.
LEMMA OneEnabledStep ==
  ASSUME "list" \notin Disturbances, TypeOK, OneEnabled, [Next]_vars
  PROVE  OneEnabled'
  <1>1. ASSUME UNCHANGED reg, pc' \in {"env", "register"} => pc \in {"env", "register"} /\
  UNCHANGED cur
        PROVE  OneEnabled'
    BY <1>1 DEF OneEnabled, Enabled
  <1>2. CASE FindError
    <2>1. Enabled(NameOf[cur]) = {}
      BY <1>2, NoneOrOne DEF FindError, Disturb
    <2> QED
      BY <1>2, <2>1 DEF FindError, Continue, OneEnabled, Enabled
  <1>3. CASE RegisterPiped /\ ~UNCHANGED reg
    <2>1. /\ reg' = Append(reg, [name |-> NameOf[cur], enabled |-> TRUE])
          /\ pc' \notin {"env", "register"}
          /\ Enabled(NameOf[cur]) = {}
      BY <1>3 DEF RegisterPiped, Return, Continue, OneEnabled
    <2>2. \A i \in DOMAIN reg' : i = Len(reg) + 1 \/ (i \in DOMAIN reg /\ reg'[i] = reg[i])
      BY <2>1 DEF TypeOK, RegistryTyped
    <2>3. reg'[Len(reg) + 1] = [name |-> NameOf[cur], enabled |-> TRUE]
      BY <2>1 DEF TypeOK, RegistryTyped
    <2> QED
      BY <2>1, <2>2, <2>3 DEF OneEnabled, Enabled
  <1>4. ASSUME NEW i, reg' = [reg EXCEPT ![i].enabled = FALSE],
               pc' \in {"env", "register"} => pc \in {"env", "register"} /\ UNCHANGED cur
        PROVE  OneEnabled'
    BY <1>4, DisableKeepsOne DEF OneEnabled, Enabled
  <1> QED
    <2>1. CASE FindEnvironment \/ (RegisterPiped /\ UNCHANGED reg)
      BY <1>1, <2>1 DEF FindEnvironment, RegisterPiped, Return, Continue
    <2>2. CASE FindOne \/ GetPiped \/ UpdateStatus \/ AddFinalizer \/ RemoveFinalizer \/ Crash
      BY <1>1, <2>2 DEF FindOne, GetPiped, UpdateStatus, AddFinalizer, PatchFinalizerIn,
                        RemoveFinalizer, PatchFinalizerOut, Crash, Return, Continue
    <2>3. CASE ApplySecret \/ ApplyConfigMap \/ ApplyDeployment
      BY <1>1, <2>3 DEF ApplySecret, ApplyConfigMap, ApplyDeployment, Return, Continue
    <2>4. CASE DisablePiped
      BY <1>1, <1>4, <2>4 DEF DisablePiped, Return, Continue
    <2>5. ASSUME NEW i, DisableInWebUI(i) PROVE OneEnabled'
      BY <1>4, <2>5 DEF DisableInWebUI, worker
    <2>6. ASSUME NEW p, Load(p) PROVE OneEnabled'
      BY <1>1, <2>6 DEF Load
    <2>7. ASSUME NEW p, \/ Create(p) \/ Delete(p) \/ AddForeign(p) \/ RemoveForeign(p)
                       \/ SyncCache(p) \/ Collect(p)
          PROVE  OneEnabled'
      BY <1>1, <2>7 DEF Create, CreateObject, Delete, DeleteObject, AddForeign,
                        AddForeignFinalizer, RemoveForeign, RemoveForeignFinalizer, SyncCache,
                        CatchUp, Collect, worker
    <2>8. CASE ToggleGate \/ UNCHANGED vars
      BY <1>1, <2>8 DEF ToggleGate, vars, worker
    <2> QED
      BY <1>2, <1>3, <2>1, <2>2, <2>3, <2>4, <2>5, <2>6, <2>7, <2>8
         DEF Next, WorkerStep, Surroundings

\* Unless ListPipeds fails, no reconcile, retry, crash or lost answer ever
\* leaves two enabled pipeds of one name at the PipeCD server.
THEOREM NoDuplicates ==
  ASSUME "list" \notin Disturbances
  PROVE  Spec => []OneEnabledPerName
  <1>1. Init => OneEnabled
    BY DEF Init, OneEnabled
  <1>2. TypeOK /\ OneEnabled /\ [Next]_vars => OneEnabled'
    BY OneEnabledStep
  <1>3. OneEnabled => OneEnabledPerName
    BY NoneOrOne, FS_EmptySet DEF OneEnabledPerName
  <1> QED
    BY <1>1, <1>2, <1>3, TypeCorrect, PTL DEF Spec

-----------------------------------------------------------------------------
(* What has been done before a Deployment is rolled out, and before the    *)
(* operator lets go of an object.                                          *)

\* The worker's object is still the one it has read.
SameIncarnation == Exists(cur) /\ api[cur].uid = snap.uid

\* A worker that writes children holds a key.
KeyHeld == pc \in {"secret", "configmap", "deployment"} => keyCache # 0

\* What the worker has applied for an object stays as long as the object.
SecretApplied ==
  pc \in {"configmap", "deployment"} /\ SameIncarnation =>
    secret[cur].val # 0 /\ secret[cur].owner = snap.uid

ConfigApplied ==
  pc = "deployment" /\ SameIncarnation =>
    configMap[cur] = [val |-> id, owner |-> snap.uid]

ChildrenInv == KeyHeld /\ SecretApplied /\ ConfigApplied

\* An object that only the operator still holds back from its end.
Going(o) == o.phase = "deleting" /\ ~o.foreign

\* Such an object goes to reconcileDelete, and no other one.
WorksOn ==
  /\ pc # "idle" => snap.phase # "absent"
  /\ pc \in {"disable", "unfinalize"} => Going(snap)
  /\ pc \notin {"idle", "disable", "unfinalize"} => ~Going(snap)

\* As long as the worker's object is the one it has read, the informer knows it.
CacheKnows == \A p \in Pipeds : p = cur /\ SameIncarnation => cache[p].uid = snap.uid

\* So do the informer and the worker know an object with a recorded id.
RecordedIsKnown ==
  \A p \in Pipeds : api[p].sid # 0 =>
    /\ Exists(p) /\ cache[p].uid = api[p].uid
    /\ p = cur => snap.uid = api[p].uid

\* A copy of an object about to end names the last id recorded of it.
LastId(o, p) ==
  Going(o) /\ Exists(p) /\ api[p].uid = o.uid => Going(api[p]) /\ api[p].sid = o.sid

GoingIsFinal == \A p \in Pipeds : LastId(cache[p], p) /\ (p = cur => LastId(snap, p))

DisabledFirst == pc = "unfinalize" /\ snap.sid # 0 => ~reg[snap.sid].enabled

DeletionInv == WorksOn /\ CacheKnows /\ RecordedIsKnown /\ GoingIsFinal /\ DisabledFirst

-----------------------------------------------------------------------------

\* An incarnation that has been created and is there after a step was there
\* before it.
LEMMA OldIncarnation ==
  ASSUME TypeOK, [Next]_vars, NEW p \in Pipeds, NEW u \in Nat, u <= created[p],
         Exists(p)', api'[p].uid = u
  PROVE  Exists(p) /\ api[p].uid = u
  <1>1. ObjectStep(p)
    BY EveryObjectStep
  <1>2. created[p] \in Nat
    BY DEF TypeOK, ObjectsTyped
  <1>3. CASE NewlyCreated(p)
    BY <1>2, <1>3 DEF NewlyCreated
  <1>4. CASE api'[p] = Absent
    BY <1>4 DEF Absent, Exists
  <1> QED
    BY <1>1, <1>3, <1>4 DEF ObjectStep, SameObject, IdRecorded, FinalizerAdded

\* In particular the one the worker has read.
LEMMA WorkerIncarnation ==
  ASSUME IInv, [Next]_vars, pc # "idle", cur' = cur, snap'.uid = snap.uid, SameIncarnation'
  PROVE  SameIncarnation
  <1>1. cur \in Pipeds /\ snap.uid \in Nat /\ snap.uid <= created[cur] /\ TypeOK
    BY DEF IInv, TypeOK, WorkerTyped, ObjectType, UidsCreated
  <1>2. Exists(cur)' /\ api'[cur].uid = snap.uid
    BY DEF SameIncarnation, Exists
  <1> QED
    BY <1>1, <1>2, OldIncarnation DEF SameIncarnation

-----------------------------------------------------------------------------
(* before a Deployment is rolled out *)

\* Every step keeps the order of the three children the worker applies.
LEMMA ChildrenStep == IInv /\ ChildrenInv /\ [Next]_vars => ChildrenInv'
  <1> SUFFICES ASSUME IInv, ChildrenInv, [Next]_vars PROVE ChildrenInv'
    OBVIOUS
  <1> USE DEF ChildrenInv, KeyHeld, SecretApplied, ConfigApplied
  <1>0. TypeOK /\ (pc # "idle" => cur \in Pipeds)
    BY DEF IInv, TypeOK, WorkerTyped
  <1>1. ASSUME pc' \notin {"secret", "configmap", "deployment"} PROVE ChildrenInv'
    BY <1>1
  <1>2. CASE FindOne
    BY <1>2 DEF FindOne, Return, Continue
  <1>3. CASE GetPiped
    <2>1. id # 0
      BY <1>0, <1>3, RegistryKept DEF GetPiped, IInv, FoundOwnName
    <2> QED
      BY <1>3, <2>1 DEF GetPiped, Return, Continue
  <1>4. CASE ApplySecret
    BY <1>0, <1>4 DEF ApplySecret, Return, Continue, TypeOK, ChildrenTyped
  <1>5. CASE ApplyConfigMap
    BY <1>0, <1>5
       DEF ApplyConfigMap, Return, Continue, TypeOK, ChildrenTyped, SameIncarnation, Exists,
           objects
  <1>6. ASSUME UNCHANGED <<worker, keyCache>>,
               UNCHANGED children \/ \E p \in Pipeds : Collect(p)
        PROVE  ChildrenInv'
    <2> SUFFICES ASSUME pc \in {"secret", "configmap", "deployment"} PROVE ChildrenInv'
      BY <1>1, <1>6 DEF worker
    <2>1. SameIncarnation' => SameIncarnation
      BY <1>6, WorkerIncarnation DEF worker
    <2>2. ASSUME SameIncarnation, pc \in {"configmap", "deployment"}
          PROVE  secret'[cur] = secret[cur] /\ (pc = "deployment" => configMap'[cur] = configMap[cur])
      BY <1>0, <1>6, <2>2
         DEF Collect, Orphan, SameIncarnation, TypeOK, ChildrenTyped, children
    <2> QED
      BY <1>6, <2>1, <2>2 DEF worker
  <1>7. CASE Surroundings /\ ~Crash
    BY <1>6, <1>7
       DEF Surroundings, Create, Delete, AddForeign, RemoveForeign, SyncCache, Collect,
           DisableInWebUI, ToggleGate
  <1>8. CASE UNCHANGED vars
    BY <1>6, <1>8 DEF vars
  <1>9. CASE \/ \E p \in Pipeds : Load(p)
             \/ FindError \/ FindEnvironment \/ RegisterPiped \/ ApplyDeployment
             \/ UpdateStatus \/ AddFinalizer \/ DisablePiped \/ RemoveFinalizer \/ Crash
    BY <1>1, <1>9
       DEF Load, FindError, FindEnvironment, RegisterPiped, ApplyDeployment, UpdateStatus,
           AddFinalizer, DisablePiped, RemoveFinalizer, Crash, Return, Continue
  <1> QED
    BY <1>2, <1>3, <1>4, <1>5, <1>7, <1>8, <1>9 DEF Next, WorkerStep

\* A Deployment that changes and stays has been applied by the worker.
LEMMA RolloutStep ==
  ASSUME TypeOK, Next, NEW p \in Pipeds,
         deployment'[p] # deployment[p], deployment'[p] # NoChild
  PROVE  /\ p = cur /\ pc = "deployment"
         /\ deployment'[p] = [val |-> id, owner |-> snap.uid]
  <1>1. deployment \in [Pipeds -> ChildType]
    BY DEF TypeOK, ChildrenTyped
  <1>2. ASSUME NEW q \in Pipeds, Collect(q) PROVE FALSE
    BY <1>1, <1>2 DEF Collect
  <1>3. ApplyDeployment
    BY <1>2
       DEF Next, WorkerStep, Surroundings, children, Load, FindOne, FindError,
           FindEnvironment, RegisterPiped, GetPiped, ApplySecret, ApplyConfigMap,
           UpdateStatus, AddFinalizer, DisablePiped, RemoveFinalizer, Create, Delete,
           AddForeign, RemoveForeign, DisableInWebUI, ToggleGate, SyncCache, Crash
  <1> QED
    BY <1>1, <1>3 DEF ApplyDeployment

\* A Deployment of an object that still exists names another piped only when the
\* ConfigMap does so already and a Secret with a key is there.
THEOREM ConfiguredBeforeRollout == Spec => RolloutAfterConfig
  <1> DEFINE Configured ==
        \A p \in Pipeds :
          /\ deployment'[p] # deployment[p] /\ deployment'[p] # NoChild
          /\ Exists(p) /\ api[p].uid = deployment'[p].owner
          => configMap[p].val = deployment'[p].val /\ secret[p].val # 0
  <1>1. Init => ChildrenInv
    BY DEF Init, ChildrenInv, KeyHeld, SecretApplied, ConfigApplied
  <1>2. ASSUME IInv, ChildrenInv, Next PROVE Configured
    <2> SUFFICES ASSUME NEW p \in Pipeds,
                        deployment'[p] # deployment[p], deployment'[p] # NoChild,
                        Exists(p), api[p].uid = deployment'[p].owner
                 PROVE  configMap[p].val = deployment'[p].val /\ secret[p].val # 0
      OBVIOUS
    <2>1. /\ p = cur /\ pc = "deployment"
          /\ deployment'[p] = [val |-> id, owner |-> snap.uid]
      BY <1>2, RolloutStep DEF IInv
    <2> QED
      BY <1>2, <2>1 DEF ChildrenInv, SecretApplied, ConfigApplied, SameIncarnation
  <1>3. IInv /\ ChildrenInv /\ [Next]_vars => [Configured]_vars
    BY <1>2
  <1> QED
    BY <1>1, <1>3, ChildrenStep, Invariance, PTL DEF Spec, RolloutAfterConfig

-----------------------------------------------------------------------------
(* before the operator lets go of an object *)

\* Only the finalizer of the operator is left: the object stays or ends.
LEMMA GoingStays ==
  ASSUME TypeOK, WorksOn, [Next]_vars, NEW q \in Pipeds, Going(api[q])
  PROVE  api'[q] = api[q] \/ api'[q] = Absent
  <1> USE DEF TypeOK, ObjectsTyped, ObjectType, Going, Exists
  <1>1. CASE UNCHANGED api
    BY <1>1
  <1>2. CASE UpdateStatus
    BY <1>2 DEF UpdateStatus, WorksOn, WorkerTyped
  <1>3. CASE AddFinalizer
    BY <1>3 DEF AddFinalizer, PatchFinalizerIn, PatchGhost, objects, WorkerTyped
  <1>4. CASE RemoveFinalizer
    BY <1>4 DEF RemoveFinalizer, PatchFinalizerOut, PatchGhost, WithoutOwn, objects, WorkerTyped
  <1>5. ASSUME NEW p \in Pipeds, Create(p) \/ Delete(p) \/ AddForeign(p) \/ RemoveForeign(p)
        PROVE  api'[q] = api[q]
    BY <1>5 DEF Create, CreateObject, Delete, DeleteObject, AddForeign, AddForeignFinalizer,
                RemoveForeign, RemoveForeignFinalizer
  <1> QED
    BY <1>1, <1>2, <1>3, <1>4, <1>5
       DEF Next, WorkerStep, Surroundings, vars, objects, Load, FindOne, FindError,
           FindEnvironment, RegisterPiped, GetPiped, ApplySecret, ApplyConfigMap,
           ApplyDeployment, DisablePiped, DisableInWebUI, ToggleGate, SyncCache, CatchUp,
           Collect, Crash

\* A copy of an object about to end goes on naming the last id.
LEMMA LastIdKept ==
  ASSUME IInv, WorksOn, [Next]_vars, NEW p \in Pipeds, NEW o \in ObjectType,
         o.uid <= created[p], LastId(o, p), Going(o), Exists(p)', api'[p].uid = o.uid
  PROVE  Going(api'[p]) /\ api'[p].sid = o.sid
  <1>1. TypeOK /\ o.uid \in Nat
    BY DEF IInv, ObjectType
  <1>2. Exists(p) /\ api[p].uid = o.uid
    BY <1>1, OldIncarnation
  <1>3. Going(api[p]) /\ api[p].sid = o.sid
    BY <1>2 DEF LastId
  <1>4. api'[p] # Absent
    BY DEF Exists, Absent
  <1> QED
    BY <1>1, <1>3, <1>4, GoingStays

\* The worker's copy is of an object, and is deleted iff only the operator holds it back.
LEMMA WorksOnStep == TypeOK /\ WorksOn /\ [Next]_vars => WorksOn'
  <1> SUFFICES ASSUME TypeOK, WorksOn, [Next]_vars PROVE WorksOn'
    OBVIOUS
  <1> USE DEF WorksOn, Going
  <1>1. CASE UNCHANGED worker
    BY <1>1 DEF worker
  <1>2. ASSUME pc' = "idle" PROVE WorksOn'
    BY <1>2
  <1>3. ASSUME NEW p \in Pipeds, Load(p) PROVE WorksOn'
    BY <1>3 DEF Load
  <1>4. CASE UpdateStatus
    BY <1>4 DEF UpdateStatus, Return, Continue, TypeOK, WorkerTyped, ObjectType
  <1>5. CASE FindOne \/ FindError \/ FindEnvironment \/ RegisterPiped \/ GetPiped
    BY <1>2, <1>5
       DEF FindOne, FindError, FindEnvironment, RegisterPiped, GetPiped, Return, Continue
  <1>6. CASE ApplySecret \/ ApplyConfigMap \/ ApplyDeployment \/ DisablePiped
    BY <1>2, <1>6 DEF ApplySecret, ApplyConfigMap, ApplyDeployment, DisablePiped, Return, Continue
  <1>7. CASE AddFinalizer \/ RemoveFinalizer \/ Crash
    BY <1>2, <1>7 DEF AddFinalizer, RemoveFinalizer, Crash, Return
  <1>8. CASE Surroundings /\ ~Crash
    BY <1>1, <1>8
       DEF Surroundings, Create, Delete, AddForeign, RemoveForeign, SyncCache, Collect,
           DisableInWebUI, ToggleGate
  <1> QED
    BY <1>1, <1>3, <1>4, <1>5, <1>6, <1>7, <1>8 DEF Next, WorkerStep, vars

\* What becomes of the worker's copy of its object.
LEMMA CopyStep ==
  ASSUME TypeOK, [Next]_vars, NEW p \in Pipeds, p = cur'
  PROVE  \/ pc = "idle" /\ snap' = cache[p]
         \/ p = cur /\ pc # "idle" /\ snap'.uid = snap.uid
              /\ (snap' = snap \/ pc' = "finalize")
  <1>1. TypeOK' /\ WorkerMoves
    BY TypeStep, EveryWorkerMove
  <1>2. pc' # "idle" /\ (pc = "idle" => cur # p)
    BY <1>1, NoPipedAssumption DEF TypeOK, WorkerTyped
  <1> QED
    BY <1>1, <1>2
       DEF WorkerMoves, worker, WorkerLoads, WorkerGoesOn, WorkerFinds, WorkerRecords

\* The informer's copy is at least as new as the worker's: of the incarnation the
\* worker has read, as long as that is there.
LEMMA CacheKnowsStep == IInv /\ CacheKnows /\ [Next]_vars => CacheKnows'
  <1> SUFFICES ASSUME IInv, CacheKnows, [Next]_vars,
                      NEW p \in Pipeds, p = cur', Exists(p)', api'[p].uid = snap'.uid
               PROVE  cache'[p].uid = snap'.uid
    BY DEF CacheKnows, SameIncarnation, Exists
  <1>1. TypeOK /\ cache[p].uid \in Nat /\ snap.uid \in Nat
    BY DEF IInv, TypeOK, ObjectsTyped, WorkerTyped, ObjectType
  <1>2. cache'[p] = cache[p] \/ cache'[p] = api[p]
    BY <1>1, CacheStep
  <1>3. CASE pc = "idle" /\ snap' = cache[p]
    BY <1>1, <1>2, <1>3, OldIncarnation DEF IInv, UidsCreated
  <1>4. CASE p = cur /\ pc # "idle" /\ snap'.uid = snap.uid
    <2>1. SameIncarnation
      BY <1>1, <1>4, OldIncarnation DEF IInv, UidsCreated, SameIncarnation
    <2> QED
      BY <1>2, <1>4, <2>1 DEF CacheKnows, SameIncarnation
  <1> QED
    BY <1>1, <1>3, <1>4, CopyStep

\* An id is recorded only of the incarnation the worker and the informer know.
LEMMA RecordedIsKnownStep ==
  IInv /\ WorksOn /\ CacheKnows /\ RecordedIsKnown /\ [Next]_vars => RecordedIsKnown'
  <1> SUFFICES ASSUME IInv, WorksOn, CacheKnows, RecordedIsKnown, [Next]_vars,
                      NEW p \in Pipeds, api'[p].sid # 0
               PROVE  /\ Exists(p)' /\ cache'[p].uid = api'[p].uid
                      /\ p = cur' => snap'.uid = api'[p].uid
    BY DEF RecordedIsKnown, Exists
  <1>1. TypeOK
    BY DEF IInv
  <1>2. cache'[p] = cache[p] \/ cache'[p] = api[p]
    BY <1>1, CacheStep
  <1>3. ASSUME Exists(p), cache[p].uid = api[p].uid, p = cur => snap.uid = api[p].uid,
               Exists(p)', api'[p].uid = api[p].uid
        PROVE  /\ Exists(p)' /\ cache'[p].uid = api'[p].uid
               /\ p = cur' => snap'.uid = api'[p].uid
    BY <1>1, <1>2, <1>3, CopyStep
  <1>4. CASE IdRecorded(p)
    <2>1. Exists(p) /\ SameIncarnation
      BY <1>4 DEF IdRecorded, WorksOn, Exists, SameIncarnation
    <2> QED
      BY <1>3, <1>4, <2>1 DEF IdRecorded, CacheKnows
  <1>5. CASE SameObject(p)
    BY <1>3, <1>5 DEF SameObject, RecordedIsKnown
  <1>6. CASE FinalizerAdded(p)
    BY <1>3, <1>6 DEF FinalizerAdded, RecordedIsKnown
  <1>7. CASE NewlyCreated(p) \/ api'[p] = Absent
    BY <1>7, AbsentTyped DEF NewlyCreated
  <1> QED
    BY <1>1, <1>4, <1>5, <1>6, <1>7, EveryObjectStep DEF ObjectStep

\* A copy of an object about to end is never overtaken by another id.
LEMMA GoingIsFinalStep == IInv /\ WorksOn /\ GoingIsFinal /\ [Next]_vars => GoingIsFinal'
  <1> SUFFICES ASSUME IInv, WorksOn, GoingIsFinal, [Next]_vars,
                      NEW p \in Pipeds, Exists(p)'
               PROVE  \A o \in {cache'[p]} \cup (IF p = cur' THEN {snap'} ELSE {}) :
                        Going(o) /\ api'[p].uid = o.uid
                          => Going(api'[p]) /\ api'[p].sid = o.sid
    BY DEF GoingIsFinal, LastId, Going, Exists
  <1> DEFINE Lasting(o) == Going(o) /\ api'[p].uid = o.uid
                             => Going(api'[p]) /\ api'[p].sid = o.sid
  <1>1. TypeOK /\ WorksOn'
    BY WorksOnStep DEF IInv
  <1>2. Lasting(cache[p]) /\ Lasting(api[p])
    BY LastIdKept DEF IInv, TypeOK, ObjectsTyped, UidsCreated, GoingIsFinal, LastId
  <1>3. p = cur /\ pc # "idle" => Lasting(snap)
    BY LastIdKept DEF IInv, TypeOK, WorkerTyped, UidsCreated, GoingIsFinal
  <1>4. p = cur' => Lasting(snap')
    BY <1>1, <1>2, <1>3, CopyStep DEF WorksOn, Going
  <1> QED
    BY <1>1, <1>2, <1>4, CacheStep

\* A registration that has been disabled stays so.
LEMMA StaysDisabled ==
  ASSUME TypeOK, [Next]_vars, NEW i \in DOMAIN reg, ~reg[i].enabled
  PROVE  ~reg'[i].enabled
  <1> USE DEF TypeOK, RegistryTyped, Registration
  <1>1. CASE UNCHANGED reg
    BY <1>1
  <1>2. CASE \E r : reg' = Append(reg, r)
    BY <1>2
  <1>3. ASSUME NEW j, reg' = [reg EXCEPT ![j].enabled = FALSE] PROVE ~reg'[i].enabled
    BY <1>3
  <1> QED
    BY <1>1, <1>2, <1>3
       DEF Next, WorkerStep, Surroundings, vars, Load, FindOne, FindError, FindEnvironment,
           RegisterPiped, GetPiped, ApplySecret, ApplyConfigMap, ApplyDeployment, UpdateStatus,
           AddFinalizer, DisablePiped, RemoveFinalizer, Create, Delete, AddForeign,
           RemoveForeign, DisableInWebUI, ToggleGate, SyncCache, Crash, Collect

\* Only what DisablePiped has disabled, or found disabled, loses its finalizer.
LEMMA DisabledFirstStep == IInv /\ DisabledFirst /\ [Next]_vars => DisabledFirst'
  <1> SUFFICES ASSUME IInv, DisabledFirst, [Next]_vars, pc' = "unfinalize", snap'.sid # 0
               PROVE  ~reg'[snap'.sid].enabled
    BY DEF DisabledFirst
  <1>1. TypeOK
    BY DEF IInv
  <1>2. CASE DisablePiped
    <2>1. snap' = snap /\ snap.sid \in DOMAIN reg
      BY <1>1, <1>2 DEF DisablePiped, Return, Continue, TypeOK, IdsRegistered, Ids, RegistryTyped
    <2>2. reg' = [reg EXCEPT ![snap.sid].enabled = FALSE]
      BY <1>2, <2>1 DEF DisablePiped, Return
    <2>3. reg \in Seq(Registration)
      BY <1>1 DEF TypeOK, RegistryTyped
    <2>4. reg[snap.sid] \in Registration
      BY <2>1, <2>3
    <2>5. reg'[snap.sid] = [reg[snap.sid] EXCEPT !.enabled = FALSE]
      BY <2>1, <2>2, <2>3
    <2> QED
      BY <2>1, <2>4, <2>5 DEF Registration
  <1>3. CASE UNCHANGED worker
    <2>1. snap.sid \in DOMAIN reg /\ ~reg[snap.sid].enabled
      BY <1>1, <1>3 DEF worker, DisabledFirst, TypeOK, IdsRegistered, Ids, RegistryTyped
    <2> QED
      BY <1>1, <1>3, <2>1, StaysDisabled DEF worker
  <1> QED
    BY <1>2, <1>3
       DEF Next, WorkerStep, Surroundings, vars, Load, FindOne, FindError, FindEnvironment,
           RegisterPiped, GetPiped, ApplySecret, ApplyConfigMap, ApplyDeployment, UpdateStatus,
           AddFinalizer, RemoveFinalizer, Create, Delete, AddForeign, RemoveForeign,
           DisableInWebUI, ToggleGate, SyncCache, Crash, Collect, Return, Continue

\* Every step keeps the facts about the deletion.
LEMMA DeletionStep == IInv /\ DeletionInv /\ [Next]_vars => DeletionInv'
  BY WorksOnStep, CacheKnowsStep, RecordedIsKnownStep, GoingIsFinalStep, DisabledFirstStep
     DEF DeletionInv, IInv

\* They hold initially.
LEMMA DeletionInit == Init => DeletionInv
  BY NoPipedAssumption
     DEF Init, ObjectsInit, DeletionInv, WorksOn, CacheKnows, RecordedIsKnown, GoingIsFinal,
         LastId, Going, DisabledFirst, Absent, SameIncarnation

\* The operator takes its finalizer off an object only when the piped its
\* status names has been disabled.
THEOREM DisabledBeforeRelease == Spec => DisabledBeforeGone
  <1> DEFINE Released == \A p \in Pipeds :
        api[p].own /\ ~api'[p].own /\ api[p].sid # 0 => ~reg[api[p].sid].enabled
  <1>1. Init => DeletionInv
    BY DeletionInit
  <1>2. ASSUME IInv, DeletionInv, Next PROVE Released
    <2> SUFFICES ASSUME NEW q \in Pipeds, api[q].own, ~api'[q].own, api[q].sid # 0
                 PROVE  ~reg[api[q].sid].enabled
      OBVIOUS
    <2> USE DEF TypeOK, ObjectsTyped, ObjectType, Exists
    <2>1. TypeOK /\ Exists(q)
      BY <1>2 DEF IInv, DeletionInv, RecordedIsKnown
    <2>2. ~UNCHANGED api
      OBVIOUS
    <2>3. ~UpdateStatus /\ ~AddFinalizer
      BY <2>1 DEF UpdateStatus, AddFinalizer, PatchFinalizerIn, PatchGhost, objects, WorkerTyped
    <2>4. ASSUME NEW p \in Pipeds, Create(p) \/ Delete(p) \/ AddForeign(p) \/ RemoveForeign(p)
          PROVE  FALSE
      <3>1. CASE Create(p)
        BY <2>1, <3>1 DEF Create, CreateObject
      <3>2. CASE Delete(p)
        BY <2>1, <3>2 DEF Delete, DeleteObject
      <3>3. CASE AddForeign(p) \/ RemoveForeign(p)
        BY <2>1, <3>3 DEF AddForeign, AddForeignFinalizer, RemoveForeign, RemoveForeignFinalizer
      <3> QED
        BY <2>4, <3>1, <3>2, <3>3
    <2>5. RemoveFinalizer
      BY <1>2, <2>2, <2>3, <2>4
         DEF Next, WorkerStep, Surroundings, objects, Load, FindOne, FindError,
             FindEnvironment, RegisterPiped, GetPiped, ApplySecret, ApplyConfigMap,
             ApplyDeployment, DisablePiped, DisableInWebUI, ToggleGate, SyncCache, CatchUp,
             Collect, Crash
    <2>6. q = cur /\ pc = "unfinalize"
      BY <2>1, <2>5
         DEF RemoveFinalizer, PatchFinalizerOut, PatchGhost, objects, WorkerTyped
    <2>7. Going(snap) /\ snap.uid = api[q].uid
      BY <1>2, <2>6 DEF DeletionInv, WorksOn, RecordedIsKnown
    <2>8. snap.sid = api[q].sid
      BY <1>2, <2>1, <2>6, <2>7 DEF DeletionInv, GoingIsFinal, LastId
    <2> QED
      BY <1>2, <2>6, <2>8 DEF DeletionInv, DisabledFirst
  <1>3. IInv /\ DeletionInv /\ [Next]_vars => [Released]_vars
    BY <1>2
  <1> QED
    BY <1>1, <1>3, DeletionStep, Invariance, PTL DEF Spec, DisabledBeforeGone

-----------------------------------------------------------------------------
(* Objects that all have one name, while no call fails after which a key   *)
(* is lost: the key in the cache, the registration, the Secret             *)

\* The cached key is the key of the piped that is enabled, unless a piped has
\* just been registered whose key has not been fetched yet.
CachedIsEnabled ==
  \A i \in DOMAIN reg : reg[i].enabled => keyCache \in {0, i} \/ (pc = "get" /\ id = i)

\* The worker that writes children writes the key of the id it writes, and has
\* done so as long as the object is the one it has read.
KeyOfId == pc \in {"secret", "configmap", "deployment"} => keyCache = id

SecretOfId ==
  pc \in {"configmap", "deployment"} /\ SameIncarnation => secret[cur].val = id

KeyInv == CachedIsEnabled /\ KeyOfId /\ SecretOfId

\* Every registration is of a name in use.
LEMMA RegisteredNames ==
  ASSUME TypeOK, NEW i \in DOMAIN reg
  PROVE  reg[i].name \in Names
  <1>1. reg[i] \in Registration
    BY DEF TypeOK, RegistryTyped
  <1> QED
    BY <1>1 DEF Registration

\* With one name for all of them, at most one piped is enabled at all.
LEMMA OnlyOneEnabled ==
  ASSUME \A p, q \in Pipeds : NameOf[p] = NameOf[q], TypeOK, OneEnabled,
         NEW i \in DOMAIN reg, NEW j \in DOMAIN reg, reg[i].enabled, reg[j].enabled
  PROVE  i = j
  <1>1. reg[i].name \in Names /\ reg[j].name \in Names
    BY RegisteredNames
  <1> QED
    BY <1>1 DEF OneEnabled, Names

\* Every step keeps the cached key and the enabled piped together.
LEMMA CachedStep ==
  ASSUME {"list", "lost", "get"} \cap Disturbances = {},
         \A p, q \in Pipeds : NameOf[p] = NameOf[q],
         TypeOK, FoundOwnName, OneEnabled, CachedIsEnabled, [Next]_vars
  PROVE  CachedIsEnabled'
  <1> USE DEF CachedIsEnabled
  <1>0. reg \in Seq(Registration) /\ (pc # "idle" => cur \in Pipeds)
    BY DEF TypeOK, RegistryTyped, WorkerTyped
  <1>1. ASSUME UNCHANGED <<reg, keyCache>>, pc = "get" => UNCHANGED <<pc, id>>
        PROVE  CachedIsEnabled'
    BY <1>1
  <1>2. CASE GetPiped
    <2>1. CASE reg[id].enabled /\ keyCache' = id /\ UNCHANGED reg
      <3>1. \A i \in DOMAIN reg : reg[i].enabled => i = id
        BY <1>2, <2>1, OnlyOneEnabled DEF GetPiped, FoundOwnName
      <3> QED
        BY <2>1, <3>1
    <2>2. CASE ~reg[id].enabled /\ UNCHANGED <<reg, keyCache>>
      BY <2>2
    <2> QED
      BY <1>2, <2>1, <2>2 DEF GetPiped, Disturb
  <1>3. CASE RegisterPiped
    <2>1. CASE UNCHANGED reg
      BY <1>1, <1>3, <2>1 DEF RegisterPiped
    <2>2. CASE /\ reg' = Append(reg, [name |-> NameOf[cur], enabled |-> TRUE])
               /\ pc' = "get" /\ id' = Len(reg) + 1
      <3>1. \A i \in DOMAIN reg : ~reg[i].enabled
        <4> SUFFICES ASSUME NEW i \in DOMAIN reg, reg[i].enabled PROVE FALSE
          OBVIOUS
        <4>1. reg[i].name \in Names /\ cur \in Pipeds /\ Enabled(NameOf[cur]) = {}
          BY <1>0, <1>3, RegisteredNames DEF RegisterPiped, OneEnabled
        <4>2. reg[i].name = NameOf[cur]
          BY <4>1 DEF Names
        <4> QED
          BY <4>1, <4>2 DEF Enabled
      <3>2. \A i \in DOMAIN reg' : i = Len(reg) + 1 \/ (i \in DOMAIN reg /\ reg'[i] = reg[i])
        BY <1>0, <2>2
      <3> QED
        BY <2>2, <3>1, <3>2
    <2> QED
      BY <1>3, <2>1, <2>2 DEF RegisterPiped, Disturb, Continue
  <1>4. ASSUME NEW i, reg' = [reg EXCEPT ![i].enabled = FALSE], UNCHANGED keyCache,
               pc = "get" => UNCHANGED <<pc, id>>
        PROVE  CachedIsEnabled'
    BY <1>4, DisableKeepsOne
  <1>5. CASE Crash
    BY <1>5 DEF Crash
  <1>6. CASE DisablePiped \/ \E i \in DOMAIN reg : DisableInWebUI(i)
    BY <1>1, <1>4, <1>6 DEF DisablePiped, DisableInWebUI, worker
  <1>7. CASE Surroundings /\ UNCHANGED <<reg, keyCache, worker>>
    BY <1>1, <1>7 DEF worker
  <1>8. CASE UNCHANGED vars
    BY <1>1, <1>8 DEF vars, worker
  <1>9. CASE \/ \E p \in Pipeds : Load(p)
             \/ FindOne \/ FindError \/ FindEnvironment \/ ApplySecret \/ ApplyConfigMap
             \/ ApplyDeployment \/ UpdateStatus \/ AddFinalizer \/ RemoveFinalizer
    BY <1>1, <1>9
       DEF Load, FindOne, FindError, FindEnvironment, ApplySecret, ApplyConfigMap,
           ApplyDeployment, UpdateStatus, AddFinalizer, RemoveFinalizer
  <1>10. Surroundings => \/ Crash \/ \E i \in DOMAIN reg : DisableInWebUI(i)
                         \/ UNCHANGED <<reg, keyCache, worker>>
    BY DEF Surroundings, Create, Delete, AddForeign, RemoveForeign, SyncCache, Collect, ToggleGate
  <1> QED
    BY <1>2, <1>3, <1>5, <1>6, <1>7, <1>8, <1>9, <1>10 DEF Next, WorkerStep

\* The worker goes on with the id whose key it holds.
LEMMA KeyOfIdStep ==
  TypeOK /\ CachedIsEnabled /\ KeyOfId /\ [Next]_vars => KeyOfId'
  <1> SUFFICES ASSUME TypeOK, CachedIsEnabled, KeyOfId, [Next]_vars,
                      pc' \in {"secret", "configmap", "deployment"}
               PROVE  keyCache' = id'
    BY DEF KeyOfId
  <1>1. CASE FindOne
    <2>1. PICK i \in DOMAIN reg : reg[i].enabled /\ keyCache # 0 /\ id' = i /\ pc = "find"
      BY <1>1 DEF FindOne, Return, Enabled
    <2> QED
      BY <1>1, <2>1 DEF FindOne, CachedIsEnabled
  <1>2. CASE GetPiped
    BY <1>2 DEF GetPiped, Return, Continue
  <1>3. CASE ApplySecret \/ ApplyConfigMap
    BY <1>3 DEF ApplySecret, ApplyConfigMap, Return, Continue, KeyOfId
  <1>4. CASE UNCHANGED <<worker, keyCache>>
    BY <1>4 DEF worker, KeyOfId
  <1>5. ~Crash
    BY DEF Crash, Return
  <1>6. Surroundings => UNCHANGED <<worker, keyCache>>
    BY <1>5 DEF Surroundings, Create, Delete, AddForeign, RemoveForeign, SyncCache, Collect,
                DisableInWebUI, ToggleGate
  <1>7. ASSUME \/ \E p \in Pipeds : Load(p)
               \/ FindError \/ FindEnvironment \/ RegisterPiped \/ ApplyDeployment
               \/ UpdateStatus \/ AddFinalizer \/ DisablePiped \/ RemoveFinalizer
        PROVE  FALSE
    BY <1>7
       DEF Load, FindError, FindEnvironment, RegisterPiped, ApplyDeployment, UpdateStatus,
           AddFinalizer, DisablePiped, RemoveFinalizer, Return, Continue
  <1> QED
    BY <1>1, <1>2, <1>3, <1>4, <1>6, <1>7 DEF Next, WorkerStep, vars

\* The Secret keeps the key of the id the worker goes on with.
LEMMA SecretOfIdStep ==
  IInv /\ ChildrenInv /\ KeyOfId /\ SecretOfId /\ [Next]_vars => SecretOfId'
  <1> SUFFICES ASSUME IInv, ChildrenInv, KeyOfId, SecretOfId, [Next]_vars,
                      pc' \in {"configmap", "deployment"}, SameIncarnation'
               PROVE  secret'[cur'].val = id'
    BY DEF SecretOfId
  <1>0. TypeOK /\ (pc # "idle" => cur \in Pipeds)
    BY DEF IInv, TypeOK, WorkerTyped
  <1>1. CASE ApplySecret
    BY <1>0, <1>1 DEF ApplySecret, Return, Continue, KeyOfId, TypeOK, ChildrenTyped
  <1>2. CASE ApplyConfigMap
    BY <1>2 DEF ApplyConfigMap, Return, Continue, SecretOfId, SameIncarnation, Exists, objects
  <1>3. ASSUME UNCHANGED worker, UNCHANGED children \/ \E p \in Pipeds : Collect(p)
        PROVE  secret'[cur'].val = id'
    <2>1. SameIncarnation /\ pc \in {"configmap", "deployment"}
      BY <1>3, WorkerIncarnation DEF worker
    <2>2. secret'[cur] = secret[cur]
      BY <1>0, <1>3, <2>1
         DEF Collect, Orphan, SameIncarnation, TypeOK, ChildrenTyped, children, ChildrenInv,
             SecretApplied
    <2> QED
      BY <1>3, <2>1, <2>2 DEF worker, SecretOfId
  <1>4. ~Crash
    BY DEF Crash, Return
  <1>5. CASE Surroundings
    BY <1>3, <1>4, <1>5
       DEF Surroundings, Create, Delete, AddForeign, RemoveForeign, SyncCache, Collect,
           DisableInWebUI, ToggleGate
  <1>6. CASE UNCHANGED vars
    BY <1>3, <1>6 DEF vars
  <1>7. ASSUME \/ \E p \in Pipeds : Load(p)
               \/ FindOne \/ FindError \/ FindEnvironment \/ RegisterPiped \/ GetPiped
               \/ ApplyDeployment \/ UpdateStatus \/ AddFinalizer \/ DisablePiped
               \/ RemoveFinalizer
        PROVE  FALSE
    BY <1>7
       DEF Load, FindOne, FindError, FindEnvironment, RegisterPiped, GetPiped,
           ApplyDeployment, UpdateStatus, AddFinalizer, DisablePiped, RemoveFinalizer,
           Return, Continue
  <1> QED
    BY <1>1, <1>2, <1>5, <1>6, <1>7 DEF Next, WorkerStep

\* While no call fails after which a registration's key is lost, and all objects
\* have one name, a Deployment of an object that still exists is given a new id
\* only when the Secret already holds the key of this id.
THEOREM KeyMatchesId ==
  ASSUME {"list", "lost", "get"} \cap Disturbances = {},
         \A p, q \in Pipeds : NameOf[p] = NameOf[q]
  PROVE  Spec => KeyBelongsToId
  <1> DEFINE Matching ==
        \A p \in Pipeds :
          /\ deployment'[p] # deployment[p] /\ deployment'[p] # NoChild
          /\ Exists(p) /\ api[p].uid = deployment'[p].owner
          => secret[p].val = deployment'[p].val
  <1>1. Init => ChildrenInv /\ OneEnabled /\ KeyInv
    BY DEF Init, ChildrenInv, KeyHeld, SecretApplied, ConfigApplied, OneEnabled, KeyInv,
           CachedIsEnabled, KeyOfId, SecretOfId
  <1>2. IInv /\ ChildrenInv /\ OneEnabled /\ KeyInv /\ [Next]_vars => OneEnabled' /\ KeyInv'
    <2>1. "list" \notin Disturbances
      OBVIOUS
    <2> QED
      BY <2>1, OneEnabledStep, CachedStep, KeyOfIdStep, SecretOfIdStep DEF KeyInv, IInv
  <1>3. ASSUME IInv, KeyInv, Next PROVE Matching
    <2> SUFFICES ASSUME NEW p \in Pipeds,
                        deployment'[p] # deployment[p], deployment'[p] # NoChild,
                        Exists(p), api[p].uid = deployment'[p].owner
                 PROVE  secret[p].val = deployment'[p].val
      OBVIOUS
    <2>1. /\ p = cur /\ pc = "deployment"
          /\ deployment'[p] = [val |-> id, owner |-> snap.uid]
      BY <1>3, RolloutStep DEF IInv
    <2> QED
      BY <1>3, <2>1 DEF KeyInv, SecretOfId, SameIncarnation
  <1>4. IInv /\ KeyInv /\ [Next]_vars => [Matching]_vars
    BY <1>3
  <1> QED
    BY <1>1, <1>2, <1>4, ChildrenStep, Invariance, PTL DEF Spec, KeyBelongsToId

\* Unless ListPipeds fails, a piped is registered only when no piped of its name
\* is enabled, however the reconciles of several objects and people interleave.
THEOREM RegisteredIfMissing ==
  ASSUME "list" \notin Disturbances
  PROVE  Spec => CreatedOnlyIfMissing
  <1> DEFINE Missing == Len(reg') > Len(reg) => Enabled(reg'[Len(reg')].name) = {}
  <1>1. Init => OneEnabled
    BY DEF Init, OneEnabled
  <1>2. ASSUME TypeOK, OneEnabled, Next PROVE Missing
    <2> SUFFICES ASSUME Len(reg') > Len(reg) PROVE Enabled(reg'[Len(reg')].name) = {}
      OBVIOUS
    <2>1. reg \in Seq(Registration)
      BY <1>2 DEF TypeOK, RegistryTyped
    <2>2. ~UNCHANGED reg
      BY <2>1
    <2>3. ASSUME NEW i, reg' = [reg EXCEPT ![i].enabled = FALSE] PROVE FALSE
      BY <2>1, <2>3
    <2>4. RegisterPiped
      BY <1>2, <2>2, <2>3
         DEF Next, WorkerStep, Surroundings, Load, FindOne, FindError, FindEnvironment,
             GetPiped, ApplySecret, ApplyConfigMap, ApplyDeployment, UpdateStatus,
             AddFinalizer, DisablePiped, RemoveFinalizer, Create, Delete, AddForeign,
             RemoveForeign, DisableInWebUI, ToggleGate, SyncCache, Crash, Collect, Return
    <2>5. reg' = Append(reg, [name |-> NameOf[cur], enabled |-> TRUE]) /\ pc = "register"
      BY <2>2, <2>4 DEF RegisterPiped
    <2>6. reg'[Len(reg')].name = NameOf[cur]
      BY <2>1, <2>5
    <2> QED
      BY <1>2, <2>5, <2>6 DEF OneEnabled
  <1>3. TypeOK /\ OneEnabled /\ [Next]_vars => [Missing]_vars
    BY <1>2
  <1>4. TypeOK /\ OneEnabled /\ [Next]_vars => OneEnabled'
    BY OneEnabledStep
  <1> QED
    BY <1>1, <1>3, <1>4, TypeCorrect, PTL DEF Spec, CreatedOnlyIfMissing

-----------------------------------------------------------------------------
(* whose registration the operator disables *)

\* The registration that an object's status names is disabled by the operator only
\* once nothing but the operator's finalizer holds a deleted object back: not that
\* of a later object of the name, nor on the strength of an old copy.
OnlyTheDeletedDisabled ==
  [][WorkerStep =>
       \A p \in Pipeds :
         api[p].sid # 0 /\ ~Going(api[p]) =>
           (reg'[api[p].sid].enabled <=> reg[api[p].sid].enabled)]_vars

\* Each Piped under a name of its own, the operator disables no registration but
\* that of a deleted object, whatever old copies it works from.
THEOREM DisablesTheDeletedOnly ==
  ASSUME \A p, q \in Pipeds : NameOf[p] = NameOf[q] => p = q
  PROVE  Spec => OnlyTheDeletedDisabled
  <1> DEFINE Untouched ==
        WorkerStep =>
          \A p \in Pipeds :
            api[p].sid # 0 /\ ~Going(api[p]) =>
              (reg'[api[p].sid].enabled <=> reg[api[p].sid].enabled)
  <1>1. ASSUME IInv, DeletionInv, Next PROVE Untouched
    <2> SUFFICES ASSUME WorkerStep, NEW p \in Pipeds, api[p].sid # 0, ~Going(api[p])
                 PROVE  reg'[api[p].sid].enabled <=> reg[api[p].sid].enabled
      OBVIOUS
    <2>1. /\ reg \in Seq(Registration) /\ (pc # "idle" => cur \in Pipeds)
          /\ api[p].sid \in DOMAIN reg /\ reg[api[p].sid].name = NameOf[p]
      BY <1>1 DEF IInv, TypeOK, RegistryTyped, WorkerTyped, StatusRecorded, Recorded
    <2>2. CASE UNCHANGED reg
      BY <2>2
    <2>3. CASE RegisterPiped
      BY <2>1, <2>3 DEF RegisterPiped
    <2>4. CASE DisablePiped /\ ~UNCHANGED reg
      <3>1. /\ pc = "disable" /\ snap.sid # 0
            /\ reg' = [reg EXCEPT ![snap.sid].enabled = FALSE]
        BY <2>4 DEF DisablePiped
      <3>2. reg[snap.sid].name = NameOf[cur] /\ snap.sid \in DOMAIN reg
        BY <1>1, <3>1 DEF IInv, StatusRecorded, Recorded
      <3>3. snap.sid # api[p].sid
        <4> SUFFICES ASSUME snap.sid = api[p].sid PROVE FALSE
          OBVIOUS
        <4>1. p = cur
          BY <2>1, <3>1, <3>2
        <4>2. Exists(p) /\ snap.uid = api[p].uid /\ Going(snap)
          BY <1>1, <3>1, <4>1 DEF DeletionInv, RecordedIsKnown, WorksOn
        <4> QED
          BY <1>1, <4>1, <4>2 DEF DeletionInv, GoingIsFinal, LastId
      <3> QED
        BY <2>1, <3>1, <3>2, <3>3
    <2> QED
      BY <2>2, <2>3, <2>4
         DEF WorkerStep, FindOne, FindError, FindEnvironment, GetPiped, ApplySecret,
             ApplyConfigMap, ApplyDeployment, UpdateStatus, AddFinalizer, RemoveFinalizer
  <1>2. IInv /\ DeletionInv /\ [Next]_vars => [Untouched]_vars
    BY <1>1
  <1> QED
    BY <1>2, DeletionInit, DeletionStep, Invariance, PTL DEF Spec, OnlyTheDeletedDisabled

=============================================================================
