-------------------- MODULE EnvironmentControllerProofs --------------------
(***************************************************************************)
(* Safety of the Environment controller, for any objects, names,           *)
(* disturbances and bounds.                                                *)
(***************************************************************************)
EXTENDS EnvironmentController, FiniteSetTheorems, TLAPS

\* The id in a copy of object e, if any, is of an environment of e's name.
NamedAs(o, e) == o.sid # 0 => o.sid \in DOMAIN added /\ added[o.sid] = NameOf[e]

\* A copy is of no incarnation still to come, and of one if it is of any object.
Incarnated(o, e) ==
  /\ o.uid <= created[e]
  /\ o.phase = "absent" => o = Absent
  /\ o.phase # "absent" => o.uid # 0

\* An id once recorded in an object's status stays as long as the object.
Kept(o, e) == Exists(e) /\ api[e].uid = o.uid /\ o.sid # 0 => api[e].sid = o.sid

\* What holds of every copy of an object.
Good(o, e) == NamedAs(o, e) /\ Incarnated(o, e) /\ Kept(o, e)

CopiesGood ==
  /\ \A e \in Environments : Good(api[e], e) /\ Good(cache[e], e)
  /\ pc # "idle" => snap.phase # "absent" /\ Good(snap, cur)

\* The environment the worker has found has the name of its object and is the
\* one recorded before, if any.
FoundOwn ==
  /\ pc \in {"status", "finalize"} => id \in DOMAIN added /\ added[id] = NameOf[cur]
  /\ pc = "status" => snap.sid \in {0, id}
  /\ pc = "finalize" => snap.sid = id

IInv == TypeOK /\ CopiesGood /\ FoundOwn /\ FinalizerAfterId

-----------------------------------------------------------------------------
(* objects *)

\* The object that does not exist is an object.
LEMMA AbsentTyped ==
  /\ Absent \in ObjectType /\ Absent.sid = 0 /\ Absent.uid = 0
  /\ Absent.phase = "absent" /\ ~Absent.own /\ ~Absent.foreign
  BY DEF Absent, ObjectType

\* What a step makes of object e: the same, changed in nothing that matters
\* here; nothing; a new one; the same with its id or with the finalizer.
Same(e, o) ==
  /\ o.sid = api[e].sid /\ o.uid = api[e].uid
  /\ Exists(e) /\ o.phase # "absent"
  /\ o.own => api[e].own /\ o.finBy = api[e].finBy
  /\ UNCHANGED created

Gone(o) == o = Absent /\ UNCHANGED created

New(e, o) ==
  /\ o.sid = 0 /\ o.uid = created[e] + 1 /\ o.phase = "live"
  /\ o.own => e = cur /\ pc = "finalize" /\ o.finBy = snap.uid
  /\ created' = [created EXCEPT ![e] = created[e] + 1]

WithId(e, o) ==
  /\ pc = "status" /\ e = cur /\ api[e] = snap /\ snap.sid # id
  /\ o = [snap EXCEPT !.sid = id]
  /\ UNCHANGED created

WithFinalizer(e, o) ==
  /\ pc = "finalize" /\ e = cur /\ Exists(e)
  /\ o.sid = api[e].sid /\ o.uid = api[e].uid /\ o.phase # "absent" /\ o.finBy = snap.uid
  /\ UNCHANGED created

Becomes(e, o) ==
  /\ api' = [api EXCEPT ![e] = o]
  /\ Same(e, o) \/ Gone(o) \/ New(e, o) \/ WithId(e, o) \/ WithFinalizer(e, o)

ObjectsStep ==
  UNCHANGED <<api, created>> \/ \E e \in Environments, o \in ObjectType : Becomes(e, o)

\* A finalizer patch that finds no object makes one.
LEMMA GhostStep ==
  ASSUME TypeOK, NEW e \in Environments, NEW b \in BOOLEAN, PatchGhost(e, b, snap.uid),
         b => e = cur /\ pc = "finalize"
  PROVE  ObjectsStep
  <1> DEFINE m == IF b THEN snap.uid ELSE 0
             n == created[e] + 1
             o == [Absent EXCEPT !.phase = "live", !.ghost = TRUE, !.uid = n,
                                 !.own = b, !.finBy = m]
  <1>1. n \in Nat /\ m \in Nat
    BY DEF TypeOK, ObjectsTyped, ObjectType
  <1>2. api' = [api EXCEPT ![e] = o] /\ created' = [created EXCEPT ![e] = n]
    BY DEF PatchGhost, TypeOK, ObjectsTyped
  <1>3. /\ o \in ObjectType /\ o.sid = 0 /\ o.uid = n /\ o.own = b /\ o.finBy = m
        /\ o.phase = "live"
    <2> HIDE DEF n, m
    <2> QED
      BY <1>1 DEF Absent, ObjectType
  <1> HIDE DEF o
  <1>4. New(e, o)
    BY <1>2, <1>3 DEF New
  <1> QED
    BY <1>2, <1>3, <1>4 DEF ObjectsStep, Becomes

\* Every step makes one of these of the objects.
LEMMA EveryObjectsStep ==
  ASSUME TypeOK, [Next]_vars, \A e \in Environments : ~Exists(e) => api[e] = Absent
  PROVE  ObjectsStep
  <1>0. /\ \A e \in Environments : api[e] \in ObjectType /\ created[e] \in Nat
        /\ pc # "idle" => cur \in Environments
        /\ snap \in ObjectType /\ snap.uid \in Nat /\ id \in Nat
    BY DEF TypeOK, ObjectsTyped, Ids, ObjectType
  <1>1. CASE UNCHANGED <<api, created>>
    BY <1>1 DEF ObjectsStep
  <1>a. ASSUME NEW e \in Environments, Exists(e), UNCHANGED created,
               NEW u \in {[api[e] EXCEPT !.ghost = FALSE], [api[e] EXCEPT !.foreign = TRUE],
                          [api[e] EXCEPT !.foreign = FALSE],
                          [api[e] EXCEPT !.phase = "deleting"], Absent},
               api' = [api EXCEPT ![e] = u]
        PROVE  ObjectsStep
    <2>1. CASE u = Absent
      BY <1>a, <2>1, AbsentTyped DEF ObjectsStep, Becomes, Gone
    <2>2. CASE u # Absent
      <3>1. PICK b \in BOOLEAN : u \in {[api[e] EXCEPT !.ghost = b],
                                        [api[e] EXCEPT !.foreign = b],
                                        [api[e] EXCEPT !.phase = "deleting"]}
        BY <1>a, <2>2
      <3>2. u \in ObjectType /\ Same(e, u)
        <4>1. api[e] \in ObjectType
          BY <1>0
        <4>2. /\ u \in ObjectType /\ u.sid = api[e].sid /\ u.uid = api[e].uid
              /\ u.own = api[e].own /\ u.finBy = api[e].finBy
              /\ u.phase = api[e].phase \/ u.phase = "deleting"
          BY <3>1, <4>1 DEF ObjectType
        <4> QED
          BY <1>a, <4>2 DEF Same, Exists
      <3> QED
        BY <1>a, <3>2 DEF ObjectsStep, Becomes
    <2> QED
      BY <2>1, <2>2
  <1>2. ASSUME NEW e \in Environments, Create(e) PROVE ObjectsStep
    <2>1. CASE ~Exists(e)
      <3> DEFINE n == created[e] + 1
                 o == [Absent EXCEPT !.phase = "live", !.uid = n]
      <3>1. n \in Nat
        BY <1>0
      <3>2. api' = [api EXCEPT ![e] = o] /\ created' = [created EXCEPT ![e] = n]
        BY <1>2, <2>1 DEF Create, CreateObject, Exists
      <3>3. o \in ObjectType /\ o.sid = 0 /\ o.uid = n /\ ~o.own /\ o.phase = "live"
        <4> HIDE DEF n
        <4> QED
          BY <3>1 DEF Absent, ObjectType
      <3> HIDE DEF o
      <3>4. New(e, o)
        BY <3>2, <3>3 DEF New
      <3> QED
        BY <3>2, <3>3, <3>4 DEF ObjectsStep, Becomes
    <2>2. CASE Exists(e)
      BY <1>2, <1>a, <2>2 DEF Create, CreateObject
    <2> QED
      BY <2>1, <2>2
  <1>3. ASSUME NEW e \in Environments, Delete(e) PROVE ObjectsStep
    BY <1>3, <1>a DEF Delete, DeleteObject, Exists
  <1>4. ASSUME NEW e \in Environments, AddForeign(e) \/ RemoveForeign(e) PROVE ObjectsStep
    <2>1. Exists(e)
      BY <1>4, AbsentTyped
         DEF AddForeign, AddForeignFinalizer, RemoveForeign, RemoveForeignFinalizer, Exists
    <2> QED
      BY <1>4, <1>a, <2>1
         DEF AddForeign, AddForeignFinalizer, RemoveForeign, RemoveForeignFinalizer
  <1>5. CASE UpdateStatus
    <2> DEFINE o == [snap EXCEPT !.sid = id]
    <2>1. CASE UNCHANGED api
      BY <1>1, <1>5, <2>1 DEF UpdateStatus
    <2>2. CASE ~UNCHANGED api
      <3>1. /\ pc = "status" /\ snap.sid # id /\ api[cur] = snap /\ UNCHANGED created
            /\ api' = [api EXCEPT ![cur].sid = id]
        BY <1>5, <2>2 DEF UpdateStatus
      <3>2. api' = [api EXCEPT ![cur] = o]
        BY <3>1
      <3>3. o \in ObjectType /\ WithId(cur, o)
        BY <1>0, <3>1 DEF WithId, ObjectType
      <3> QED
        BY <1>0, <3>1, <3>2, <3>3 DEF ObjectsStep, Becomes
    <2> QED
      BY <2>1, <2>2
  <1>6. CASE AddFinalizer
    <2>1. pc = "finalize" /\ cur \in Environments
      BY <1>0, <1>6 DEF AddFinalizer, PatchFinalizerIn
    <2>2. CASE PatchGhost(cur, TRUE, snap.uid)
      BY <2>1, <2>2, GhostStep
    <2>3. CASE /\ Exists(cur) /\ UNCHANGED created
               /\ api' = [api EXCEPT ![cur].own = TRUE, ![cur].finBy = snap.uid]
      <3> DEFINE o == [api[cur] EXCEPT !.own = TRUE, !.finBy = snap.uid]
      <3>1. api' = [api EXCEPT ![cur] = o]
        BY <2>1, <2>3
      <3>2. /\ o \in ObjectType /\ o.sid = api[cur].sid /\ o.uid = api[cur].uid
            /\ o.phase = api[cur].phase /\ o.finBy = snap.uid
        BY <1>0, <2>1 DEF ObjectType
      <3> HIDE DEF o
      <3>3. WithFinalizer(cur, o)
        BY <2>1, <2>3, <3>2 DEF WithFinalizer, Exists
      <3> QED
        BY <2>1, <3>1, <3>2, <3>3 DEF ObjectsStep, Becomes
    <2> QED
      BY <1>1, <1>6, <2>2, <2>3 DEF AddFinalizer, PatchFinalizerIn, Exists, objects
  <1>7. CASE RemoveFinalizer
    <2>1. cur \in Environments
      BY <1>0, <1>7 DEF RemoveFinalizer, PatchFinalizerOut
    <2>2. CASE PatchGhost(cur, FALSE, 0)
      <3>1. PatchGhost(cur, FALSE, snap.uid)
        BY <2>2 DEF PatchGhost
      <3> QED
        BY <2>1, <3>1, GhostStep
    <2>3. CASE Exists(cur) /\ api' = [api EXCEPT ![cur] = WithoutOwn(@)] /\ UNCHANGED created
      <3>1. WithoutOwn(api[cur]) \in ObjectType
            /\ (Same(cur, WithoutOwn(api[cur])) \/ Gone(WithoutOwn(api[cur])))
        BY <1>0, <2>1, <2>3, AbsentTyped DEF WithoutOwn, Same, Gone, ObjectType, Exists
      <3> QED
        BY <2>1, <2>3, <3>1 DEF ObjectsStep, Becomes
    <2> QED
      BY <1>1, <1>7, <2>2, <2>3 DEF RemoveFinalizer, PatchFinalizerOut, objects
  <1> QED
    BY <1>1, <1>2, <1>3, <1>4, <1>5, <1>6, <1>7
       DEF Next, WorkerStep, Surroundings, vars, objects, Load, FindEnvironment,
           AddEnvironment, FindAdded, SyncCache, CatchUp, ToggleGate, Crash

-----------------------------------------------------------------------------
(* the worker, the informer and the server *)

\* What a step may do to the worker: nothing; the return; the load of an object;
\* the way to another look; the finding of an environment; the status update.
Returns == pc' = "idle" /\ cur' = NoEnvironment /\ snap' = Absent /\ id' = 0

Loads ==
  /\ pc = "idle" /\ pc' \in {"find", "unfinalize"} /\ id' = 0
  /\ cur' \in Environments /\ snap' = cache[cur'] /\ snap'.phase # "absent"

LooksAgain == pc \in {"find", "add"} /\ pc' \in {"add", "refind"} /\ UNCHANGED <<cur, snap, id>>

Finds ==
  /\ pc \in {"find", "refind"} /\ pc' = "status" /\ UNCHANGED <<cur, snap, added>>
  /\ Wanted = {id'}

Records ==
  /\ pc = "status" /\ pc' = "finalize" /\ UNCHANGED <<cur, id>>
  /\ \/ snap' = snap /\ snap.sid = id
     \/ /\ snap' = [snap EXCEPT !.sid = id]
        /\ api[cur] = snap /\ api' = [api EXCEPT ![cur] = snap']

WorkerMoves == UNCHANGED worker \/ Returns \/ Loads \/ LooksAgain \/ Finds \/ Records

\* Every step makes one of these of the worker.
LEMMA EveryWorkerMove ==
  ASSUME TypeOK, [Next]_vars
  PROVE  WorkerMoves
  <1> USE DEF WorkerMoves
  <1>1. ASSUME NEW e \in Environments, Load(e) PROVE WorkerMoves
    BY <1>1 DEF Load, Loads
  <1>2. CASE FindEnvironment
    BY <1>2 DEF FindEnvironment, Found, Continue, LooksAgain, Finds
  <1>3. CASE AddEnvironment
    BY <1>3 DEF AddEnvironment, Continue, LooksAgain, Return, Returns
  <1>4. CASE FindAdded
    BY <1>4 DEF FindAdded, Found, Continue, Finds, Return, Returns
  <1>5. CASE UpdateStatus
    <2>1. CASE snap' = [snap EXCEPT !.sid = id] /\ pc' = "finalize" /\ snap.sid # id
               /\ api[cur] = snap /\ api' = [api EXCEPT ![cur].sid = id] /\ UNCHANGED <<cur, id>>
      BY <1>5, <2>1 DEF UpdateStatus, Records
    <2>2. CASE Continue("finalize") /\ snap.sid = id /\ UNCHANGED id
      BY <1>5, <2>2 DEF UpdateStatus, Continue, Records
    <2> QED
      BY <1>5, <2>1, <2>2 DEF UpdateStatus, Return, Returns
  <1>6. CASE AddFinalizer \/ RemoveFinalizer \/ Crash
    BY <1>6 DEF AddFinalizer, PatchFinalizerIn, RemoveFinalizer, PatchFinalizerOut, Crash,
                Return, Returns
  <1>7. CASE Surroundings /\ ~Crash
    BY <1>7 DEF Surroundings, worker, Create, Delete, AddForeign, RemoveForeign, SyncCache,
                ToggleGate
  <1> QED
    BY <1>1, <1>2, <1>3, <1>4, <1>5, <1>6, <1>7 DEF Next, WorkerStep, vars, worker

\* The informer's copy stays as it is or becomes the object of this moment.
LEMMA CacheStep ==
  ASSUME TypeOK, [Next]_vars
  PROVE  /\ cache' \in [Environments -> ObjectType]
         /\ \A e \in Environments : cache'[e] \in {cache[e], api[e]}
  BY DEF TypeOK, ObjectsTyped, objects, Next, WorkerStep, Surroundings, vars, Load,
         FindEnvironment, AddEnvironment, FindAdded, UpdateStatus, AddFinalizer,
         PatchFinalizerIn, RemoveFinalizer, PatchFinalizerOut, Create, CreateObject, Delete,
         DeleteObject, AddForeign, AddForeignFinalizer, RemoveForeign,
         RemoveForeignFinalizer, ToggleGate, SyncCache, CatchUp, Crash

\* An environment once added keeps its id and its name, and only the worker adds.
LEMMA AddedStep ==
  ASSUME TypeOK, [Next]_vars
  PROVE  /\ added' \in Seq({NameOf[e] : e \in Environments})
         /\ Len(added) <= Len(added')
         /\ \A i \in DOMAIN added : i \in DOMAIN added' /\ added'[i] = added[i] /\ i # 0
  <1>0. added \in Seq({NameOf[e] : e \in Environments})
    BY DEF TypeOK
  <1>1. CASE UNCHANGED added
    BY <1>0, <1>1
  <1>2. CASE AddEnvironment
    <2>1. CASE added' = Append(added, NameOf[cur])
      <3>1. NameOf[cur] \in {NameOf[e] : e \in Environments}
        BY <1>2 DEF AddEnvironment, TypeOK
      <3> QED
        BY <1>0, <2>1, <3>1
    <2> QED
      BY <1>1, <1>2, <2>1 DEF AddEnvironment
  <1> QED
    BY <1>1, <1>2
       DEF Next, WorkerStep, Surroundings, vars, Load, FindEnvironment, FindAdded,
           UpdateStatus, AddFinalizer, RemoveFinalizer, Create, Delete, AddForeign,
           RemoveForeign, ToggleGate, SyncCache, Crash

\* A step spends a disturbance or none, and may note a failing list.
LEMMA SpentStep ==
  ASSUME TypeOK, [Next]_vars
  PROVE  spent' \in Nat /\ listFailed' \in BOOLEAN /\ open' \in BOOLEAN
  <1>1. \/ Undisturbed \/ UNCHANGED vars \/ \E kind : Disturb(kind)
    BY DEF Next, WorkerStep, Surroundings, vars, Load, FindEnvironment, AddEnvironment,
           FindAdded, UpdateStatus, AddFinalizer, RemoveFinalizer, Create, Delete,
           AddForeign, RemoveForeign, ToggleGate, SyncCache, Crash
  <1>2. spent' \in Nat
    BY <1>1 DEF TypeOK, Undisturbed, Disturb, vars
  <1>4. listFailed' \in BOOLEAN
    <2>1. listFailed' = listFailed \/ \E kind : listFailed' = (listFailed \/ kind = "list")
      BY <1>1 DEF Undisturbed, Disturb, vars
    <2> QED
      BY <2>1, Zenon DEF TypeOK
  <1>3. open' \in BOOLEAN
    BY DEF TypeOK, Next, WorkerStep, Surroundings, vars, Load, FindEnvironment, AddEnvironment,
           FindAdded, UpdateStatus, AddFinalizer, RemoveFinalizer, Create, Delete,
           AddForeign, RemoveForeign, ToggleGate, SyncCache, Crash
  <1> QED
    BY <1>2, <1>3, <1>4

-----------------------------------------------------------------------------
(* every step keeps the inductive invariant *)

\* Every step keeps the types.
LEMMA TypeStep == IInv /\ [Next]_vars => TypeOK'
  <1> SUFFICES ASSUME IInv, [Next]_vars PROVE TypeOK'
    OBVIOUS
  <1>0. TypeOK /\ \A e \in Environments : ~Exists(e) => api[e] = Absent
    BY DEF IInv, CopiesGood, Good, Incarnated, Exists
  <1>1. /\ added' \in Seq({NameOf[e] : e \in Environments})
        /\ Ids \subseteq Ids' /\ Ids' \subseteq Nat /\ 0 \in Ids'
        /\ \A i \in DOMAIN added' : i \in Ids'
    BY <1>0, AddedStep DEF Ids, TypeOK
  <1>2. /\ api' \in [Environments -> ObjectType] /\ created' \in [Environments -> Nat]
        /\ \A e \in Environments : api'[e].sid \in Ids'
    <2>1. CASE UNCHANGED <<api, created>>
      BY <1>0, <1>1, <2>1 DEF TypeOK, ObjectsTyped
    <2>2. ASSUME NEW e \in Environments, NEW o \in ObjectType, Becomes(e, o)
          PROVE  /\ api' \in [Environments -> ObjectType] /\ created' \in [Environments -> Nat]
                 /\ \A f \in Environments : api'[f].sid \in Ids'
      <3>1. o.sid \in Ids'
        BY <1>0, <1>1, <2>2, AbsentTyped
           DEF Becomes, Same, Gone, New, WithId, WithFinalizer, TypeOK, ObjectType
      <3>2. created' \in [Environments -> Nat]
        BY <1>0, <2>2
           DEF Becomes, Same, Gone, New, WithId, WithFinalizer, TypeOK, ObjectsTyped
      <3> QED
        BY <1>0, <1>1, <2>2, <3>1, <3>2 DEF Becomes, TypeOK, ObjectsTyped
    <2> QED
      BY <1>0, <2>1, <2>2, EveryObjectsStep DEF ObjectsStep
  <1>3. /\ cache' \in [Environments -> ObjectType]
        /\ \A e \in Environments : cache'[e].sid \in Ids'
    BY <1>0, <1>1, CacheStep DEF TypeOK
  <1>4. /\ pc' \in {"idle", "find", "add", "refind", "status", "finalize", "unfinalize"}
        /\ IF pc' = "idle" THEN cur' = NoEnvironment ELSE cur' \in Environments
        /\ snap' \in ObjectType /\ snap'.sid \in Ids' /\ id' \in Ids'
    <2>1. CASE UNCHANGED worker
      BY <1>0, <1>1, <2>1 DEF worker, TypeOK
    <2>2. CASE Returns
      BY <1>1, <2>2, AbsentTyped DEF Returns
    <2>3. CASE Loads
      BY <1>0, <1>1, <2>3 DEF Loads, TypeOK, ObjectsTyped
    <2>4. CASE LooksAgain
      BY <1>0, <1>1, <2>4 DEF LooksAgain, TypeOK
    <2>5. CASE Finds
      <3>1. id' \in DOMAIN added'
        BY <2>5 DEF Finds, Wanted, Named
      <3> QED
        BY <1>0, <1>1, <2>5, <3>1 DEF Finds, TypeOK
    <2>6. CASE Records
      <3>1. id \in Nat /\ snap \in ObjectType /\ id \in Ids'
        BY <1>0, <1>1 DEF TypeOK, Ids
      <3>2. snap' \in ObjectType /\ snap'.sid = id
        BY <2>6, <3>1 DEF Records, ObjectType
      <3> QED
        BY <1>0, <2>6, <3>1, <3>2 DEF Records, TypeOK
    <2> QED
      BY <1>0, <2>1, <2>2, <2>3, <2>4, <2>5, <2>6, EveryWorkerMove DEF WorkerMoves
  <1> QED
    BY <1>0, <1>1, <1>2, <1>3, <1>4, SpentStep DEF TypeOK, ObjectsTyped

\* What is good of a copy stays good.
LEMMA GoodStep ==
  ASSUME IInv, [Next]_vars, NEW e \in Environments, NEW o \in ObjectType, Good(o, e)
  PROVE  Good(o, e)'
  <1>0. TypeOK /\ \A f \in Environments : ~Exists(f) => api[f] = Absent
    BY DEF IInv, CopiesGood, Good, Incarnated, Exists
  <1>1. NamedAs(o, e)'
    BY <1>0, AddedStep DEF Good, NamedAs
  <1>2. created[e] \in Nat /\ o.uid \in Nat
    BY <1>0 DEF TypeOK, ObjectsTyped, ObjectType
  <1>3. CASE UNCHANGED <<api, created>>
    BY <1>1, <1>3 DEF Good, Incarnated, Kept, Exists
  <1>4. ASSUME NEW f \in Environments, NEW x \in ObjectType, Becomes(f, x)
        PROVE  Incarnated(o, e)' /\ Kept(o, e)'
    <2>1. api' = [api EXCEPT ![f] = x] /\ api \in [Environments -> ObjectType]
          /\ created \in [Environments -> Nat]
      BY <1>0, <1>4 DEF Becomes, TypeOK, ObjectsTyped
    <2>2. created[e] <= created'[e] /\ created'[e] \in Nat
      BY <1>2, <1>4, <2>1 DEF Becomes, Same, Gone, New, WithId, WithFinalizer
    <2>3. Incarnated(o, e)'
      BY <1>2, <2>2 DEF Good, Incarnated
    <2>4. CASE f # e
      BY <2>1, <2>3, <2>4 DEF Good, Kept, Exists
    <2>5. CASE f = e
      <3>1. SUFFICES ASSUME x.phase # "absent", x.uid = o.uid, o.sid # 0 PROVE x.sid = o.sid
        BY <2>1, <2>3, <2>5 DEF Kept, Exists
      <3>2. o.uid <= created[e]
        BY DEF Good, Incarnated
      <3>3. CASE Same(e, x) \/ WithFinalizer(e, x)
        BY <3>1, <3>3 DEF Same, WithFinalizer, Good, Kept
      <3>4. CASE Gone(x)
        BY <3>1, <3>4, AbsentTyped DEF Gone
      <3>5. CASE New(e, x)
        BY <1>2, <3>1, <3>2, <3>5 DEF New
      <3>6. CASE WithId(e, x)
        <4>1. snap \in ObjectType /\ id \in Nat /\ snap.sid = 0 /\ api[e] = snap
              /\ snap.phase # "absent"
          BY <1>0, <3>6 DEF WithId, IInv, FoundOwn, TypeOK, Ids, CopiesGood
        <4>2. x.uid = snap.uid
          BY <3>6, <4>1 DEF WithId, ObjectType
        <4> QED
          BY <3>1, <4>1, <4>2 DEF Good, Kept, Exists
      <3> QED
        BY <1>4, <2>5, <3>3, <3>4, <3>5, <3>6 DEF Becomes
    <2> QED
      BY <2>3, <2>4, <2>5
  <1> QED
    BY <1>0, <1>1, <1>3, <1>4, EveryObjectsStep DEF ObjectsStep, Good

\* What becomes of the object itself is good.
LEMMA ApiGoodStep ==
  ASSUME IInv, [Next]_vars, NEW e \in Environments
  PROVE  Good(api[e], e)' /\ (api'[e].own /\ api'[e].finBy = api'[e].uid => api'[e].sid # 0)
  <1>0. TypeOK /\ \A f \in Environments : ~Exists(f) => api[f] = Absent
    BY DEF IInv, CopiesGood, Good, Incarnated, Exists
  <1>1. /\ api[e] \in ObjectType /\ created[e] \in Nat /\ api[e].uid \in Nat
        /\ Good(api[e], e)
        /\ api[e].own /\ api[e].finBy = api[e].uid => api[e].sid # 0
    BY <1>0 DEF IInv, CopiesGood, FinalizerAfterId, TypeOK, ObjectsTyped, ObjectType
  <1>2. CASE api'[e] = api[e]
    BY <1>1, <1>2, GoodStep DEF Good, NamedAs, Incarnated, Kept, Exists
  <1>3. ASSUME NEW x \in ObjectType, Becomes(e, x)
        PROVE  /\ NamedAs(x, e)' /\ Incarnated(x, e)'
               /\ x.own /\ x.finBy = x.uid => x.sid # 0
    <2>1. CASE Same(e, x)
      <3>1. NamedAs(api[e], e) /\ Incarnated(api[e], e)
        BY <1>1 DEF Good
      <3> QED
        BY <1>0, <1>1, <2>1, <3>1, AddedStep DEF Same, NamedAs, Incarnated, Exists
    <2>2. CASE Gone(x)
      BY <1>1, <2>2, AbsentTyped DEF Gone, NamedAs, Incarnated
    <2>3. CASE New(e, x)
      <3>1. x.own => x.finBy <= created[e] /\ x.finBy \in Nat
        BY <1>0, <2>3 DEF New, IInv, CopiesGood, Good, Incarnated, TypeOK, ObjectType
      <3>2. created'[e] = created[e] + 1
        BY <1>0, <2>3 DEF New, TypeOK, ObjectsTyped
      <3> QED
        BY <1>1, <2>3, <3>1, <3>2 DEF New, NamedAs, Incarnated
    <2>4. CASE WithId(e, x)
      <3>1. snap \in ObjectType /\ id \in Nat /\ snap.phase # "absent" /\ Incarnated(snap, e)
            /\ id \in DOMAIN added /\ added[id] = NameOf[e]
        BY <1>0, <2>4 DEF WithId, IInv, FoundOwn, TypeOK, Ids, CopiesGood, Good
      <3>2. x.sid = id /\ x.uid = snap.uid /\ x.phase = snap.phase /\ UNCHANGED created
        BY <2>4, <3>1 DEF WithId, ObjectType
      <3> QED
        BY <1>0, <3>1, <3>2, AddedStep DEF NamedAs, Incarnated
    <2>5. CASE WithFinalizer(e, x)
      <3>1. snap.sid = id /\ id # 0 /\ Kept(snap, e)
        BY <1>0, <2>5, AddedStep DEF WithFinalizer, IInv, FoundOwn, CopiesGood, Good
      <3>2. NamedAs(api[e], e) /\ Incarnated(api[e], e)
        BY <1>1 DEF Good
      <3> QED
        BY <1>0, <1>1, <2>5, <3>1, <3>2, AddedStep
           DEF WithFinalizer, Kept, NamedAs, Incarnated, Exists
    <2> QED
      BY <1>3, <2>1, <2>2, <2>3, <2>4, <2>5 DEF Becomes
  <1>4. ASSUME NEW x \in ObjectType, Becomes(e, x) PROVE api'[e] = x
    BY <1>0, <1>4 DEF Becomes, TypeOK, ObjectsTyped
  <1>5. CASE \E x \in ObjectType : Becomes(e, x)
    BY <1>3, <1>4, <1>5 DEF Good, NamedAs, Incarnated, Kept
  <1> QED
    BY <1>0, <1>2, <1>5, EveryObjectsStep DEF ObjectsStep, Becomes, TypeOK, ObjectsTyped

\* Every copy of an object stays a good one.
LEMMA CopiesStep == IInv /\ [Next]_vars => CopiesGood'
  <1> SUFFICES ASSUME IInv, [Next]_vars PROVE CopiesGood'
    OBVIOUS
  <1>0. TypeOK
    BY DEF IInv
  <1>1. ASSUME NEW e \in Environments PROVE Good(api[e], e)'
    BY <1>1, ApiGoodStep
  <1>2. ASSUME NEW e \in Environments, NEW o \in {cache[e], api[e]}
        PROVE  NamedAs(o, e)' /\ Incarnated(o, e)' /\ Kept(o, e)'
    <2>1. o \in ObjectType /\ Good(o, e)
      BY <1>0, <1>2 DEF TypeOK, ObjectsTyped, IInv, CopiesGood
    <2> QED
      BY <1>2, <2>1, GoodStep DEF Good
  <1>3. ASSUME NEW e \in Environments PROVE Good(cache[e], e)'
    BY <1>0, <1>2, <1>3, CacheStep DEF Good, NamedAs, Incarnated, Kept, Exists
  <1>4. pc' # "idle" => snap'.phase # "absent" /\ Good(snap, cur)'
    <2>1. ASSUME cur' = cur, snap' = snap, pc # "idle"
          PROVE  snap'.phase # "absent" /\ Good(snap, cur)'
      <3>1. snap \in ObjectType /\ cur \in Environments /\ Good(snap, cur)
            /\ snap.phase # "absent"
        BY <1>0, <2>1 DEF TypeOK, IInv, CopiesGood
      <3>2. \A e \in Environments, o \in ObjectType : Good(o, e) => 
              NamedAs(o, e)' /\ Incarnated(o, e)' /\ Kept(o, e)'
        BY GoodStep DEF Good
      <3> QED
        BY <2>1, <3>1, <3>2 DEF Good, NamedAs, Incarnated, Kept, Exists
    <2>2. CASE Loads
      BY <1>2, <2>2 DEF Loads, Good, NamedAs, Incarnated, Kept, Exists
    <2>3. CASE Records
      <3>1. CASE snap' = snap
        BY <2>1, <2>3, <3>1 DEF Records
      <3>2. CASE snap' = [snap EXCEPT !.sid = id] /\ api' = [api EXCEPT ![cur] = snap']
        <4>1. cur' = cur /\ cur \in Environments /\ snap \in ObjectType /\ snap.phase # "absent"
          BY <1>0, <2>3 DEF Records, TypeOK, IInv, CopiesGood
        <4>2. snap' = api'[cur] /\ snap'.phase # "absent"
          BY <1>0, <3>2, <4>1 DEF TypeOK, ObjectsTyped, ObjectType
        <4> QED
          BY <1>1, <4>1, <4>2 DEF Good, NamedAs, Incarnated, Kept, Exists
      <3> QED
        BY <2>3, <3>1, <3>2 DEF Records
    <2> QED
      BY <1>0, <2>1, <2>2, <2>3, EveryWorkerMove
         DEF WorkerMoves, worker, Returns, LooksAgain, Finds
  <1> QED
    BY <1>1, <1>3, <1>4 DEF CopiesGood

\* What the worker has found stays its object's, also while others add environments.
LEMMA FoundStep == IInv /\ [Next]_vars => FoundOwn'
  <1> SUFFICES ASSUME IInv, [Next]_vars PROVE FoundOwn'
    OBVIOUS
  <1>0. TypeOK
    BY DEF IInv
  <1>1. CASE UNCHANGED worker
    BY <1>0, <1>1, AddedStep DEF worker, IInv, FoundOwn
  <1>2. CASE Returns \/ Loads \/ LooksAgain
    BY <1>2 DEF Returns, Loads, LooksAgain, FoundOwn
  <1>3. CASE Finds
    <2>1. id' \in DOMAIN added /\ added[id'] = NameOf[cur] /\ ~snap.ghost
      BY <1>3 DEF Finds, Wanted, Named
    <2>2. snap.sid # 0 => snap.sid \in Wanted
      BY <1>0, <1>3, <2>1 DEF IInv, CopiesGood, Good, NamedAs, Finds, Wanted, Named
    <2> QED
      BY <1>3, <2>1, <2>2 DEF Finds, FoundOwn
  <1>4. CASE Records
    <2>1. snap'.sid = id
      BY <1>0, <1>4 DEF Records, TypeOK, ObjectType
    <2> QED
      BY <1>0, <1>4, <2>1, AddedStep DEF Records, IInv, FoundOwn
  <1> QED
    BY <1>0, <1>1, <1>2, <1>3, <1>4, EveryWorkerMove DEF WorkerMoves

\* The initial state satisfies the inductive invariant.
LEMMA InitIInv == Init => IInv
  <1> SUFFICES ASSUME Init PROVE IInv
    OBVIOUS
  <1>1. TypeOK
    <2> DEFINE S == {NameOf[e] : e \in Environments}
    <2>1. <<>> \in Seq(S) /\ Len(<<>>) = 0
      OBVIOUS
    <2> HIDE DEF S
    <2>2. added \in Seq(S) /\ Ids = {0}
      BY <2>1 DEF Init, Ids
    <2> QED
      BY <2>2, AbsentTyped DEF Init, ObjectsInit, TypeOK, ObjectsTyped, S
  <1>2. CopiesGood /\ FoundOwn /\ FinalizerAfterId
    BY AbsentTyped
       DEF Init, ObjectsInit, CopiesGood, Good, NamedAs, Incarnated, Kept, Exists, FoundOwn,
           FinalizerAfterId
  <1> QED
    BY <1>1, <1>2 DEF IInv

\* Every step keeps the inductive invariant.
LEMMA IInvStep == IInv /\ [Next]_vars => IInv'
  <1> SUFFICES ASSUME IInv, [Next]_vars PROVE IInv'
    OBVIOUS
  <1>1. FinalizerAfterId'
    BY ApiGoodStep DEF FinalizerAfterId
  <1> QED
    BY <1>1, TypeStep, CopiesStep, FoundStep DEF IInv

\* The inductive invariant holds in every reachable state.
THEOREM Invariance == Spec => []IInv
  BY InitIInv, IInvStep, PTL DEF Spec

\* Every variable keeps its type and every id in use is of an added environment.
THEOREM TypeCorrect == Spec => []TypeOK
  <1>1. IInv => TypeOK
    BY DEF IInv
  <1> QED
    BY <1>1, Invariance, PTL

\* Whatever fails or is done from outside, an object whose finalizer was added by a
\* reconcile of this object has an id in its status.
THEOREM FinalizerImpliesId == Spec => []FinalizerAfterId
  <1>1. IInv => FinalizerAfterId
    BY DEF IInv
  <1> QED
    BY <1>1, Invariance, PTL

\* The id in a status is of an environment of the object's name and never replaced.
THEOREM RecordedIdStays == Spec => StatusIdStable
  <1> DEFINE Stable == \A e \in Environments :
        /\ api'[e].sid # 0 => added'[api'[e].sid] = NameOf[e]
        /\ api[e].sid # 0 /\ api'[e].uid = api[e].uid => api'[e].sid = api[e].sid
  <1>1. ASSUME IInv, [Next]_vars PROVE Stable
    <2> SUFFICES ASSUME NEW e \in Environments
                 PROVE  /\ api'[e].sid # 0 => added'[api'[e].sid] = NameOf[e]
                        /\ api[e].sid # 0 /\ api'[e].uid = api[e].uid => api'[e].sid = api[e].sid
      OBVIOUS
    <2>1. NamedAs(api[e], e)' /\ Incarnated(api[e], e)'
      BY <1>1, ApiGoodStep DEF Good
    <2>2. api[e] \in ObjectType /\ Good(api[e], e)
      BY <1>1 DEF IInv, CopiesGood, TypeOK, ObjectsTyped
    <2>3. \A o \in ObjectType : Good(o, e) => Kept(o, e)'
      BY <1>1, GoodStep DEF Good
    <2>4. ASSUME api[e].sid # 0, api'[e].uid = api[e].uid PROVE api'[e].sid = api[e].sid
      <3>1. api[e].uid # 0
        BY <2>2, <2>4, AbsentTyped DEF Good, Incarnated
      <3>2. Exists(e)'
        BY <2>1, <2>4, <3>1, AbsentTyped DEF Incarnated, Exists
      <3> QED
        BY <2>2, <2>3, <2>4, <3>2 DEF Kept, Exists
    <2> QED
      BY <2>1, <2>4 DEF NamedAs
  <1>2. IInv /\ [Next]_vars => [Stable]_vars
    BY <1>1
  <1> QED
    BY <1>2, Invariance, PTL DEF Spec, StatusIdStable

-----------------------------------------------------------------------------
(* one environment of a name, as long as ListEnvironments does not fail *)

\* Between a Find that found none and the addition nobody else adds one.
OneNamed ==
  ~listFailed =>
    /\ \A i, j \in DOMAIN added : added[i] = added[j] => i = j
    /\ pc = "add" /\ ~snap.ghost => Named(NameOf[cur]) = {}

\* Every step keeps the names apart as long as ListEnvironments does not fail.
LEMMA OneNamedStep == IInv /\ OneNamed /\ [Next]_vars => OneNamed'
  <1> SUFFICES ASSUME IInv, OneNamed, [Next]_vars, ~listFailed' PROVE OneNamed'
    BY DEF OneNamed
  <1>0. TypeOK /\ added \in Seq({NameOf[e] : e \in Environments})
    BY DEF IInv, TypeOK
  <1>1. /\ ~listFailed
        /\ \A i, j \in DOMAIN added : added[i] = added[j] => i = j
        /\ pc = "add" /\ ~snap.ghost => Named(NameOf[cur]) = {}
    <2>1. listFailed' = listFailed \/ \E kind : listFailed' = (listFailed \/ kind = "list")
      BY DEF Next, WorkerStep, Surroundings, vars, Load, FindEnvironment, AddEnvironment,
             FindAdded, UpdateStatus, AddFinalizer, RemoveFinalizer, Create, Delete,
             AddForeign, RemoveForeign, ToggleGate, SyncCache, Crash, Undisturbed, Disturb
    <2>2. ~listFailed
      BY <2>1, Zenon
    <2> QED
      BY <2>2 DEF OneNamed
  <1>2. CASE UNCHANGED <<added, worker>>
    BY <1>1, <1>2 DEF OneNamed, worker, Named
  <1>3. CASE FindEnvironment
    <2>1. CASE Wanted # {} /\ ~snap.ghost
      <3>1. PICK i \in Wanted : TRUE
        BY <2>1
      <3>2. Wanted = {i}
        BY <1>1, <2>1 DEF Wanted, Named
      <3>3. Cardinality(Wanted) = 1
        BY <3>2, FS_Singleton
      <3>4. ~Disturb("list")
        BY Zenon DEF Disturb
      <3> QED
        BY <1>1, <1>3, <3>3, <3>4 DEF FindEnvironment, Continue, OneNamed
    <2>2. CASE Wanted = {} \/ snap.ghost
      BY <1>1, <1>3, <2>2 DEF FindEnvironment, Continue, OneNamed, Wanted, Named
    <2> QED
      BY <2>1, <2>2
  <1>4. CASE AddEnvironment
    <2>1. pc' # "add" /\ (UNCHANGED added \/ (added' = Append(added, NameOf[cur]) /\ ~snap.ghost))
          /\ pc = "add"
      BY <1>4 DEF AddEnvironment, Continue, Return
    <2>2. CASE added' = Append(added, NameOf[cur]) /\ ~snap.ghost
      <3>1. \A i \in DOMAIN added : added[i] # NameOf[cur]
        BY <1>1, <2>1, <2>2 DEF Named
      <3> QED
        BY <1>0, <1>1, <2>1, <2>2, <3>1 DEF OneNamed
    <2> QED
      BY <1>1, <2>1, <2>2 DEF OneNamed
  <1>5. ASSUME UNCHANGED added, pc' # "add" PROVE OneNamed'
    BY <1>1, <1>5 DEF OneNamed
  <1> QED
    BY <1>2, <1>3, <1>4, <1>5
       DEF Next, WorkerStep, Surroundings, vars, Load, FindAdded, UpdateStatus, AddFinalizer,
           RemoveFinalizer, Create, Delete, AddForeign, RemoveForeign, ToggleGate, SyncCache,
           Crash, Continue, Return

\* However often a reconcile is cut short between adding an environment and
\* recording it, no second one of a name is added, unless a list fails.
THEOREM NoDuplicates == Spec => []OneEnvironmentPerName
  <1>1. Init => OneNamed
    BY DEF Init, OneNamed
  <1>2. OneNamed => OneEnvironmentPerName
    BY DEF OneNamed, OneEnvironmentPerName
  <1> QED
    BY <1>1, <1>2, OneNamedStep, Invariance, PTL DEF Spec

=============================================================================
