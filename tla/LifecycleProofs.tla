--------------------------- MODULE LifecycleProofs ---------------------------
(***************************************************************************)
(* Safety of the lifecycle of ControlPlanes, for any number of them, any   *)
(* components, disturbances and bounds.                                    *)
(***************************************************************************)
EXTENDS Lifecycle, TLAPS

\* The objects of general, which have one name for all ControlPlanes.
Common(kind) == [kind |-> kind, name |-> <<"pipecd">>]

Deployment(c, i) == Object("Deployment", c, i)
GatewayConfig(c) == Object("ConfigMap", c, "gateway")

Incarnations == [name : ControlPlanes, uid : Nat]

\* It owns a child, a goroutine or the worker is at work for it.
InPlay(o) ==
  \/ \E k \in Children : child[k] = o
  \/ \E n \in Calls, i \in Components : body[n][i].of = o
  \/ pc # "idle" /\ o = Incarnation(cur, read)

\* If o exists, k is its own.
Owned(k, o) == Alive(o) => child[k] = o

\* The last incarnation of c that the informer has seen, or may yet see as the
\* next: what it hands to the worker is never older.
Seen(c) == IF cache[c].phase = "absent" THEN created[c] ELSE cache[c].uid

-----------------------------------------------------------------------------
(* the inductive invariant *)

\* The object at the API server is the last incarnation.
ObjectInv ==
  \A c \in ControlPlanes : (Exists(c) => api[c].uid = created[c]) /\ Seen(c) <= created[c]

\* Nothing is in play that the informer has not seen, nor, of the object the
\* worker is working on, a later incarnation than the worker's.
AgesInv ==
  \A o \in Incarnations :
    InPlay(o) =>
      /\ o.uid <= Seen(o.name)
      /\ pc # "idle" /\ o.name = cur => o.uid <= read

PlaceInv ==
  /\ \A n \in Calls, i \in Components :
       AtWork(n, i) =>
         /\ body[n][i].of \in Incarnations
         /\ body[n][i].at \in 1 .. Len(Applied(body[n][i].of.name, i))
  /\ \A c \in ControlPlanes, i \in Deployed :
       child[Deployment(c, i)].name \in {c, NoControlPlane}

\* Main waits for general: it is at work in the last call only, in the first
\* block.
GeneralInv ==
  Ordered =>
    \A n \in Calls :
      AtWork(n, "general") =>
        /\ n = 0 /\ pc = "select" /\ block = 0
        /\ body[n]["general"].of = Incarnation(cur, read)

\* What it has applied in this block is the ControlPlane's.
ProgressInv ==
  Ordered /\ pc = "select" /\ block = 0 =>
    \A m \in 1 .. 3 :
      (AtWork(0, "general") => m < body[0]["general"].at) =>
        Owned(Applied(cur, "general")[m], Incarnation(cur, read))

\* The incarnations that have got past general.
Working(o) ==
  \/ \E n \in Calls, i \in Deployed : body[n][i].of = o
  \/ pc = "select" /\ block > 0 /\ o = Incarnation(cur, read)
  \/ \E c \in ControlPlanes, i \in Deployed : child[Deployment(c, i)] = o

HeldInv ==
  Ordered => \A o \in Incarnations : Working(o) => \A k \in Shared : Owned(k, o)

\* The incarnations of which the gateway's ConfigMap has been written.
Configured(o) ==
  \/ \E n \in Calls : body[n]["gateway"].of = o /\ body[n]["gateway"].at > 1
  \/ child[Deployment(o.name, "gateway")] = o

GatewayInv ==
  "gateway" \in Deployed =>
    \A o \in Incarnations :
      Configured(o) => Owned(GatewayConfig(o.name), o) \/ GatewayConfig(o.name) \in takenBack

IInv ==
  /\ TypeOK /\ ObjectInv /\ AgesInv /\ PlaceInv
  /\ GeneralInv /\ ProgressInv /\ HeldInv /\ GatewayInv

-----------------------------------------------------------------------------
(* the generated objects *)

\* The components.
LEMMA ComponentsAre ==
  /\ Deployed \subseteq WithDeployment /\ Components = {"general"} \cup Deployed
  /\ "general" \notin Deployed /\ "general" \in Components /\ Len(Blocks) \in Nat
  /\ \A n \in 1 .. Len(Blocks) : Blocks[n] \in Deployed
  <1>1. /\ Len(Blocks) \in Nat /\ DOMAIN Blocks = 1 .. Len(Blocks)
        /\ \A n \in 1 .. Len(Blocks) : Blocks[n] \in WithDeployment
    BY BlocksAssumption
  <1> QED
    BY <1>1 DEF Deployed, Components, WithDeployment

\* What the goroutine of general applies does not depend on the ControlPlane.
LEMMA AppliedByGeneral ==
  ASSUME NEW c
  PROVE  Applied(c, "general") = <<Common("ConfigMap"), Common("Secret"), Common("Service")>>
  <1> DEFINE kinds == <<"ConfigMap", "Secret", "Service">>
  <1>1. Applied(c, "general") = [n \in DOMAIN kinds |-> Object(kinds[n], c, "general")]
    BY DEF Applied
  <1>2. /\ DOMAIN kinds = 1 .. 3
        /\ kinds[1] = "ConfigMap" /\ kinds[2] = "Secret" /\ kinds[3] = "Service"
    OBVIOUS
  <1> HIDE DEF kinds
  <1> QED
    BY <1>1, <1>2 DEF Object, Name, Common

\* What the gateway's applies.
LEMMA AppliedByGateway ==
  ASSUME NEW c
  PROVE  Applied(c, "gateway") = <<Object("ConfigMap", c, "gateway"), Deployment(c, "gateway"),
                                   Object("Service", c, "gateway")>>
  <1> DEFINE kinds == <<"ConfigMap", "Deployment", "Service">>
  <1>1. Applied(c, "gateway") = [n \in DOMAIN kinds |-> Object(kinds[n], c, "gateway")]
    BY DEF Applied
  <1>2. /\ DOMAIN kinds = 1 .. 3
        /\ kinds[1] = "ConfigMap" /\ kinds[2] = "Deployment" /\ kinds[3] = "Service"
    OBVIOUS
  <1> HIDE DEF kinds
  <1> QED
    BY <1>1, <1>2 DEF Deployment

\* What those of the other components apply.
LEMMA AppliedByOthers ==
  ASSUME NEW c, NEW i, i \notin {"general", "gateway"}
  PROVE  Applied(c, i) = <<Deployment(c, i), Object("Service", c, i)>>
  <1> DEFINE kinds == <<"Deployment", "Service">>
  <1>1. Applied(c, i) = [n \in DOMAIN kinds |-> Object(kinds[n], c, i)]
    BY DEF Applied
  <1>2. DOMAIN kinds = 1 .. 2 /\ kinds[1] = "Deployment" /\ kinds[2] = "Service"
    OBVIOUS
  <1> HIDE DEF kinds
  <1> QED
    BY <1>1, <1>2 DEF Deployment

\* Of objects that are applied, only those of general have a name in common.
LEMMA AppliedIs ==
  ASSUME NEW c, NEW i \in Components
  PROVE  /\ Len(Applied(c, i)) \in 2 .. 3
         /\ DOMAIN Applied(c, i) = 1 .. Len(Applied(c, i))
         /\ i = "general" =>
              /\ Len(Applied(c, i)) = 3
              /\ \A n \in 1 .. Len(Applied(c, i)) : Applied(c, i)[n].name = <<"pipecd">>
         /\ i # "general" => \A n \in 1 .. Len(Applied(c, i)) : Applied(c, i)[n].name = <<c, i>>
  <1>1. CASE i = "general"
    BY <1>1, AppliedByGeneral DEF Common
  <1>2. CASE i = "gateway"
    BY <1>2, AppliedByGateway DEF Deployment, Object, Name
  <1>3. CASE i \notin {"general", "gateway"}
    BY <1>3, AppliedByOthers DEF Deployment, Object, Name
  <1> QED
    BY <1>1, <1>2, <1>3

\* No other goroutine applies a Deployment or the gateway's ConfigMap.
LEMMA OneApplies ==
  ASSUME NEW c, NEW i \in Deployed, NEW d, NEW j \in Components,
         NEW n \in 1 .. Len(Applied(d, j)), NEW kind, Applied(d, j)[n] = Object(kind, c, i)
  PROVE  c = d /\ i = j
  <1>1. i # "general" /\ Object(kind, c, i).name = <<c, i>>
    BY ComponentsAre DEF Object, Name
  <1>2. j # "general"
    <2>1. <<c, i>> # <<"pipecd">>
      OBVIOUS
    <2> QED
      BY <1>1, <2>1, AppliedIs
  <1>3. <<c, i>> = <<d, j>>
    BY <1>1, <1>2, AppliedIs
  <1> QED
    BY <1>3

\* What general's goroutines apply are children of every ControlPlane, and so
\* are the Deployments.
LEMMA ChildrenAre ==
  /\ \A c \in ControlPlanes, i \in Components :
       \A n \in 1 .. Len(Applied(c, i)) : Applied(c, i)[n] \in Children
  /\ \A c \in ControlPlanes, i \in Deployed : Deployment(c, i) \in Children
  /\ \A c \in ControlPlanes :
       "gateway" \in Deployed => GatewayConfig(c) \in Children
  <1>1. ASSUME NEW c \in ControlPlanes, NEW i \in Components, NEW n \in 1 .. Len(Applied(c, i))
        PROVE  Applied(c, i)[n] \in Children
    BY AppliedIs DEF Children
  <1>3. ASSUME NEW c \in ControlPlanes, "gateway" \in Deployed
        PROVE  /\ Deployment(c, "gateway") \in Children
               /\ GatewayConfig(c) \in Children
    <2>1. "gateway" \in Components /\ Len(Applied(c, "gateway")) = 3
      BY <1>3, AppliedByGateway, ComponentsAre
    <2>2. \A n \in 1 .. 3 : Applied(c, "gateway")[n] \in Children
      BY <1>1, <2>1
    <2> QED
      BY <2>2, AppliedByGateway DEF GatewayConfig
  <1>4. ASSUME NEW c \in ControlPlanes, NEW i \in Deployed, i # "gateway"
        PROVE  Deployment(c, i) \in Children
    <2>1. i \in Components /\ i # "general" /\ Len(Applied(c, i)) = 2
      BY <1>4, AppliedByOthers, ComponentsAre
    <2>2. Applied(c, i)[1] \in Children
      BY <1>1, <2>1
    <2> QED
      BY <1>4, <2>1, <2>2, AppliedByOthers
  <1> QED
    BY <1>1, <1>3, <1>4

\* The shared objects are those that general's goroutines apply, for any
\* ControlPlane, and no others do.
LEMMA SharedAre ==
  ASSUME NEW c \in ControlPlanes
  PROVE  /\ \A n \in 1 .. 3 : Applied(c, "general")[n] \in Shared
         /\ \A k \in Shared : \E n \in 1 .. 3 : Applied(c, "general")[n] = k
         /\ \A i \in Components : \A n \in 1 .. Len(Applied(c, i)) :
              Applied(c, i)[n] \in Shared => i = "general"
         /\ "gateway" \in Deployed => GatewayConfig(c) \in OwnFiles
  <1>1. \A k : k \in Shared <=> k \in Children /\ k.name = <<"pipecd">>
    BY DEF Shared, Name
  <1>2. \A d : <<d, "gateway">> # <<"pipecd">>
    OBVIOUS
  <1>3. \A d, i : <<d, i>> # <<"pipecd">>
    OBVIOUS
  <1>4. \A n \in 1 .. 3 : Applied(c, "general")[n] \in Shared
    BY <1>1, AppliedIs, ChildrenAre, ComponentsAre
  <1>5. ASSUME NEW k \in Shared PROVE \E n \in 1 .. 3 : Applied(c, "general")[n] = k
    <2>1. PICK d \in ControlPlanes, i \in Components : \E n \in DOMAIN Applied(d, i) : Applied(d, i)[n] = k
      BY <1>1 DEF Children
    <2>2. PICK n \in 1 .. Len(Applied(d, i)) : Applied(d, i)[n] = k
      BY <2>1, AppliedIs
    <2>3. Applied(d, i)[n].name = <<"pipecd">> /\ <<d, i>> # <<"pipecd">>
      BY <1>1, <1>3, <2>2
    <2>4. i = "general" /\ Len(Applied(d, i)) = 3
      BY <2>3, AppliedIs
    <2> QED
      BY <2>2, <2>4, AppliedByGeneral
  <1>6. ASSUME NEW i \in Components, NEW n \in 1 .. Len(Applied(c, i)), Applied(c, i)[n] \in Shared
        PROVE  i = "general"
    BY <1>1, <1>3, <1>6, AppliedIs
  <1>7. "gateway" \in Deployed => GatewayConfig(c) \in OwnFiles
    BY <1>1, <1>2, ChildrenAre DEF OwnFiles, GatewayConfig, Object, Name
  <1> QED
    BY <1>4, <1>5, <1>6, <1>7

\* Every file a component's container opens is in a shared object, or in the
\* ConfigMap of the gateway.
LEMMA FilesAre ==
  ASSUME NEW c \in ControlPlanes, NEW i \in Deployed, NEW f \in Opens(i)
  PROVE  /\ f[1] \in DOMAIN Mounts(c, i)
         /\ f[2] \in Data(Mounts(c, i)[f[1]])
         /\ \/ Mounts(c, i)[f[1]] \in Shared
            \/ i = "gateway" /\ Mounts(c, i)[f[1]] = GatewayConfig(c)
  <1>1. <<c, "gateway">> # <<"pipecd">>
    OBVIOUS
  <1>2. Common("ConfigMap") \in Shared /\ Common("Secret") \in Shared
    BY SharedAre, AppliedByGeneral
  <1>3. CASE i = "gateway"
    BY <1>1, <1>3 DEF Opens, Mounts, Data, Object, Name, GatewayConfig
  <1>4. CASE i = "server"
    BY <1>2, <1>4 DEF Opens, Mounts, Data, Object, Name, Common
  <1>5. CASE i = "ops"
    BY <1>2, <1>5 DEF Opens, Mounts, Data, Object, Name, Common
  <1>6. CASE i = "cache"
    BY <1>6 DEF Opens
  <1> QED
    BY <1>3, <1>4, <1>5, <1>6, ComponentsAre DEF WithDeployment

-----------------------------------------------------------------------------
(* the objects *)

\* What a step may do to the objects: incarnations only follow each other, and
\* the informer copies what is there.
Follow ==
  /\ ObjectsTyped' /\ ObjectInv'
  /\ \A c \in ControlPlanes : Seen(c) <= Seen(c)'
  /\ \A o \in Incarnations : o.uid <= created[o.name] /\ Alive(o)' => Alive(o)

\* The parts of an object.
LEMMA TypesAre ==
  ASSUME ObjectsTyped
  PROVE  /\ api \in [ControlPlanes -> ObjectType] /\ cache \in [ControlPlanes -> ObjectType]
         /\ created \in [ControlPlanes -> Nat]
         /\ \A c \in ControlPlanes :
              /\ api[c] \in ObjectType /\ cache[c] \in ObjectType /\ created[c] \in Nat
              /\ api[c].uid \in Nat /\ cache[c].uid \in Nat /\ Seen(c) \in Nat
  BY DEF ObjectsTyped, ObjectType, Seen

\* An object without the operator's finalizer is one.
LEMMA WithoutOwnIs ==
  ASSUME NEW o \in ObjectType
  PROVE  WithoutOwn(o) \in ObjectType /\ (WithoutOwn(o).phase # "absent" => WithoutOwn(o).uid = o.uid)
  <1>1. CASE o.phase = "deleting" /\ ~o.foreign
    BY <1>1 DEF WithoutOwn, Absent, ObjectType
  <1>2. CASE ~(o.phase = "deleting" /\ ~o.foreign)
    BY <1>2 DEF WithoutOwn, ObjectType
  <1> QED
    BY <1>1, <1>2

\* A step that does nothing to the objects.
LEMMA NothingFollows ==
  ASSUME ObjectsTyped, ObjectInv, UNCHANGED objects
  PROVE  Follow
  <1>1. api' = api /\ cache' = cache /\ created' = created
    BY DEF objects
  <1>2. \A c \in ControlPlanes : Seen(c)' = Seen(c) /\ Seen(c) \in Nat
    BY <1>1, TypesAre DEF Seen
  <1>3. ObjectsTyped' /\ ObjectInv'
    BY <1>1, <1>2 DEF ObjectsTyped, ObjectInv, Exists
  <1> QED
    BY <1>1, <1>2, <1>3 DEF Follow, Alive, Exists

\* A step that gives the object c another version or its next incarnation.
LEMMA OneFollows ==
  ASSUME ObjectsTyped, ObjectInv, NEW c \in ControlPlanes, NEW o \in ObjectType, NEW n \in Nat,
         api' = [api EXCEPT ![c] = o], created' = [created EXCEPT ![c] = n], cache' = cache,
         \/ n = created[c] /\ (o.phase # "absent" => Exists(c) /\ o.uid = api[c].uid)
         \/ n = created[c] + 1 /\ ~Exists(c) /\ o.uid = n
  PROVE  Follow
  <1>1. /\ api'[c] = o /\ created'[c] = n
        /\ \A d \in ControlPlanes \ {c} : api'[d] = api[d] /\ created'[d] = created[d]
        /\ \A d \in ControlPlanes : created[d] \in Nat /\ Seen(d) \in Nat /\ cache[d].uid \in Nat
    BY TypesAre
  <1>2. ObjectsTyped'
    BY TypesAre DEF ObjectsTyped
  <1>3. \A d \in ControlPlanes : created[d] <= created'[d]
    BY <1>1
  <1>4. ASSUME NEW d \in ControlPlanes
        PROVE  Seen(d) <= Seen(d)' /\ Seen(d)' <= created'[d]
    <2>1. Seen(d) <= created[d] /\ created[d] <= created'[d] /\ created'[d] \in Nat
      BY <1>1, <1>2, <1>3 DEF ObjectInv, ObjectsTyped
    <2>2. CASE cache[d].phase = "absent"
      BY <1>1, <2>1, <2>2 DEF Seen
    <2>3. CASE cache[d].phase # "absent"
      BY <1>1, <2>1, <2>3 DEF Seen
    <2> QED
      BY <2>2, <2>3
  <1>5. \A d \in ControlPlanes : Exists(d)' => api'[d].uid = created'[d]
    BY <1>1 DEF ObjectInv, Exists
  <1>6. ASSUME NEW p \in Incarnations, p.uid <= created[p.name], Alive(p)'
        PROVE  Alive(p)
    <2>1. /\ p.name \in ControlPlanes /\ p.uid \in Nat /\ p # Nobody /\ Exists(p.name)'
          /\ api'[p.name].uid = p.uid
      BY <1>6 DEF Incarnations, Alive
    <2>2. CASE p.name = c
      BY <1>1, <1>6, <2>1, <2>2 DEF Alive, Exists
    <2>3. CASE p.name # c
      BY <1>1, <2>1, <2>3 DEF Alive, Exists
    <2> QED
      BY <2>2, <2>3
  <1> QED
    BY <1>2, <1>4, <1>5, <1>6 DEF Follow, ObjectInv

\* The former: another version, or none.
LEMMA VersionFollows ==
  ASSUME ObjectsTyped, ObjectInv, NEW c \in ControlPlanes, NEW o \in ObjectType,
         api' = [api EXCEPT ![c] = o], created' = created, cache' = cache,
         o.phase # "absent" => Exists(c) /\ o.uid = api[c].uid
  PROVE  Follow
  <1>1. created[c] \in Nat /\ created' = [created EXCEPT ![c] = created[c]]
    BY TypesAre
  <1> QED
    BY <1>1, OneFollows

\* The latter: the next incarnation of what does not exist.
LEMMA IncarnationFollows ==
  ASSUME ObjectsTyped, ObjectInv, NEW c \in ControlPlanes, NEW o \in ObjectType,
         api' = [api EXCEPT ![c] = o], created' = [created EXCEPT ![c] = created[c] + 1],
         cache' = cache, ~Exists(c), o.uid = created[c] + 1
  PROVE  Follow
  <1>1. created[c] \in Nat /\ created[c] + 1 \in Nat
    BY TypesAre
  <1> QED
    BY <1>1, OneFollows

\* A step of the informer.
LEMMA CopyFollows ==
  ASSUME ObjectsTyped, ObjectInv, UNCHANGED <<api, created>>,
         cache' \in [ControlPlanes -> ObjectType],
         \A d \in ControlPlanes : cache'[d] \in {cache[d], api[d]}
  PROVE  Follow
  <1>1. ObjectsTyped'
    BY DEF ObjectsTyped
  <1>2. ASSUME NEW d \in ControlPlanes
        PROVE  Seen(d) <= Seen(d)' /\ Seen(d)' <= created[d]
    <2>1. Seen(d) <= created[d] /\ Seen(d) \in Nat /\ created[d] \in Nat
      BY TypesAre DEF ObjectInv
    <2>2. CASE cache'[d] = cache[d]
      BY <2>1, <2>2 DEF Seen
    <2>3. CASE cache'[d] = api[d]
      BY <2>1, <2>3 DEF Seen, ObjectInv, Exists
    <2> QED
      BY <2>2, <2>3
  <1> QED
    BY <1>1, <1>2 DEF Follow, ObjectInv, Alive, Exists

\* The patch of reconcile.
LEMMA PatchInFollows ==
  ASSUME ObjectsTyped, ObjectInv, NEW c \in ControlPlanes, NEW u \in Nat, PatchFinalizerIn(c, u)
  PROVE  Follow
  <1>0. created[c] \in Nat /\ created[c] + 1 \in Nat
    BY TypesAre
  <1>1. CASE ~Exists(c) /\ PatchGhost(c, TRUE, u)
    <2> DEFINE o == [Absent EXCEPT !.phase = "live", !.ghost = TRUE,
                       !.uid = created[c] + 1, !.own = TRUE, !.finBy = u]
    <2>1. o \in ObjectType /\ o.uid = created[c] + 1
      BY <1>0 DEF Absent, ObjectType
    <2>2. /\ api' = [api EXCEPT ![c] = o] /\ cache' = cache
          /\ created' = [created EXCEPT ![c] = created[c] + 1]
      BY <1>1 DEF PatchGhost, PatchFinalizerIn
    <2> HIDE DEF o
    <2> QED
      BY <1>1, <2>1, <2>2, IncarnationFollows
  <1>2. CASE api[c].phase = "live" /\ created' = created
             /\ api' = [api EXCEPT ![c].own = TRUE, ![c].finBy = u]
    <2> DEFINE o == [api[c] EXCEPT !.own = TRUE, !.finBy = u]
    <2>1. o \in ObjectType /\ o.phase = "live" /\ o.uid = api[c].uid
      BY <1>2, TypesAre DEF ObjectType
    <2>2. api' = [api EXCEPT ![c] = o] /\ cache' = cache
      BY <1>2, TypesAre DEF PatchFinalizerIn
    <2>3. Exists(c)
      BY <1>2 DEF Exists
    <2> HIDE DEF o
    <2> QED
      BY <1>2, <2>1, <2>2, <2>3, VersionFollows
  <1>3. CASE UNCHANGED <<api, created>>
    BY <1>3, NothingFollows DEF PatchFinalizerIn, objects
  <1> QED
    BY <1>1, <1>2, <1>3 DEF PatchFinalizerIn

\* The patch of reconcileDelete.
LEMMA PatchOutFollows ==
  ASSUME ObjectsTyped, ObjectInv, NEW c \in ControlPlanes, PatchFinalizerOut(c)
  PROVE  Follow
  <1>0. created[c] \in Nat /\ created[c] + 1 \in Nat
    BY TypesAre
  <1>1. CASE ~Exists(c) /\ PatchGhost(c, FALSE, 0)
    <2> DEFINE o == [Absent EXCEPT !.phase = "live", !.ghost = TRUE,
                       !.uid = created[c] + 1, !.own = FALSE, !.finBy = 0]
    <2>1. o \in ObjectType /\ o.uid = created[c] + 1
      BY <1>0 DEF Absent, ObjectType
    <2>2. /\ api' = [api EXCEPT ![c] = o] /\ cache' = cache
          /\ created' = [created EXCEPT ![c] = created[c] + 1]
      BY <1>1 DEF PatchGhost, PatchFinalizerOut
    <2> HIDE DEF o
    <2> QED
      BY <1>1, <2>1, <2>2, IncarnationFollows
  <1>2. CASE Exists(c) /\ created' = created /\ api' = [api EXCEPT ![c] = WithoutOwn(api[c])]
    <2> DEFINE o == WithoutOwn(api[c])
    <2>1. o \in ObjectType /\ (o.phase # "absent" => o.uid = api[c].uid)
      BY TypesAre, WithoutOwnIs
    <2>2. api' = [api EXCEPT ![c] = o] /\ cache' = cache
      BY <1>2 DEF PatchFinalizerOut
    <2> HIDE DEF o
    <2> QED
      BY <1>2, <2>1, <2>2, VersionFollows
  <1> QED
    BY <1>1, <1>2 DEF PatchFinalizerOut

\* What people do.
LEMMA PeopleFollow ==
  ASSUME ObjectsTyped, ObjectInv, NEW c \in ControlPlanes,
         \/ CreateObject(c) \/ DeleteObject(c)
         \/ AddForeignFinalizer(c) \/ RemoveForeignFinalizer(c)
  PROVE  Follow
  <1>1. /\ api \in [ControlPlanes -> ObjectType] /\ api[c] \in ObjectType /\ created[c] \in Nat
        /\ created[c] + 1 \in Nat
    BY TypesAre
  <1>0. Absent \in ObjectType /\ Absent.phase = "absent"
    BY DEF Absent, ObjectType
  <1>2. CASE CreateObject(c) /\ Exists(c)
    <2> DEFINE o == [api[c] EXCEPT !.ghost = FALSE]
    <2>1. /\ created' = created /\ cache' = cache /\ api' = [api EXCEPT ![c] = o]
      BY <1>1, <1>2 DEF CreateObject
    <2>2. o \in ObjectType /\ o.uid = api[c].uid
      BY <1>1 DEF ObjectType
    <2> HIDE DEF o
    <2> QED
      BY <1>2, <2>1, <2>2, VersionFollows
  <1>3. CASE CreateObject(c) /\ ~Exists(c)
    <2> DEFINE o == [Absent EXCEPT !.phase = "live", !.uid = created[c] + 1]
    <2>1. /\ cache' = cache /\ created' = [created EXCEPT ![c] = created[c] + 1]
          /\ api' = [api EXCEPT ![c] = o]
      BY <1>3 DEF CreateObject, Exists
    <2>2. o \in ObjectType /\ o.uid = created[c] + 1
      BY <1>1 DEF ObjectType, Absent
    <2> HIDE DEF o
    <2> QED
      BY <1>3, <2>1, <2>2, IncarnationFollows
  <1>4. CASE DeleteObject(c)
    <2> DEFINE o == IF api[c].own \/ api[c].foreign
                    THEN [api[c] EXCEPT !.phase = "deleting"] ELSE Absent
    <2>1. /\ cache' = cache /\ created' = created /\ api' = [api EXCEPT ![c] = o] /\ Exists(c)
      BY <1>4 DEF DeleteObject, Exists
    <2>2. [api[c] EXCEPT !.phase = "deleting"] \in ObjectType
          /\ [api[c] EXCEPT !.phase = "deleting"].uid = api[c].uid
      BY <1>1 DEF ObjectType
    <2>3. o \in ObjectType /\ (o.phase # "absent" => o.uid = api[c].uid)
      BY <1>0, <1>1, <2>2
    <2> HIDE DEF o
    <2> QED
      BY <2>1, <2>3, VersionFollows
  <1>5. CASE AddForeignFinalizer(c)
    <2> DEFINE o == [api[c] EXCEPT !.foreign = TRUE]
    <2>1. /\ cache' = cache /\ created' = created /\ api' = [api EXCEPT ![c] = o] /\ Exists(c)
      BY <1>1, <1>5 DEF AddForeignFinalizer, Exists
    <2>2. o \in ObjectType /\ o.uid = api[c].uid
      BY <1>1 DEF ObjectType
    <2> HIDE DEF o
    <2> QED
      BY <2>1, <2>2, VersionFollows
  <1>6. CASE RemoveForeignFinalizer(c)
    <2> DEFINE o == IF api[c].phase = "deleting" /\ ~api[c].own
                    THEN Absent ELSE [api[c] EXCEPT !.foreign = FALSE]
    <2>1. /\ cache' = cache /\ created' = created /\ api' = [api EXCEPT ![c] = o]
      BY <1>6 DEF RemoveForeignFinalizer
    <2>2. /\ [api[c] EXCEPT !.foreign = FALSE] \in ObjectType
          /\ [api[c] EXCEPT !.foreign = FALSE].uid = api[c].uid
          /\ [api[c] EXCEPT !.foreign = FALSE].phase = api[c].phase
      BY <1>1 DEF ObjectType
    <2>3. o \in ObjectType /\ (o.phase # "absent" => Exists(c) /\ o.uid = api[c].uid)
      BY <1>0, <1>1, <2>2 DEF Exists
    <2> HIDE DEF o
    <2> QED
      BY <2>1, <2>3, VersionFollows
  <1> QED
    BY <1>2, <1>3, <1>4, <1>5, <1>6

\* Every step follows.
LEMMA NextFollows ==
  ASSUME TypeOK, ObjectInv, [Next]_vars
  PROVE  Follow
  <1>1. ObjectsTyped /\ read \in Nat /\ (pc # "idle" => cur \in ControlPlanes)
    BY DEF TypeOK
  <1>2. CASE UNCHANGED objects
    BY <1>1, <1>2, NothingFollows
  <1>3. ASSUME NEW c \in ControlPlanes, Load(c) PROVE UNCHANGED objects
    BY <1>3 DEF Load
  <1>4. CASE AddFinalizer
    <2>1. pc # "idle" /\ (PatchFinalizerIn(cur, read) \/ UNCHANGED objects)
      BY <1>4 DEF AddFinalizer
    <2> QED
      BY <1>1, <1>2, <2>1, PatchInFollows
  <1>5. CASE RemoveFinalizer
    <2>1. pc # "idle" /\ (PatchFinalizerOut(cur) \/ UNCHANGED objects)
      BY <1>5 DEF RemoveFinalizer
    <2> QED
      BY <1>1, <1>2, <2>1, PatchOutFollows
  <1>6. ASSUME NEW c \in ControlPlanes,
               Create(c) \/ Delete(c) \/ AddForeign(c) \/ RemoveForeign(c)
        PROVE  Follow
    BY <1>1, <1>6, PeopleFollow DEF Create, Delete, AddForeign, RemoveForeign
  <1>7. ASSUME NEW c \in ControlPlanes, SyncCache(c) PROVE Follow
    <2>1. UNCHANGED <<api, created>> /\ cache' = [cache EXCEPT ![c] = api[c]]
      BY <1>7 DEF SyncCache, CatchUp
    <2> QED
      BY <1>1, <2>1, TypesAre, CopyFollows
  <1>8. CASE Crash
    <2>1. UNCHANGED <<api, created>> /\ cache' = api
      BY <1>8 DEF Crash
    <2> QED
      BY <1>1, <2>1, TypesAre, CopyFollows
  <1>9. CASE WorkerStep
    BY <1>2, <1>3, <1>4, <1>5, <1>9 DEF WorkerStep, Proceed
  <1>10. CASE \E n \in Calls, i \in Components : Apply(n, i)
    BY <1>2, <1>10 DEF Apply
  <1>11. CASE Surroundings
    BY <1>2, <1>6, <1>7, <1>8, <1>11 DEF Surroundings, Collect
  <1>12. CASE UNCHANGED vars
    BY <1>2, <1>12 DEF vars
  <1> QED
    BY <1>9, <1>10, <1>11, <1>12 DEF Next

-----------------------------------------------------------------------------
(* the worker and the goroutines *)

\* What a step may do to them.
Still == UNCHANGED <<child, worker, body, history>>

Returns ==
  /\ pc = "unfinalize" \/ (pc = "select" /\ Terminated)
  /\ Return /\ UNCHANGED <<child, body, history>>

Stops == Return /\ body' = [n \in Calls |-> Idle] /\ UNCHANGED <<child, history>>

Applies(n, i) ==
  /\ AtWork(n, i)
  /\ child[Target(n, i)].name \in {body[n][i].of.name, NoControlPlane}
  /\ Pass(Target(n, i), body[n][i].of) /\ Advance(n, i)
  /\ UNCHANGED <<objects, worker, overtaken>>

Fails(n, i) == AtWork(n, i) /\ Fail(n, i) /\ UNCHANGED <<child, history>>

Frees(k) ==
  /\ k \in Children /\ child[k] # Nobody /\ ~Alive(child[k])
  /\ child' = [child EXCEPT ![k] = Nobody]
  /\ UNCHANGED <<worker, body, history>>

\* These are all.
LEMMA Moves ==
  ASSUME [Next]_vars
  PROVE  \/ Still \/ Returns \/ Stops
         \/ \E c \in ControlPlanes : Load(c)
         \/ Proceed
         \/ \E n \in Calls, i \in Components : Applies(n, i) \/ Fails(n, i)
         \/ \E k \in Children : Frees(k)
  <1>0. ASSUME AddFinalizer \/ RemoveFinalizer PROVE Returns
    BY <1>0 DEF AddFinalizer, RemoveFinalizer, Returns
  <1>1. CASE WorkerStep
    BY <1>0, <1>1 DEF WorkerStep
  <1>2. ASSUME NEW n \in Calls, NEW i \in Components, Apply(n, i)
        PROVE  Applies(n, i) \/ Fails(n, i)
    BY <1>2 DEF Apply, Applies, Fails, history
  <1>3. CASE Surroundings
    BY <1>3 DEF Surroundings, Create, Delete, AddForeign, RemoveForeign, SyncCache, Collect, Crash,
                Still, Stops, Frees
  <1>4. CASE UNCHANGED vars
    BY <1>4 DEF vars, Still
  <1> QED
    BY <1>1, <1>2, <1>3, <1>4 DEF Next

\* Owners and what goroutines are.
LEMMA OwnersAre ==
  /\ 0 \in Calls
  /\ Nobody \in Owners /\ Nobody \notin Incarnations /\ Owners = {Nobody} \cup Incarnations
  /\ Nobody.name = NoControlPlane
  /\ NoBody \in [of : Owners, at : 0 .. 3] /\ Idle \in [Components -> [of : Owners, at : 0 .. 3]]
  /\ NoBody.of = Nobody
  /\ \A c \in ControlPlanes, u \in Nat :
       Incarnation(c, u) \in Incarnations /\ Incarnation(c, u).name = c /\ Incarnation(c, u).uid = u
  /\ \A o \in Incarnations : o.name \in ControlPlanes /\ o.uid \in Nat /\ o = Incarnation(o.name, o.uid)
  <1>1. 0 \in Calls
    BY BoundsAssumption DEF Calls
  <1>2. /\ Nobody \in Owners /\ Owners = {Nobody} \cup Incarnations /\ Nobody.name = NoControlPlane
        /\ \A o \in Incarnations : o.name \in ControlPlanes
    BY DEF Nobody, Owners, Incarnations
  <1>3. Nobody \notin Incarnations
    BY <1>2, NoControlPlaneAssumption
  <1>4. NoBody \in [of : Owners, at : 0 .. 3] /\ NoBody.of = Nobody
    BY <1>2 DEF NoBody
  <1>5. Idle \in [Components -> [of : Owners, at : 0 .. 3]]
    BY <1>4 DEF Idle
  <1> QED
    BY <1>1, <1>2, <1>3, <1>4, <1>5 DEF Incarnation, Incarnations

\* The types, part by part.
LEMMA Typed ==
  ASSUME TypeOK
  PROVE  /\ child \in [Children -> Owners]
         /\ body \in [Calls -> [Components -> [of : Owners, at : 0 .. 3]]]
         /\ \A n \in Calls, i \in Components :
              body[n][i].of \in Owners /\ body[n][i].at \in 0 .. 3
         /\ \A c \in ControlPlanes :
              /\ created[c] \in Nat /\ api[c].uid \in Nat /\ cache[c].uid \in Nat
              /\ Seen(c) \in Nat
         /\ block \in 0 .. Len(Blocks) /\ read \in Nat
         /\ pc # "idle" => cur \in ControlPlanes
         /\ Ordered => ~early
  BY TypesAre DEF TypeOK, Ordered

\* Where a goroutine at work comes from.
LEMMA BodyMoves ==
  ASSUME TypeOK, [Next]_vars, NEW n \in Calls, NEW i \in Components, AtWork(n, i)'
  PROVE  \/ \E m \in Calls :
              /\ AtWork(m, i) /\ body'[n][i] = body[m][i]
              /\ m # n => pc = "idle"
         \/ /\ Applies(n, i)
            /\ body'[n][i].of = body[n][i].of /\ body'[n][i].at = body[n][i].at + 1
            /\ body[n][i].at < Len(Applied(body[n][i].of.name, i))
         \/ /\ n = 0 /\ i = "general" /\ pc' = "select"
            /\ \E c \in ControlPlanes :
                 Load(c) /\ body'[n][i] = [of |-> Incarnation(c, cache[c].uid), at |-> 1]
         \/ /\ n = 0 /\ Proceed /\ i = Blocks[block + 1]
            /\ body'[n][i] = [of |-> Incarnation(cur, read), at |-> 1]
  <1>0. /\ body \in [Calls -> [Components -> [of : Owners, at : 0 .. 3]]]
        /\ 0 \in Calls /\ body'[n][i] # NoBody
    BY Typed, OwnersAre DEF AtWork
  <1>1. CASE body'[n][i] = body[n][i]
    BY <1>0, <1>1 DEF AtWork
  <1>2. CASE Stops
    BY <1>0, <1>2 DEF Stops, Idle
  <1>3. ASSUME NEW c \in ControlPlanes, Load(c), StartCall(c), pc = "idle", pc' = "select", n = 0
        PROVE  i = "general" /\ body'[n][i] = [of |-> Incarnation(c, cache[c].uid), at |-> 1]
    <2>1. body'[0] = Launched(c, cache[c].uid, "general")
      BY <1>0, <1>3 DEF StartCall
    <2> QED
      BY <1>0, <1>3, <2>1 DEF Launched
  <1>4. ASSUME NEW c \in ControlPlanes, Load(c), StartCall(c), pc = "idle", n # 0,
               body'[n][i] # body[n][i]
        PROVE  AtWork(0, i) /\ body'[n][i] = body[0][i]
    <2>1. body'[n] = body[n] \/ body'[n] = body[0]
      BY <1>0, <1>4 DEF StartCall
    <2> QED
      BY <1>0, <1>4, <2>1 DEF AtWork
  <1>5. ASSUME NEW c \in ControlPlanes, Load(c), body'[n][i] # body[n][i]
        PROVE  pc = "idle" /\ pc' = "select" /\ StartCall(c)
    BY <1>5 DEF Load
  <1>6. ASSUME Proceed, body'[n][i] # body[n][i]
        PROVE  n = 0 /\ i = Blocks[block + 1]
               /\ body'[n][i] = [of |-> Incarnation(cur, read), at |-> 1]
    <2>1. /\ body' = [body EXCEPT ![0][Blocks[block + 1]] =
                        [of |-> Incarnation(cur, read), at |-> 1]]
      BY <1>6 DEF Proceed, NextBlock
    <2> QED
      BY <1>0, <1>6, <2>1
  <1>7. ASSUME NEW m \in Calls, NEW j \in Components, Applies(m, j), body'[n][i] # body[n][i]
        PROVE  /\ Applies(n, i)
               /\ body'[n][i].of = body[n][i].of /\ body'[n][i].at = body[n][i].at + 1
               /\ body[n][i].at < Len(Applied(body[n][i].of.name, i))
    <2> DEFINE len == Len(Applied(body[m][j].of.name, j))
               next == IF body[m][j].at < len
                       THEN [of |-> body[m][j].of, at |-> body[m][j].at + 1] ELSE NoBody
    <2>1. body' = [body EXCEPT ![m][j] = next]
      BY <1>7 DEF Applies, Advance
    <2>3. body[m][j].at < len => next.of = body[m][j].of /\ next.at = body[m][j].at + 1
      OBVIOUS
    <2>4. ~(body[m][j].at < len) => next = NoBody
      OBVIOUS
    <2> HIDE DEF next, len
    <2>5. m = n /\ j = i /\ body'[n][i] = next
      BY <1>0, <1>7, <2>1
    <2> QED
      BY <1>0, <1>7, <2>3, <2>4, <2>5 DEF len
  <1>8. ASSUME NEW m \in Calls, NEW j \in Components, Fails(m, j)
        PROVE  body'[n][i] = body[n][i]
    BY <1>0, <1>8 DEF Fails, Fail
  <1>9. CASE Still \/ Returns \/ \E k \in Children : Frees(k)
    BY <1>1, <1>9 DEF Still, Returns, Frees
  <1>10. CASE \E c \in ControlPlanes : Load(c)
    BY <1>0, <1>1, <1>3, <1>4, <1>5, <1>10
  <1>11. CASE Proceed
    BY <1>1, <1>6, <1>11
  <1>12. CASE \E m \in Calls, j \in Components : Applies(m, j) \/ Fails(m, j)
    BY <1>1, <1>7, <1>8, <1>12
  <1> QED
    BY <1>2, <1>9, <1>10, <1>11, <1>12, Moves

\* How a child gets another owner.
LEMMA ChildMoves ==
  ASSUME TypeOK, [Next]_vars, NEW k \in Children, child'[k] # child[k]
  PROVE  \/ \E n \in Calls, i \in Components :
              Applies(n, i) /\ k = Target(n, i) /\ child'[k] = body[n][i].of
         \/ ~Alive(child[k]) /\ child'[k] = Nobody
  <1>0. child \in [Children -> Owners]
    BY Typed
  <1>1. ASSUME NEW n \in Calls, NEW i \in Components, Applies(n, i)
        PROVE  k = Target(n, i) /\ child'[k] = body[n][i].of
    BY <1>0, <1>1 DEF Applies, Pass
  <1>2. ASSUME NEW h \in Children, Frees(h)
        PROVE  ~Alive(child[k]) /\ child'[k] = Nobody
    BY <1>0, <1>2 DEF Frees
  <1>3. child' = child \/ (\E n \in Calls, i \in Components : Applies(n, i))
          \/ (\E h \in Children : Frees(h))
    BY Moves DEF Still, Returns, Stops, Load, Proceed, Fails
  <1> QED
    BY <1>1, <1>2, <1>3

\* The worker keeps its object, or takes one that the informer has.
LEMMA WorkerMoves ==
  ASSUME [Next]_vars, pc' # "idle"
  PROVE  \/ pc # "idle" /\ cur' = cur /\ read' = read /\ ((pc' = pc /\ block' = block) \/ Proceed)
         \/ \E c \in ControlPlanes :
              /\ Load(c) /\ pc = "idle" /\ block' = 0
              /\ cur' = c /\ read' = cache[c].uid /\ read' = Seen(c)
  <1>1. UNCHANGED worker \/ Proceed \/ \E c \in ControlPlanes : Load(c)
    BY Moves DEF Still, Returns, Stops, Applies, Fails, Fail, Frees, Return
  <1>2. CASE UNCHANGED worker
    BY <1>2 DEF worker
  <1>3. CASE Proceed
    BY <1>3 DEF Proceed
  <1>4. CASE \E c \in ControlPlanes : Load(c)
    BY <1>4 DEF Load, Seen
  <1> QED
    BY <1>1, <1>2, <1>3, <1>4

\* What has overtaken stays overtaken.
LEMMA OrderedBefore ==
  ASSUME [Next]_vars, Ordered'
  PROVE  Ordered
  BY Moves
  DEF Ordered, Still, Returns, Stops, Load, StartCall, Proceed, Applies, Fails, Frees, history

-----------------------------------------------------------------------------
(* the invariant holds initially *)

LEMMA InitIInv == Init => IInv
  <1> SUFFICES ASSUME Init PROVE IInv
    OBVIOUS
  <1>1. /\ api = [c \in ControlPlanes |-> Absent] /\ cache = [c \in ControlPlanes |-> Absent]
        /\ created = [c \in ControlPlanes |-> 0]
        /\ Absent \in ObjectType /\ Absent.phase = "absent"
    BY DEF Init, ObjectsInit, Absent, ObjectType
  <1>2. ObjectsTyped /\ ObjectInv
    BY <1>1 DEF ObjectsTyped, ObjectInv, Exists, Seen
  <1>3. /\ \A n \in Calls, i \in Components : body[n][i] = NoBody
        /\ \A k \in Children : child[k] = Nobody
        /\ pc = "idle"
    BY DEF Init, Idle
  <1>4. TypeOK
    <2>1. child \in [Children -> Owners]
      BY OwnersAre DEF Init
    <2>2. body \in [Calls -> [Components -> [of : Owners, at : 0 .. 3]]]
      BY OwnersAre DEF Init
    <2>3. spent \in [Kinds -> Nat]
      BY DEF Init
    <2>4. /\ pc = "idle" /\ cur = NoControlPlane /\ read \in Nat /\ block \in 0 .. Len(Blocks)
          /\ early = FALSE /\ overtaken = FALSE /\ takenBack = {}
      BY ComponentsAre DEF Init
    <2>5. (cur = NoControlPlane <=> pc = "idle")
      BY <2>4
    <2> QED
      BY <1>2, <2>1, <2>2, <2>3, <2>4, <2>5 DEF TypeOK
  <1>5. AgesInv
    BY <1>3, OwnersAre DEF AgesInv, InPlay
  <1>6. PlaceInv
    BY <1>3, OwnersAre, ChildrenAre DEF PlaceInv, AtWork
  <1>7. GeneralInv /\ ProgressInv
    <2>1. GeneralInv
      BY <1>3, ComponentsAre DEF GeneralInv, AtWork
    <2>2. ProgressInv
      BY <1>3 DEF ProgressInv
    <2> QED
      BY <2>1, <2>2
  <1>8. ASSUME NEW o \in Incarnations PROVE ~Working(o)
    <2>0. o # Nobody /\ Deployed \subseteq Components
      BY OwnersAre, ComponentsAre
    <2>1. \A n \in Calls, i \in Deployed : body[n][i].of # o
      BY <1>3, <2>0, OwnersAre
    <2>2. \A c \in ControlPlanes, i \in Deployed : child[Deployment(c, i)] # o
      BY <1>3, <2>0, ChildrenAre
    <2> QED
      BY <1>3, <2>1, <2>2 DEF Working
  <1>9. "gateway" \in Deployed => \A o \in Incarnations : ~Configured(o)
    BY <1>3, OwnersAre, ComponentsAre, ChildrenAre DEF Configured
  <1> QED
    BY <1>2, <1>4, <1>5, <1>6, <1>7, <1>8, <1>9 DEF IInv, HeldInv, GatewayInv

-----------------------------------------------------------------------------
(* every step preserves it *)

LEMMA SpentStep ==
  ASSUME TypeOK, [Next]_vars
  PROVE  spent' \in [Kinds -> Nat]
  <1>1. CASE UNCHANGED spent
    BY <1>1 DEF TypeOK
  <1>2. ASSUME NEW kind \in Kinds, Disturb(kind)
        PROVE  spent' \in [Kinds -> Nat]
    BY <1>2 DEF TypeOK, Disturb
  <1>3. {"api", "crash", "early", "delete", "recreate", "foreign"} = Kinds
    BY DEF Kinds
  <1>4. ASSUME NEW c \in ControlPlanes, Load(c)
        PROVE  UNCHANGED spent \/ Disturb("early")
    BY <1>4 DEF Load, StartCall, Undisturbed
  <1>5. WorkerStep => UNCHANGED spent \/ Disturb("early") \/ Disturb("api")
    BY <1>4 DEF WorkerStep, Proceed, AddFinalizer, RemoveFinalizer, Undisturbed
  <1>6. ASSUME NEW n \in Calls, NEW i \in Components, Apply(n, i)
        PROVE  UNCHANGED spent \/ Disturb("api")
    BY <1>6 DEF Apply, Undisturbed
  <1>7. Surroundings => \/ UNCHANGED spent \/ Disturb("recreate") \/ Disturb("delete")
                        \/ Disturb("foreign") \/ Disturb("crash")
    BY DEF Surroundings, Create, Delete, AddForeign, RemoveForeign, SyncCache, Collect, Crash,
           Undisturbed
  <1>8. UNCHANGED vars => UNCHANGED spent
    BY DEF vars
  <1> QED
    BY <1>1, <1>2, <1>3, <1>5, <1>6, <1>7, <1>8 DEF Next

LEMMA BodyTyped ==
  ASSUME TypeOK, [Next]_vars
  PROVE  body' \in [Calls -> [Components -> [of : Owners, at : 0 .. 3]]]
  <1> DEFINE Bodies == [of : Owners, at : 0 .. 3]
  <1>0. /\ body \in [Calls -> [Components -> Bodies]] /\ 0 \in Calls
        /\ NoBody \in Bodies /\ Idle \in [Components -> Bodies]
    BY Typed, OwnersAre
  <1>1. ASSUME NEW c \in ControlPlanes, NEW u \in Nat
        PROVE  [of |-> Incarnation(c, u), at |-> 1] \in Bodies
    BY OwnersAre
  <1>2. ASSUME NEW c \in ControlPlanes, Load(c)
        PROVE  body' \in [Calls -> [Components -> Bodies]]
    <2>1. Launched(c, cache[c].uid, "general") \in [Components -> Bodies]
      BY <1>0, <1>1, Typed DEF Launched
    <2>2. body' = body \/ StartCall(c)
      BY <1>2 DEF Load
    <2> HIDE DEF Bodies
    <2> QED
      BY <1>0, <2>1, <2>2 DEF StartCall
  <1>3. ASSUME Proceed
        PROVE  body' \in [Calls -> [Components -> Bodies]]
    <2>1. [of |-> Incarnation(cur, read), at |-> 1] \in Bodies
      BY <1>1, <1>3, Typed DEF Proceed
    <2> HIDE DEF Bodies
    <2> QED
      BY <1>0, <1>3, <2>1 DEF Proceed, NextBlock
  <1>4. ASSUME NEW n \in Calls, NEW i \in Components, Applies(n, i)
        PROVE  body' \in [Calls -> [Components -> Bodies]]
    <2> DEFINE len == Len(Applied(body[n][i].of.name, i))
               next == IF body[n][i].at < len
                       THEN [of |-> body[n][i].of, at |-> body[n][i].at + 1] ELSE NoBody
    <2>1. body' = [body EXCEPT ![n][i] = next]
      BY <1>4 DEF Applies, Advance
    <2>2. body[n][i].of \in Owners /\ body[n][i].at \in 0 .. 3 /\ len \in 2 .. 3
      BY Typed, AppliedIs
    <2>3. body[n][i].at < len => body[n][i].at + 1 \in 0 .. 3
      <3>1. PICK m \in 0 .. 3, l \in 2 .. 3 : m = body[n][i].at /\ l = len
        BY <2>2
      <3>2. m < l => m + 1 \in 0 .. 3
        OBVIOUS
      <3> QED
        BY <3>1, <3>2
    <2>4. next \in Bodies
      BY <1>0, <2>2, <2>3
    <2> HIDE DEF next, len, Bodies
    <2> QED
      BY <1>0, <2>1, <2>4
  <1>5. ASSUME NEW n \in Calls, NEW i \in Components, Fails(n, i)
        PROVE  body' \in [Calls -> [Components -> Bodies]]
    <2> HIDE DEF Bodies
    <2> QED
      BY <1>0, <1>5 DEF Fails, Fail
  <1>6. CASE Stops
    <2>1. body' = [n \in Calls |-> Idle]
      BY <1>6 DEF Stops
    <2>2. \A S : Idle \in S => body' \in [Calls -> S]
      BY <2>1
    <2>3. Idle \in [Components -> Bodies]
      BY <1>0
    <2> QED
      BY <2>2, <2>3
  <1>7. CASE UNCHANGED body
    BY <1>0, <1>7
  <1>8. Still \/ Returns \/ (\E k \in Children : Frees(k)) => UNCHANGED body
    BY DEF Still, Returns, Frees
  <1> QED
    BY <1>2, <1>3, <1>4, <1>5, <1>6, <1>7, <1>8, Moves

\* The part of TypeOK about the worker.
WorkerTyped ==
  /\ pc \in {"idle", "select", "unfinalize"}
  /\ cur \in ControlPlanes \cup {NoControlPlane} /\ (cur = NoControlPlane <=> pc = "idle")
  /\ read \in Nat /\ block \in 0 .. Len(Blocks)
  /\ early \in BOOLEAN /\ (early => pc = "select" /\ block = 0 /\ overtaken)
  /\ overtaken \in BOOLEAN

LEMMA TypeStep ==
  ASSUME TypeOK, ObjectInv, [Next]_vars
  PROVE  TypeOK'
  <1>1. ObjectsTyped'
    BY NextFollows DEF Follow
  <1>2. child' \in [Children -> Owners]
    <2>1. child \in [Children -> Owners] /\ Nobody \in Owners
          /\ \A n \in Calls, i \in Components : body[n][i].of \in Owners
      BY Typed, OwnersAre
    <2>2. ASSUME NEW n \in Calls, NEW i \in Components, Applies(n, i)
          PROVE  child' \in [Children -> Owners]
      BY <2>1, <2>2 DEF Applies, Pass
    <2>3. ASSUME NEW k \in Children, Frees(k)
          PROVE  child' \in [Children -> Owners]
      BY <2>1, <2>3 DEF Frees
    <2> QED
      BY <2>1, <2>2, <2>3, Moves DEF Still, Returns, Stops, Load, Proceed, Fails
  <1>3. WorkerTyped'
    <2>0. Len(Blocks) \in Nat /\ block \in 0 .. Len(Blocks)
          /\ \A c \in ControlPlanes : cache[c].uid \in Nat /\ c # NoControlPlane
      BY ComponentsAre, Typed, NoControlPlaneAssumption
    <2>1. CASE UNCHANGED <<pc, cur, read, block, early, overtaken>>
      BY <2>1 DEF TypeOK, WorkerTyped
    <2>2. CASE Return /\ UNCHANGED overtaken
      <3>1. /\ pc' = "idle" /\ cur' = NoControlPlane /\ read' = 0 /\ block' = 0 /\ early' = FALSE
            /\ overtaken' \in BOOLEAN
        BY <2>2 DEF TypeOK, Return
      <3>2. 0 \in 0 .. Len(Blocks)
        BY <2>0
      <3> QED
        BY <3>1, <3>2 DEF WorkerTyped
    <2>3. ASSUME NEW c \in ControlPlanes, Load(c) PROVE WorkerTyped'
      <3>1. /\ pc' \in {"select", "unfinalize"} /\ cur' = c /\ read' \in Nat /\ block' = 0
            /\ 0 \in 0 .. Len(Blocks) /\ c # NoControlPlane
        BY <2>0, <2>3 DEF Load
      <3>2. ~early /\ early \in BOOLEAN /\ overtaken \in BOOLEAN
        BY <2>3 DEF TypeOK, Load
      <3>3. CASE UNCHANGED <<early, overtaken>>
        BY <3>1, <3>2, <3>3 DEF WorkerTyped
      <3>4. CASE pc' = "select" /\ StartCall(c)
        <4>1. \/ early' = FALSE /\ overtaken' = overtaken
              \/ early' = TRUE /\ overtaken' = TRUE
          BY <3>4 DEF StartCall
        <4> QED
          BY <3>1, <3>2, <3>4, <4>1 DEF WorkerTyped
      <3> QED
        BY <2>3, <3>3, <3>4 DEF Load
    <2>4. CASE Proceed
      <3>1. block' \in 0 .. Len(Blocks) /\ early' = FALSE /\ UNCHANGED <<pc, cur, read, overtaken>>
        BY <2>0, <2>4 DEF Proceed, NextBlock, history
      <3> QED
        BY <3>1 DEF TypeOK, WorkerTyped
    <2>5. ASSUME NEW n \in Calls, NEW i \in Components, Fails(n, i)
          PROVE  \/ UNCHANGED <<pc, cur, read, block, early, overtaken>>
                 \/ Return /\ UNCHANGED overtaken
      BY <2>5 DEF Fails, Fail, history, worker
    <2>6. Still \/ (\E n \in Calls, i \in Components : Applies(n, i)) \/ (\E k \in Children : Frees(k))
            => UNCHANGED <<pc, cur, read, block, early, overtaken>>
      BY DEF Still, Applies, Frees, history, worker
    <2>7. Returns \/ Stops => Return /\ UNCHANGED overtaken
      BY DEF Returns, Stops, history
    <2> QED
      BY <2>1, <2>2, <2>3, <2>4, <2>5, <2>6, <2>7, Moves
  <1>4. body' \in [Calls -> [Components -> [of : Owners, at : 0 .. 3]]]
    BY BodyTyped
  <1>5. takenBack' \subseteq OwnFiles
    <2>1. UNCHANGED takenBack \/ \E n \in Calls, i \in Components : Applies(n, i)
      BY Moves DEF Still, Returns, Stops, Load, Proceed, Fails, Frees, history
    <2> QED
      BY <2>1 DEF TypeOK, Applies, Pass
  <1> QED
    BY <1>1, <1>2, <1>3, <1>4, <1>5, SpentStep DEF TypeOK, WorkerTyped

\* What comes into play is what the informer has.
LEMMA PlayStep ==
  ASSUME TypeOK, [Next]_vars, NEW o \in Incarnations, InPlay(o)'
  PROVE  \/ InPlay(o)
         \/ \E c \in ControlPlanes : Load(c) /\ o = Incarnation(c, cache[c].uid)
  <1>1. ASSUME NEW k \in Children, child'[k] = o
        PROVE  InPlay(o)
    BY <1>1, ChildMoves, OwnersAre DEF InPlay
  <1>2. ASSUME NEW n \in Calls, NEW i \in Components, body'[n][i].of = o
        PROVE  \/ InPlay(o)
               \/ \E c \in ControlPlanes : Load(c) /\ o = Incarnation(c, cache[c].uid)
    <2>1. AtWork(n, i)'
      BY <1>2, OwnersAre DEF AtWork
    <2>2. ASSUME Proceed, o = Incarnation(cur, read) PROVE InPlay(o)
      BY <2>2 DEF InPlay, Proceed
    <2>3. ASSUME NEW m \in Calls, body[m][i].of = o PROVE InPlay(o)
      BY <2>3 DEF InPlay
    <2>4. CASE \E m \in Calls : body'[n][i] = body[m][i]
      BY <1>2, <2>3, <2>4
    <2>5. CASE body'[n][i].of = body[n][i].of
      BY <1>2, <2>3, <2>5
    <2>6. CASE \E c \in ControlPlanes :
                 Load(c) /\ body'[n][i] = [of |-> Incarnation(c, cache[c].uid), at |-> 1]
      BY <1>2, <2>6
    <2>7. CASE Proceed /\ body'[n][i] = [of |-> Incarnation(cur, read), at |-> 1]
      BY <1>2, <2>2, <2>7
    <2> QED
      BY <2>1, <2>4, <2>5, <2>6, <2>7, BodyMoves
  <1>3. ASSUME pc' # "idle", o = Incarnation(cur', read')
        PROVE  \/ InPlay(o)
               \/ \E c \in ControlPlanes : Load(c) /\ o = Incarnation(c, cache[c].uid)
    BY <1>3, WorkerMoves DEF InPlay
  <1>4. \/ \E k \in Children : child'[k] = o
        \/ \E n \in Calls, i \in Components : body'[n][i].of = o
        \/ pc' # "idle" /\ o = Incarnation(cur', read')
    BY DEF InPlay, Incarnation
  <1> QED
    BY <1>1, <1>2, <1>3, <1>4

LEMMA AgesStep ==
  ASSUME TypeOK, ObjectInv, AgesInv, [Next]_vars
  PROVE  AgesInv'
  <1> SUFFICES ASSUME NEW o \in Incarnations, InPlay(o)'
               PROVE  /\ o.uid <= Seen(o.name)'
                      /\ pc' # "idle" /\ o.name = cur' => o.uid <= read'
    BY DEF AgesInv
  <1>1. /\ o.name \in ControlPlanes /\ o.uid \in Nat
        /\ \A c \in ControlPlanes : Seen(c) \in Nat /\ Seen(c)' \in Nat /\ Seen(c) <= Seen(c)'
    <2>1. Follow /\ TypeOK'
      BY NextFollows, TypeStep
    <2>2. \A c \in ControlPlanes : Seen(c)' \in Nat
      BY <2>1 DEF Seen, TypeOK, ObjectsTyped, ObjectType
    <2> QED
      BY <2>1, <2>2, OwnersAre, Typed DEF Follow
  <1>2. InPlay(o) => o.uid <= Seen(o.name)
    BY DEF AgesInv
  <1>3. ASSUME NEW c \in ControlPlanes, Load(c), o = Incarnation(c, cache[c].uid)
        PROVE  o.uid = Seen(c) /\ o.name = c
    BY <1>3, OwnersAre, Typed DEF Load, Seen
  <1>4. o.uid <= Seen(o.name)
    BY <1>1, <1>2, <1>3, PlayStep
  <1>5. o.uid <= Seen(o.name)'
    BY <1>1, <1>4
  <1>6. ASSUME pc' # "idle", o.name = cur'
        PROVE  o.uid <= read'
    <2>1. CASE \E c \in ControlPlanes : cur' = c /\ read' = Seen(c)
      BY <1>4, <1>6, <2>1
    <2>2. CASE pc # "idle" /\ cur' = cur /\ read' = read
      <3>1. ~\E c \in ControlPlanes : Load(c)
        BY <2>2 DEF Load
      <3>2. InPlay(o)
        BY <3>1, PlayStep
      <3> QED
        BY <1>6, <2>2, <3>2 DEF AgesInv
    <2> QED
      BY <1>6, <2>1, <2>2, WorkerMoves
  <1> QED
    BY <1>5, <1>6

\* An incarnation in play that exists after a step did so before, and is the last.
LEMMA AliveBefore ==
  ASSUME TypeOK, ObjectInv, AgesInv, [Next]_vars, NEW o \in Incarnations, InPlay(o), Alive(o)'
  PROVE  Alive(o)
  <1>1. o.name \in ControlPlanes /\ o.uid \in Nat /\ o.uid <= Seen(o.name)
        /\ Seen(o.name) <= created[o.name] /\ Seen(o.name) \in Nat /\ created[o.name] \in Nat
    BY OwnersAre, Typed DEF AgesInv, ObjectInv
  <1>2. o.uid <= created[o.name]
    BY <1>1
  <1> QED
    BY <1>2, NextFollows DEF Follow

LEMMA AliveIsLast ==
  ASSUME ObjectInv, NEW o \in Incarnations, Alive(o)
  PROVE  o.uid = created[o.name]
  BY OwnersAre DEF ObjectInv, Alive

\* A goroutine at work applies a child.
LEMMA TargetIs ==
  ASSUME PlaceInv, NEW n \in Calls, NEW i \in Components, AtWork(n, i)
  PROVE  /\ body[n][i].of \in Incarnations /\ body[n][i].of.name \in ControlPlanes
         /\ body[n][i].at \in 1 .. Len(Applied(body[n][i].of.name, i))
         /\ Target(n, i) = Applied(body[n][i].of.name, i)[body[n][i].at]
         /\ Target(n, i) \in Children
         /\ InPlay(body[n][i].of)
  <1>1. /\ body[n][i].of \in Incarnations /\ body[n][i].of.name \in ControlPlanes
        /\ body[n][i].at \in 1 .. Len(Applied(body[n][i].of.name, i))
    BY OwnersAre DEF PlaceInv
  <1> QED
    BY <1>1, ChildrenAre DEF Target, InPlay

LEMMA PlaceStep ==
  ASSUME TypeOK, PlaceInv, [Next]_vars
  PROVE  PlaceInv'
  <1> DEFINE Placed(b, i) == b.of \in Incarnations /\ b.at \in 1 .. Len(Applied(b.of.name, i))
  <1>1. ASSUME NEW n \in Calls, NEW i \in Components, AtWork(n, i)'
        PROVE  Placed(body'[n][i], i)
    <2>0. \A m \in Calls : AtWork(m, i) => Placed(body[m][i], i)
      BY DEF PlaceInv
    <2>1. CASE AtWork(n, i) /\ body'[n][i].of = body[n][i].of
               /\ body'[n][i].at = body[n][i].at + 1
               /\ body[n][i].at < Len(Applied(body[n][i].of.name, i))
      <3>1. PICK m \in 1 .. 3, l \in 2 .. 3 :
              m = body[n][i].at /\ l = Len(Applied(body[n][i].of.name, i))
        BY <2>0, <2>1, AppliedIs
      <3>2. m < l => m + 1 \in 1 .. l
        OBVIOUS
      <3> QED
        BY <2>0, <2>1, <3>1, <3>2
    <2>2. ASSUME NEW c \in ControlPlanes, NEW u \in Nat
          PROVE  Placed([of |-> Incarnation(c, u), at |-> 1], i)
      <3>1. Incarnation(c, u) \in Incarnations
        BY OwnersAre
      <3>2. Len(Applied(Incarnation(c, u).name, i)) \in 2 .. 3
        BY AppliedIs
      <3> QED
        BY <3>1, <3>2
    <2>3. /\ Proceed => cur \in ControlPlanes /\ read \in Nat
          /\ \A c \in ControlPlanes : cache[c].uid \in Nat
          /\ Applies(n, i) => AtWork(n, i)
      BY Typed DEF Proceed, Applies
    <2> HIDE DEF Placed
    <2> QED
      BY <1>1, <2>0, <2>1, <2>2, <2>3, BodyMoves
  <1>2. ASSUME NEW c \in ControlPlanes, NEW i \in Deployed
        PROVE  child'[Deployment(c, i)].name \in {c, NoControlPlane}
    <2>1. /\ Deployment(c, i) \in Children /\ i \in Components
          /\ child[Deployment(c, i)].name \in {c, NoControlPlane}
      BY ChildrenAre, ComponentsAre DEF PlaceInv
    <2>2. ASSUME NEW n \in Calls, NEW j \in Components, Applies(n, j),
                 Deployment(c, i) = Target(n, j)
          PROVE  body[n][j].of.name = c
      <3>1. AtWork(n, j)
        BY <2>2 DEF Applies
      <3> QED
        BY <2>2, <3>1, TargetIs, OneApplies DEF Deployment
    <2> QED
      BY <2>1, <2>2, ChildMoves, OwnersAre
  <1> QED
    BY <1>1, <1>2 DEF PlaceInv

\* General is at work in the last call only.
LEMMA GeneralIs ==
  ASSUME TypeOK, GeneralInv, Ordered, NEW n \in Calls, AtWork(n, "general")
  PROVE  /\ n = 0 /\ pc = "select" /\ block = 0 /\ ~early /\ ~Terminated
         /\ body[n]["general"].of = Incarnation(cur, read)
         /\ InPlay(Incarnation(cur, read)) /\ cur \in ControlPlanes /\ read \in Nat
  BY Typed DEF GeneralInv, Terminated, InPlay

\* While it is, main stays where it is.
LEMMA MainWaits ==
  ASSUME TypeOK, GeneralInv, Ordered, [Next]_vars,
         AtWork(0, "general"), AtWork(0, "general")'
  PROVE  UNCHANGED <<pc, cur, read, block>>
  <1>0. /\ 0 \in Calls /\ "general" \in Components
        /\ pc = "select" /\ block = 0 /\ ~Terminated
    BY GeneralIs, OwnersAre, ComponentsAre
  <1>1. ~Returns /\ ~Proceed /\ ~\E c \in ControlPlanes : Load(c)
    BY <1>0 DEF Returns, Proceed, Load
  <1>2. ~Stops
    BY <1>0 DEF Stops, Idle, AtWork
  <1>3. ASSUME NEW n \in Calls, NEW i \in Components, Fails(n, i)
        PROVE  UNCHANGED worker
    <2>1. CASE n = 0 /\ i = "general"
      BY <1>0, <1>3, <2>1, Typed DEF Fails, Fail, AtWork
    <2>2. CASE ~(n = 0 /\ i = "general")
      BY <1>0, <1>3, <2>2 DEF Fails, Fail, InBlock
    <2> QED
      BY <2>1, <2>2
  <1> QED
    BY <1>1, <1>2, <1>3, Moves DEF Still, Applies, Frees, worker

LEMMA GeneralStep ==
  ASSUME TypeOK, GeneralInv, [Next]_vars
  PROVE  GeneralInv'
  <1> SUFFICES ASSUME Ordered', NEW n \in Calls, AtWork(n, "general")'
               PROVE  /\ n = 0 /\ pc' = "select" /\ block' = 0
                      /\ body'[n]["general"].of = Incarnation(cur', read')
    BY DEF GeneralInv, Incarnation
  <1>0. Ordered /\ "general" \in Components
    BY OrderedBefore, ComponentsAre
  <1>1. CASE /\ AtWork(n, "general") /\ body'[n]["general"].of = body[n]["general"].of
    <2>1. /\ n = 0 /\ pc = "select" /\ block = 0
          /\ body[n]["general"].of = Incarnation(cur, read)
      BY <1>0, <1>1, GeneralIs
    <2>2. UNCHANGED <<pc, cur, read, block>>
      BY <1>0, <1>1, <2>1, MainWaits
    <2> QED
      BY <1>1, <2>1, <2>2 DEF Incarnation
  <1>2. ASSUME NEW m \in Calls, AtWork(m, "general"), m # n => pc = "idle"
        PROVE  m = n
    BY <1>0, <1>2, GeneralIs
  <1>3. ASSUME NEW c \in ControlPlanes, Load(c), n = 0, pc' = "select",
               body'[n]["general"] = [of |-> Incarnation(c, cache[c].uid), at |-> 1]
        PROVE  /\ n = 0 /\ pc' = "select" /\ block' = 0
               /\ body'[n]["general"].of = Incarnation(cur', read')
    BY <1>3 DEF Load
  <1>4. Proceed => "general" # Blocks[block + 1]
    <2>1. Proceed => block + 1 \in 1 .. Len(Blocks)
      BY Typed, ComponentsAre DEF Proceed, NextBlock
    <2> QED
      BY <2>1, ComponentsAre
  <1>5. Applies(n, "general") => AtWork(n, "general")
    BY DEF Applies
  <1> QED
    BY <1>0, <1>1, <1>2, <1>3, <1>4, <1>5, BodyMoves

\* What an incarnation that exists has of the shared objects it keeps.
LEMMA SharedKept ==
  ASSUME IInv, [Next]_vars, Ordered, NEW o \in Incarnations, Alive(o),
         NEW k \in Shared, child[k] = o
  PROVE  child'[k] = o
  <1>0. /\ TypeOK /\ ObjectInv /\ AgesInv /\ PlaceInv /\ GeneralInv
        /\ k \in Children /\ InPlay(o) /\ o.name \in ControlPlanes /\ o.uid \in Nat
    BY OwnersAre DEF IInv, Shared, InPlay
  <1> SUFFICES ASSUME NEW n \in Calls, NEW i \in Components, Applies(n, i), k = Target(n, i),
                      child'[k] = body[n][i].of
               PROVE  body[n][i].of = o
    BY <1>0, ChildMoves
  <1>1. AtWork(n, i) /\ child[k].name \in {body[n][i].of.name, NoControlPlane}
    BY DEF Applies
  <1>2. i = "general"
    BY <1>0, <1>1, TargetIs, SharedAre
  <1>3. /\ pc = "select" /\ body[n][i].of = Incarnation(cur, read)
        /\ InPlay(Incarnation(cur, read)) /\ cur \in ControlPlanes /\ read \in Nat
    BY <1>0, <1>1, <1>2, GeneralIs
  <1>4. o.name = cur
    BY <1>0, <1>1, <1>3, OwnersAre, NoControlPlaneAssumption
  <1>5. o.uid <= read
    BY <1>0, <1>3, <1>4 DEF AgesInv
  <1>6. read <= created[cur]
    <2>1. read <= Seen(cur)
      BY <1>0, <1>3, OwnersAre DEF AgesInv
    <2>2. Seen(cur) <= created[cur] /\ Seen(cur) \in Nat /\ created[cur] \in Nat
      BY <1>0, <1>3, Typed DEF ObjectInv
    <2> QED
      BY <1>3, <2>1, <2>2
  <1>7. o.uid = created[cur]
    BY <1>0, <1>4, AliveIsLast
  <1>8. o.uid = read
    BY <1>0, <1>3, <1>5, <1>6, <1>7
  <1> QED
    BY <1>3, <1>4, <1>8, OwnersAre

\* How general's goroutine of the last call gets on while main is in its block.
LEMMA GeneralAdvances ==
  ASSUME IInv, Ordered, [Next]_vars, pc' = "select", block' = 0, pc = "select",
         NEW m \in 1 .. 3, AtWork(0, "general") /\ m >= body[0]["general"].at,
         AtWork(0, "general")' => m < body'[0]["general"].at
  PROVE  child'[Applied(cur, "general")[m]] = Incarnation(cur, read)
  <1>0. /\ TypeOK /\ PlaceInv /\ GeneralInv /\ 0 \in Calls /\ "general" \in Components
        /\ body \in [Calls -> [Components -> [of : Owners, at : 0 .. 3]]]
        /\ child \in [Children -> Owners]
    BY Typed, OwnersAre, ComponentsAre DEF IInv
  <1>1. /\ block = 0 /\ ~early /\ body[0]["general"].of = Incarnation(cur, read)
        /\ cur \in ControlPlanes /\ Incarnation(cur, read).name = cur
    BY <1>0, GeneralIs, OwnersAre
  <1>2. body'[0]["general"] # body[0]["general"]
    BY <1>0, Typed DEF AtWork
  <1>3. \E n \in Calls, i \in Components : Applies(n, i) \/ Fails(n, i)
    <2>1. ~Proceed
      BY <1>1 DEF Proceed, NextBlock
    <2>2. ~\E c \in ControlPlanes : Load(c)
      BY DEF Load
    <2>3. ~Stops
      BY DEF Stops, Return
    <2> QED
      BY <1>2, <2>1, <2>2, <2>3, Moves DEF Still, Returns, Frees
  <1>4. ASSUME NEW n \in Calls, NEW i \in Components, Fails(n, i) PROVE FALSE
    <2>1. n = 0 /\ i = "general"
      BY <1>0, <1>2, <1>4 DEF Fails, Fail
    <2> QED
      BY <1>1, <1>4, <2>1 DEF Fails, Fail, Return
  <1>5. ASSUME NEW n \in Calls, NEW i \in Components, Applies(n, i)
        PROVE  child'[Applied(cur, "general")[m]] = Incarnation(cur, read)
    <2>1. n = 0 /\ i = "general"
      BY <1>0, <1>2, <1>5 DEF Applies, Advance
    <2>2. /\ Len(Applied(cur, "general")) = 3
          /\ body[0]["general"].at \in 1 .. 3
          /\ Target(0, "general") = Applied(cur, "general")[body[0]["general"].at]
          /\ Target(0, "general") \in Children
      BY <1>0, <1>1, AppliedIs, TargetIs
    <2> DEFINE next == IF body[0]["general"].at < 3
                       THEN [of |-> body[0]["general"].of, at |-> body[0]["general"].at + 1]
                       ELSE NoBody
    <2>3. body' = [body EXCEPT ![0]["general"] = next]
      BY <1>1, <1>5, <2>1, <2>2 DEF Applies, Advance
    <2>4. body[0]["general"].at < 3 =>
            next.at = body[0]["general"].at + 1 /\ next.of = Incarnation(cur, read)
      BY <1>1
    <2>5. ~(body[0]["general"].at < 3) => next = NoBody
      OBVIOUS
    <2> HIDE DEF next
    <2>6. body'[0]["general"] = next
      BY <1>0, <2>3
    <2>7. PICK l \in 1 .. 3 : l = body[0]["general"].at
      BY <2>2
    <2>8. l < 3 => next # NoBody
      BY <1>0, <1>1, <2>4, <2>7, OwnersAre, Typed
    <2>9. m = l
      <3>1. CASE l < 3
        BY <2>4, <2>6, <2>7, <2>8, <3>1 DEF AtWork
      <3>2. CASE ~(l < 3)
        BY <2>7, <3>2
      <3> QED
        BY <3>1, <3>2
    <2>10. child'[Target(0, "general")] = Incarnation(cur, read)
      BY <1>0, <1>1, <1>5, <2>1, <2>2 DEF Applies, Pass
    <2> QED
      BY <2>2, <2>7, <2>9, <2>10
  <1> QED
    BY <1>3, <1>4, <1>5

LEMMA ProgressStep ==
  ASSUME IInv, [Next]_vars
  PROVE  ProgressInv'
  <1> SUFFICES ASSUME Ordered', pc' = "select", block' = 0, NEW m \in 1 .. 3,
                      AtWork(0, "general")' => m < body'[0]["general"].at,
                      Alive(Incarnation(cur, read))'
               PROVE  child'[Applied(cur', "general")[m]] = Incarnation(cur', read')
    BY DEF ProgressInv, Owned, Incarnation, Alive, Exists
  <1>0. /\ TypeOK /\ ObjectInv /\ AgesInv /\ PlaceInv /\ GeneralInv /\ ProgressInv /\ Ordered
        /\ 0 \in Calls
    BY OrderedBefore, OwnersAre DEF IInv
  <1>1. ASSUME NEW c \in ControlPlanes, Load(c)
        PROVE  FALSE
    <2>1. body'[0] = Launched(c, cache[c].uid, "general")
      <3>1. StartCall(c)
        BY <1>1 DEF Load
      <3> QED
        BY <1>0, <3>1, Typed DEF StartCall
    <2>2. /\ body'[0]["general"] = [of |-> Incarnation(c, cache[c].uid), at |-> 1]
          /\ cache[c].uid \in Nat
      BY <2>1, ComponentsAre, <1>0, Typed DEF Launched
    <2>3. body'[0]["general"] # NoBody /\ body'[0]["general"].at = 1
      BY <2>2, OwnersAre
    <2> QED
      BY <2>3 DEF AtWork
  <1>2. pc = "select" /\ cur' = cur /\ read' = read /\ block = 0
    <2>1. ~Proceed
      BY <1>0, Typed DEF Proceed, NextBlock
    <2> QED
      BY <1>1, <2>1, WorkerMoves
  <1>3. cur \in ControlPlanes /\ Incarnation(cur, read) \in Incarnations /\ read \in Nat
    BY <1>0, <1>2, Typed, OwnersAre
  <1>4. PICK o \in Incarnations : o = Incarnation(cur, read)
    BY <1>3
  <1>5. PICK k \in Shared : k = Applied(cur, "general")[m]
    BY <1>3, SharedAre
  <1>6. InPlay(o) /\ Alive(o)
    <2>1. InPlay(o)
      BY <1>2, <1>4 DEF InPlay
    <2>2. Alive(o)'
      BY <1>2, <1>4 DEF Alive, Exists, Incarnation
    <2> QED
      BY <1>0, <2>1, <2>2, AliveBefore
  <1>7. CASE AtWork(0, "general") => m < body[0]["general"].at
    <2>1. child[k] = o
      BY <1>0, <1>2, <1>4, <1>5, <1>6, <1>7 DEF ProgressInv, Owned
    <2>2. child'[k] = o
      BY <1>0, <1>6, <2>1, SharedKept
    <2> QED
      BY <1>2, <1>4, <1>5, <2>2
  <1>8. CASE AtWork(0, "general") /\ ~(m < body[0]["general"].at)
    <2>1. m >= body[0]["general"].at
      BY <1>0, <1>8, Typed, ComponentsAre
    <2> QED
      BY <1>0, <1>2, <1>8, <2>1, GeneralAdvances
  <1> QED
    BY <1>7, <1>8

\* An incarnation gets past general, or was before.
LEMMA WorkingStep ==
  ASSUME TypeOK, PlaceInv, [Next]_vars, NEW o \in Incarnations, Working(o)'
  PROVE  Working(o) \/ (Proceed /\ o = Incarnation(cur, read) /\ block = 0)
  <1>0. ASSUME Proceed, o = Incarnation(cur, read)
        PROVE  Working(o) \/ block = 0
    BY <1>0, Typed DEF Proceed, Working
  <1>1. ASSUME NEW n \in Calls, NEW i \in Deployed, body'[n][i].of = o
        PROVE  Working(o) \/ (Proceed /\ o = Incarnation(cur, read))
    <2>0. i \in Components /\ i # "general"
      BY ComponentsAre
    <2>1. AtWork(n, i)'
      BY <1>1, OwnersAre DEF AtWork
    <2>2. ASSUME NEW m \in Calls, body[m][i].of = o PROVE Working(o)
      BY <2>2 DEF Working
    <2>3. CASE \E m \in Calls : body'[n][i] = body[m][i]
      BY <1>1, <2>2, <2>3
    <2>4. CASE body'[n][i].of = body[n][i].of
      BY <1>1, <2>2, <2>4
    <2>5. CASE Proceed /\ body'[n][i] = [of |-> Incarnation(cur, read), at |-> 1]
      BY <1>1, <2>5
    <2> QED
      BY <2>0, <2>1, <2>3, <2>4, <2>5, BodyMoves
  <1>2. ASSUME pc' = "select", block' > 0, o = Incarnation(cur', read')
        PROVE  Working(o) \/ (Proceed /\ o = Incarnation(cur, read))
    <2>1. /\ pc # "idle" /\ cur' = cur /\ read' = read
          /\ (pc' = pc /\ block' = block) \/ Proceed
      BY <1>2, WorkerMoves
    <2>2. o = Incarnation(cur, read)
      BY <1>2, <2>1
    <2> QED
      BY <1>2, <2>1, <2>2 DEF Working
  <1>3. ASSUME NEW c \in ControlPlanes, NEW i \in Deployed, child'[Deployment(c, i)] = o
        PROVE  Working(o)
    <2>1. Deployment(c, i) \in Children
      BY ChildrenAre
    <2>2. CASE child'[Deployment(c, i)] = child[Deployment(c, i)]
      BY <1>3, <2>2 DEF Working
    <2>3. ASSUME NEW n \in Calls, NEW j \in Components, Applies(n, j),
                 Deployment(c, i) = Target(n, j), body[n][j].of = o
          PROVE  Working(o)
      <3>1. AtWork(n, j)
        BY <2>3 DEF Applies
      <3>2. j = i
        BY <2>3, <3>1, TargetIs, OneApplies DEF Deployment
      <3> QED
        BY <2>3, <3>2 DEF Working
    <2> QED
      BY <1>3, <2>1, <2>2, <2>3, ChildMoves, OwnersAre
  <1>4. \/ \E n \in Calls, i \in Deployed : body'[n][i].of = o
        \/ pc' = "select" /\ block' > 0 /\ o = Incarnation(cur', read')
        \/ \E c \in ControlPlanes, i \in Deployed : child'[Deployment(c, i)] = o
    BY DEF Working, Incarnation, Deployment, Object, Name
  <1> QED
    BY <1>0, <1>1, <1>2, <1>3, <1>4

LEMMA HeldStep ==
  ASSUME IInv, [Next]_vars
  PROVE  HeldInv'
  <1> SUFFICES ASSUME Ordered', NEW o \in Incarnations, Working(o)', NEW k \in Shared, Alive(o)'
               PROVE  child'[k] = o
    BY DEF HeldInv, Owned
  <1>0. /\ TypeOK /\ ObjectInv /\ AgesInv /\ PlaceInv /\ GeneralInv /\ ProgressInv /\ HeldInv
        /\ Ordered /\ 0 \in Calls
    BY OrderedBefore, OwnersAre DEF IInv
  <1>1. InPlay(o) /\ Owned(k, o)
    <2>1. CASE Working(o)
      <3>1. InPlay(o)
        BY <2>1, ComponentsAre, ChildrenAre DEF Working, InPlay
      <3> QED
        BY <1>0, <2>1, <3>1 DEF HeldInv
    <2>2. CASE Proceed /\ o = Incarnation(cur, read) /\ block = 0
      <3>1. pc = "select" /\ ~AtWork(0, "general") /\ cur \in ControlPlanes /\ InPlay(o)
        BY <1>0, <2>2, Typed DEF Proceed, Terminated, InPlay
      <3>2. PICK m \in 1 .. 3 : Applied(cur, "general")[m] = k
        BY <3>1, SharedAre
      <3> QED
        BY <1>0, <2>2, <3>1, <3>2 DEF ProgressInv
    <2> QED
      BY <1>0, <2>1, <2>2, WorkingStep
  <1>2. Alive(o)
    BY <1>0, <1>1, AliveBefore
  <1> QED
    BY <1>0, <1>1, <1>2, SharedKept DEF Owned

\* Two incarnations of a ControlPlane do not exist together.
LEMMA OneIsAlive ==
  ASSUME NEW o \in Incarnations, NEW p \in Incarnations, o.name = p.name, Alive(o), Alive(p)
  PROVE  o = p
  BY OwnersAre DEF Alive

\* The gateway's ConfigMap stays the incarnation's, or is taken back.
LEMMA ConfigKept ==
  ASSUME TypeOK, PlaceInv, [Next]_vars, "gateway" \in Deployed, NEW o \in Incarnations, Alive(o),
         Owned(GatewayConfig(o.name), o) \/ GatewayConfig(o.name) \in takenBack
  PROVE  child'[GatewayConfig(o.name)] = o \/ GatewayConfig(o.name) \in takenBack'
  <1> DEFINE k == GatewayConfig(o.name)
  <1>0. /\ o.name \in ControlPlanes /\ k \in OwnFiles /\ k \in Children
        /\ child \in [Children -> Owners]
    BY OwnersAre, SharedAre, Typed DEF OwnFiles
  <1>1. ASSUME NEW n \in Calls, NEW i \in Components, Applies(n, i), k = Target(n, i)
        PROVE  child'[k] = o \/ k \in takenBack'
    <2>1. AtWork(n, i)
      BY <1>1 DEF Applies
    <2>2. body[n][i].of \in Incarnations /\ body[n][i].of.name = o.name
      BY <1>0, <1>1, <2>1, TargetIs, OneApplies DEF GatewayConfig
    <2>3. /\ child'[k] = body[n][i].of
          /\ takenBack' = IF Alive(body[n][i].of) THEN takenBack \ {k}
                          ELSE IF Alive(child[k]) THEN takenBack \cup ({k} \cap OwnFiles)
                          ELSE takenBack
      BY <1>0, <1>1 DEF Applies, Pass
    <2>4. CASE Alive(body[n][i].of)
      BY <2>2, <2>3, <2>4, OneIsAlive
    <2>5. CASE ~Alive(body[n][i].of)
      <3>1. Alive(child[k]) \/ k \in takenBack
        BY DEF Owned
      <3> QED
        BY <1>0, <2>3, <2>5, <3>1
    <2> QED
      BY <2>4, <2>5
  <1>2. CASE ~\E n \in Calls, i \in Components : Applies(n, i) /\ k = Target(n, i)
    <2>1. k \in takenBack => k \in takenBack'
      <3>1. ASSUME NEW n \in Calls, NEW i \in Components, Applies(n, i), k \in takenBack
            PROVE  k \in takenBack'
        BY <1>2, <3>1 DEF Applies, Pass
      <3> QED
        BY <3>1, Moves DEF Still, Returns, Stops, Load, Proceed, Fails, Frees, history
    <2>2. child[k] = o => child'[k] = o
      BY <1>0, <1>2, ChildMoves
    <2> QED
      BY <2>1, <2>2 DEF Owned
  <1> QED
    BY <1>1, <1>2

LEMMA GatewayStep ==
  ASSUME IInv, [Next]_vars
  PROVE  GatewayInv'
  <1> SUFFICES ASSUME "gateway" \in Deployed, NEW o \in Incarnations, Configured(o)', Alive(o)'
               PROVE  child'[GatewayConfig(o.name)] = o \/ GatewayConfig(o.name) \in takenBack'
    BY DEF GatewayInv, Owned
  <1> DEFINE k == GatewayConfig(o.name)
  <1>0. /\ TypeOK /\ ObjectInv /\ AgesInv /\ PlaceInv /\ GatewayInv
        /\ o.name \in ControlPlanes /\ "gateway" \in Components /\ "gateway" # "general"
        /\ k \in Children /\ Deployment(o.name, "gateway") \in Children
        /\ child \in [Children -> Owners]
    BY OwnersAre, ComponentsAre, ChildrenAre, Typed DEF IInv
  <1>1. CASE Configured(o)
    <2>1. InPlay(o)
      BY <1>0, <1>1 DEF Configured, InPlay
    <2>2. Alive(o)
      BY <1>0, <2>1, AliveBefore
    <2> QED
      BY <1>0, <1>1, <2>2, ConfigKept DEF GatewayInv
  <1>2. ASSUME NEW n \in Calls, Applies(n, "gateway"), body[n]["gateway"].of = o
        PROVE  \/ body[n]["gateway"].at > 1
               \/ Target(n, "gateway") = k /\ child'[k] = o
    <2>1. AtWork(n, "gateway")
      BY <1>2 DEF Applies
    <2>2. /\ body[n]["gateway"].at \in 1 .. 3
          /\ Target(n, "gateway") = Applied(o.name, "gateway")[body[n]["gateway"].at]
      BY <1>0, <1>2, <2>1, TargetIs, AppliedByGateway
    <2>3. body[n]["gateway"].at = 1 => Target(n, "gateway") = k
      BY <2>2, AppliedByGateway DEF GatewayConfig
    <2>4. Target(n, "gateway") = k => child'[k] = o
      BY <1>0, <1>2 DEF Applies, Pass
    <2> QED
      BY <2>2, <2>3, <2>4
  <1>3. ASSUME NEW n \in Calls, body'[n]["gateway"].of = o, body'[n]["gateway"].at > 1
        PROVE  Configured(o) \/ child'[k] = o
    <2>1. AtWork(n, "gateway")'
      BY <1>3, OwnersAre DEF AtWork
    <2>2. CASE \E m \in Calls : body'[n]["gateway"] = body[m]["gateway"]
      BY <1>3, <2>2 DEF Configured
    <2>3. CASE Applies(n, "gateway") /\ body'[n]["gateway"].of = body[n]["gateway"].of
      BY <1>2, <1>3, <2>3 DEF Configured
    <2>4. CASE body'[n]["gateway"] = [of |-> Incarnation(cur, read), at |-> 1]
      BY <1>3, <2>4
    <2> QED
      BY <1>0, <2>1, <2>2, <2>3, <2>4, BodyMoves
  <1>4. ASSUME child'[Deployment(o.name, "gateway")] = o
        PROVE  Configured(o)
    <2>1. CASE child[Deployment(o.name, "gateway")] = o
      BY <2>1 DEF Configured
    <2>2. ASSUME NEW n \in Calls, NEW i \in Components, Applies(n, i),
                 Deployment(o.name, "gateway") = Target(n, i), body[n][i].of = o
          PROVE  Configured(o)
      <3>1. AtWork(n, i)
        BY <2>2 DEF Applies
      <3>2. i = "gateway"
        BY <1>0, <2>2, <3>1, TargetIs, OneApplies DEF Deployment
      <3>3. Deployment(o.name, "gateway") # k
        BY DEF Deployment, GatewayConfig, Object
      <3> QED
        BY <1>2, <2>2, <3>2, <3>3 DEF Configured
    <2> QED
      BY <1>0, <1>4, <2>1, <2>2, ChildMoves, OwnersAre
  <1>5. \/ \E n \in Calls : body'[n]["gateway"].of = o /\ body'[n]["gateway"].at > 1
        \/ child'[Deployment(o.name, "gateway")] = o
    BY DEF Configured, Deployment, Object, Name
  <1> QED
    BY <1>1, <1>3, <1>4, <1>5

LEMMA IInvStep ==
  ASSUME IInv, [Next]_vars
  PROVE  IInv'
  <1>1. TypeOK /\ ObjectInv /\ AgesInv /\ PlaceInv /\ GeneralInv
    BY DEF IInv
  <1>2. TypeOK' /\ ObjectInv' /\ AgesInv' /\ PlaceInv' /\ GeneralInv'
    BY <1>1, TypeStep, NextFollows, AgesStep, PlaceStep, GeneralStep DEF Follow
  <1> QED
    BY <1>2, ProgressStep, HeldStep, GatewayStep DEF IInv

LEMMA Invariance == Spec => []IInv
  <1>1. Init => IInv
    BY InitIInv
  <1>2. IInv /\ [Next]_vars => IInv'
    BY IInvStep
  <1> QED
    BY <1>1, <1>2, PTL DEF Spec

-----------------------------------------------------------------------------
(* theorems *)

\* The types of the state: goroutines of the last call and of earlier ones work
\* for incarnations of ControlPlanes, and a call in which wg.Wait has run before
\* wg.Add is told from others in its first block only (reconcile).
THEOREM TypeCorrect == Spec => []TypeOK
  <1>1. IInv => TypeOK
    BY DEF IInv
  <1> QED
    BY <1>1, Invariance, PTL

\* A child of a ControlPlane that exists passes to no other: SetControllerReference
\* refuses every goroutine of another one, and one of the same name is of an
\* earlier incarnation, since the object had been read before. Of the objects all
\* of them share it takes back none while main waits for general: the goroutine
\* that writes them is then of the last copy read, and the informer's copies
\* only get newer.
THEOREM NotStolen == Spec => NeverStolen
  <1>1. ASSUME IInv, [Next]_vars,
               NEW k \in Children, Alive(child[k]), child'[k] # child[k]
        PROVE  /\ child'[k].name = child[k].name /\ child'[k].uid < child[k].uid
               /\ Ordered' => k \notin Shared
    <2>1. /\ TypeOK /\ ObjectInv /\ AgesInv /\ PlaceInv /\ child[k] \in Owners
          /\ child[k] # Nobody
      BY <1>1, Typed DEF IInv, Alive
    <2>2. PICK o \in Incarnations : o = child[k]
      BY <2>1, OwnersAre
    <2>3. PICK n \in Calls, i \in Components :
            Applies(n, i) /\ k = Target(n, i) /\ child'[k] = body[n][i].of
      BY <1>1, <2>1, ChildMoves
    <2>4. PICK p \in Incarnations : p = body[n][i].of /\ InPlay(p)
      BY <2>1, <2>3, TargetIs DEF Applies
    <2>5. /\ o.name \in ControlPlanes /\ o.uid \in Nat /\ p.uid \in Nat /\ o # p
          /\ o.name \in {p.name, NoControlPlane}
      BY <1>1, <2>2, <2>3, <2>4, OwnersAre DEF Applies
    <2>6. o.name = p.name /\ o.uid # p.uid
      BY <2>5, NoControlPlaneAssumption, OwnersAre
    <2>7. p.uid <= o.uid
      <3>1. p.uid <= Seen(p.name) /\ Seen(p.name) <= created[p.name]
        BY <2>1, <2>4, <2>5, <2>6 DEF AgesInv, ObjectInv
      <3>2. Seen(p.name) \in Nat /\ created[p.name] \in Nat
        BY <2>1, <2>5, <2>6, Typed
      <3>3. o.uid = created[p.name]
        BY <1>1, <2>1, <2>2, <2>6, AliveIsLast
      <3> QED
        BY <2>5, <3>1, <3>2, <3>3
    <2>8. Ordered' => k \notin Shared
      BY <1>1, <2>2, SharedKept, OrderedBefore
    <2> QED
      BY <2>2, <2>3, <2>4, <2>5, <2>6, <2>7, <2>8
  <1>2. IInv /\ [Next]_vars =>
          [\A k \in Children :
             Alive(child[k]) /\ child'[k] # child[k] =>
               /\ child'[k].name = child[k].name /\ child'[k].uid < child[k].uid
               /\ Ordered' => k \notin Shared]_vars
    BY <1>1
  <1> QED
    BY <1>2, Invariance, PTL DEF Spec, NeverStolen

\* A Deployment of an incarnation that exists shows that its goroutine has got
\* past general, which has applied the files for this incarnation, and none that
\* exists loses them (SharedKept). In the gateway's the ConfigMap is applied
\* first, and lost only as ConfigKept has it.
THEOREM FilesFound == Spec => []PodsFindTheirFiles
  <1>1. ASSUME IInv PROVE PodsFindTheirFiles
    <2> SUFFICES ASSUME Ordered, NEW c \in ControlPlanes, NEW i \in Deployed,
                        Alive(child[Deployment(c, i)]), NEW f \in Opens(i)
                 PROVE  /\ f[1] \in DOMAIN Mounts(c, i)
                        /\ \/ child[Mounts(c, i)[f[1]]] = child[Deployment(c, i)]
                           \/ Mounts(c, i)[f[1]] \in takenBack
                        /\ f[2] \in Data(Mounts(c, i)[f[1]])
      BY DEF PodsFindTheirFiles, Deployment
    <2>1. /\ TypeOK /\ PlaceInv /\ HeldInv /\ GatewayInv
          /\ child[Deployment(c, i)] \in Owners /\ child[Deployment(c, i)] # Nobody
      BY <1>1, ChildrenAre, Typed DEF IInv, Alive
    <2>2. PICK o \in Incarnations : o = child[Deployment(c, i)]
      BY <2>1, OwnersAre
    <2>3. o.name = c /\ Alive(o)
      BY <2>1, <2>2, OwnersAre, NoControlPlaneAssumption DEF PlaceInv
    <2>4. CASE Mounts(c, i)[f[1]] \in Shared
      <3>1. Working(o)
        BY <2>2 DEF Working
      <3>2. child[Mounts(c, i)[f[1]]] = o
        BY <2>1, <2>3, <2>4, <3>1 DEF HeldInv, Owned
      <3> QED
        BY <2>2, <3>2, FilesAre
    <2>5. CASE i = "gateway" /\ Mounts(c, i)[f[1]] = GatewayConfig(c)
      <3>1. Configured(o)
        BY <2>2, <2>3, <2>5 DEF Configured
      <3>2. child[GatewayConfig(c)] = o \/ GatewayConfig(c) \in takenBack
        BY <2>1, <2>3, <2>5, <3>1 DEF GatewayInv, Owned
      <3> QED
        BY <2>2, <2>5, <3>2, FilesAre
    <2> QED
      BY <2>4, <2>5, FilesAre
  <1> QED
    BY <1>1, Invariance, PTL

\* While main waits for general, a Deployment of an incarnation that exists
\* shows that it owns what all ControlPlanes share, which only one can.
THEOREM OneAtWork == Spec => []OneControlPlaneAtWork
  <1>1. ASSUME IInv PROVE OneControlPlaneAtWork
    <2> SUFFICES ASSUME Ordered, NEW c \in ControlPlanes, NEW d \in ControlPlanes,
                        NEW i \in Deployed, NEW j \in Deployed,
                        Alive(child[Deployment(c, i)]), Alive(child[Deployment(d, j)])
                 PROVE  child[Deployment(c, i)] = child[Deployment(d, j)]
      BY DEF OneControlPlaneAtWork, Deployment
    <2>1. /\ HeldInv /\ child \in [Children -> Owners]
          /\ child[Deployment(c, i)] # Nobody /\ child[Deployment(d, j)] # Nobody
      BY <1>1, Typed DEF IInv, Alive
    <2>2. PICK o \in Incarnations, p \in Incarnations :
            o = child[Deployment(c, i)] /\ p = child[Deployment(d, j)]
      BY <2>1, ChildrenAre, OwnersAre
    <2>3. Working(o) /\ Working(p) /\ Alive(o) /\ Alive(p)
      BY <2>2 DEF Working
    <2>4. PICK k \in Shared : TRUE
      BY SharedAre
    <2> QED
      BY <2>1, <2>2, <2>3, <2>4 DEF HeldInv, Owned
  <1> QED
    BY <1>1, Invariance, PTL

=============================================================================
