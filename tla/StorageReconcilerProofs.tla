----------------------- MODULE StorageReconcilerProofs -----------------------
(***************************************************************************)
(* StorageReconciler keeps the contract of ReconcileContract, for any      *)
(* number of versions of the spec, faults and leftover goroutines.         *)
(***************************************************************************)
EXTENDS StorageReconciler, ReconcileGroupProofs, SequenceTheorems

\* A goroutine in its body works on a version that was loaded by then, and no
\* child is ahead of the copy of the current call.
NobodyAhead ==
  /\ \A g \in Goroutines : body[g].step # "none" => body[g].ver \in 1 .. loaded
  /\ \A c \in Children : child[c].ver <= loaded

\* The goroutine of the current call is in its body only while the group takes
\* its component to be running.
BodyRuns == body[0].step # "none" => comp[1] = "running"

\* Without an overlap the goroutine of the current call is the only one, it
\* works on the copy of the call, and it leaves behind it what it has written.
Alone ==
  ~overlapped =>
    /\ \A g \in Leftovers : body[g] = NoBody
    /\ body[0].step # "none" =>
         /\ body[0].ver = loaded
         /\ body[0].child = "service" => child["statefulset"].ver = loaded
    /\ outcome[1] = "ok" => \A c \in Children : child[c].ver = loaded

\* The component sends only errors.
NothingButErrors == outcome[1] # "nil"

StorageIInv ==
  IInv /\ StorageTypeOK /\ NobodyAhead /\ BodyRuns /\ Alone /\ NothingButErrors

-----------------------------------------------------------------------------

USE OneBlockAssumption, StorageBoundsAssumption

\* There is one component.
LEMMA OneComponent == Components = {1}
  BY DEF Components

\* The current call has a goroutine, which is not a leftover.
LEMMA CurrentGoroutine == 0 \in Goroutines /\ 0 \notin Leftovers /\ Leftovers \subseteq Goroutines
  BY DEF Goroutines, Leftovers

\* A goroutine between two bodies and a child that does not exist are typed.
BodyType == [step : {"none", "get", "put"}, child : Children,
             ver : 0 .. MaxVersion, copy : ChildType]

\* What does not exist and who does nothing is typed.
LEMMA NothingTyped == NoBody \in BodyType /\ NoChild \in ChildType /\ NoBody.step = "none"
  BY DEF NoBody, NoChild, BodyType, ChildType, Children

\* The initial state satisfies the inductive invariant.
LEMMA StorageInitIInv == StorageInit => StorageIInv
  <1> SUFFICES ASSUME StorageInit PROVE StorageIInv
    OBVIOUS
  <1>1. IInv
    BY InitIInv DEF StorageInit
  <1>2. PICK s \in Storages : storage = <<s>>
    BY DEF StorageInit
  <1>3. storage \in Seq(Storages) /\ version = 1
    BY <1>2 DEF version
  <1>4. StorageTypeOK
    <2>1. body \in [Goroutines -> BodyType]
      BY NothingTyped DEF StorageInit
    <2>2. child \in [Children -> ChildType] /\ childSeen \in [Children -> ChildType]
      BY NothingTyped DEF StorageInit
    <2>3. seen = 1 /\ loaded = 1 /\ faults = 0 /\ overlapped = FALSE
      BY DEF StorageInit
    <2>4. seen \in 1 .. version /\ loaded \in 1 .. seen /\ version \in 1 .. MaxVersion
          /\ faults \in 0 .. MaxFaults
      BY <1>3, <2>3
    <2> QED
      BY <1>1, <1>3, <2>1, <2>2, <2>3, <2>4 DEF StorageTypeOK, IInv, BodyType
  <1>5. NobodyAhead /\ BodyRuns /\ Alone /\ NothingButErrors
    BY NothingTyped, CurrentGoroutine, FirstComponent
       DEF StorageInit, NobodyAhead, BodyRuns, Alone, NothingButErrors, NoChild, Init
  <1> QED
    BY <1>1, <1>4, <1>5 DEF StorageIInv

\* A new call starts a group anew.
LEMMA FreshGroup == FreshCall => Init'
  BY DEF FreshCall, Init

\* So it starts with the group's invariant.
LEMMA FreshIInv == FreshCall => IInv'
  <1>1. Init' => IInv'
    BY InitIInv, PTL
  <1> QED
    BY <1>1, FreshGroup

\* A step of the group keeps the group's invariant.
LEMMA GroupIInvStep == IInv /\ [Next]_vars => IInv'
  <1> SUFFICES ASSUME IInv, [Next]_vars PROVE IInv'
    OBVIOUS
  <1>1. TypeOK' /\ CounterIsLive'
    BY TypeStep, CounterStep
  <1>2. WaiterPart' /\ GroupPart'
    BY <1>1, RestStep
  <1> QED
    BY <1>1, <1>2 DEF IInv, WaiterPart, GroupPart

\* A step of a body is a step of the component, or none of the group's.
LEMMA BodyOfGroup ==
  ASSUME NEW g \in Goroutines, GetChild(g) \/ PutChild(g) \/ CallFails(g)
  PROVE  [Next]_vars
  BY FirstComponent DEF GetChild, PutChild, CallFails, WriteChild, Fail, ChildDone, Next, Component

\* Every step of the system is one of the group, leaves the group alone, or
\* starts a call.
LEMMA GroupKeeps == IInv /\ [StorageNext]_allVars => IInv'
  <1> SUFFICES ASSUME IInv, [StorageNext]_allVars PROVE IInv'
    OBVIOUS
  <1>1. CASE NextCall \/ Crash
    BY <1>1, FreshIInv DEF NextCall, Crash, Restart
  <1>2. CASE GoReconcile \/ GroupStep
    BY <1>2, GroupIInvStep, FirstComponent DEF GoReconcile, GroupStep, Next, Main, Component
  <1>3. CASE Edit \/ Sync \/ UNCHANGED allVars
    BY <1>3, GroupIInvStep DEF Edit, Sync, allVars
  <1>4. ASSUME NEW g \in Goroutines, Body(g) PROVE IInv'
    <2>1. CASE Panic(g)
      BY <2>1, FreshIInv DEF Panic, Restart
    <2>2. CASE ~Panic(g)
      BY <1>4, <2>2, BodyOfGroup, GroupIInvStep DEF Body
    <2> QED
      BY <2>1, <2>2
  <1> QED
    BY <1>1, <1>2, <1>3, <1>4 DEF StorageNext

-----------------------------------------------------------------------------

\* The informer's and the worker's copies, the versions and the bodies keep their
\* types.
LEMMA StorageTypeStep ==
  IInv' /\ StorageTypeOK /\ NobodyAhead /\ [StorageNext]_allVars => StorageTypeOK'
  <1> SUFFICES ASSUME IInv', StorageTypeOK, NobodyAhead, [StorageNext]_allVars
               PROVE  StorageTypeOK'
    OBVIOUS
  <1>0. TypeOK'
    BY DEF IInv
  <1>n. /\ body \in [Goroutines -> BodyType] /\ child \in [Children -> ChildType]
        /\ childSeen \in [Children -> ChildType] /\ storage \in Seq(Storages)
        /\ version \in 1 .. MaxVersion /\ seen \in 1 .. version /\ loaded \in 1 .. seen
        /\ faults \in 0 .. MaxFaults /\ overlapped \in BOOLEAN
    BY DEF StorageTypeOK, BodyType
  <1> USE <1>n
  <1>1. version \in Nat /\ (UNCHANGED storage => version' = version)
    BY DEF version
  <1>2. SUFFICES /\ body' \in [Goroutines -> BodyType] /\ child' \in [Children -> ChildType]
                 /\ childSeen' \in [Children -> ChildType] /\ storage' \in Seq(Storages)
                 /\ version' \in 1 .. MaxVersion /\ seen' \in 1 .. version'
                 /\ loaded' \in 1 .. seen'
                 /\ faults' \in 0 .. MaxFaults /\ overlapped' \in BOOLEAN
    BY <1>0 DEF StorageTypeOK, BodyType
  <1>3. CASE NextCall
    <2>1. body' \in [Goroutines -> BodyType]
      BY <1>3, NothingTyped, CurrentGoroutine DEF NextCall
    <2>2. overlapped' \in BOOLEAN
      BY <1>3 DEF NextCall
    <2>3. UNCHANGED <<child, childSeen, storage, seen, faults>> /\ loaded' = seen
      BY <1>3 DEF NextCall, store
    <2>4. version' = version
      BY <1>1, <2>3
    <2> QED
      BY <2>1, <2>2, <2>3, <2>4
  <1>r. ASSUME Restart PROVE body' \in [Goroutines -> BodyType]
    BY <1>r, NothingTyped DEF Restart
  <1>4. CASE Crash
    BY <1>1, <1>4, <1>r DEF Crash, Restart
  <1>5. CASE GoReconcile
    <2>0. loaded \in 0 .. MaxVersion
      BY <1>1
    <2>1. [NoBody EXCEPT !.step = "get", !.ver = loaded] \in BodyType
      BY <2>0, NothingTyped DEF BodyType, NoBody
    <2>2. body' \in [Goroutines -> BodyType]
      BY <1>5, <2>1 DEF GoReconcile
    <2> QED
      BY <1>1, <1>5, <2>2 DEF GoReconcile, store
  <1>6. CASE GroupStep \/ UNCHANGED allVars
    BY <1>1, <1>6 DEF GroupStep, storageVars, store, allVars
  <1>7. CASE Edit
    <2>1. PICK s \in Storages : storage' = Append(storage, s)
      BY <1>7 DEF Edit
    <2>2. storage' \in Seq(Storages) /\ version' = version + 1
      BY <2>1 DEF version
    <2> QED
      BY <1>1, <1>7, <2>2 DEF Edit
  <1>8. CASE Sync
    BY <1>1, <1>8 DEF Sync
  <1>9. ASSUME NEW g \in Goroutines, Body(g)
        PROVE  /\ body' \in [Goroutines -> BodyType] /\ child' \in [Children -> ChildType]
               /\ UNCHANGED storage
               /\ UNCHANGED <<seen, childSeen, loaded>> \/ Restart
               /\ faults' \in 0 .. MaxFaults /\ UNCHANGED overlapped
    <2> USE <1>9
    <2>1. body[g] \in BodyType /\ body[g].child \in Children /\ body[g].ver \in 0 .. MaxVersion
      BY DEF BodyType
    <2>2. [body EXCEPT ![g] = NoBody] \in [Goroutines -> BodyType]
      BY NothingTyped
    <2>3. [body EXCEPT ![g] = [@ EXCEPT !.step = "get", !.child = "service", !.copy = NoChild]]
            \in [Goroutines -> BodyType]
      BY <2>1, NothingTyped DEF BodyType, Children
    <2>4. CASE GetChild(g)
      <3>1. [body[g] EXCEPT !.step = "put", !.copy = childSeen[body[g].child]] \in BodyType
        BY <2>1 DEF BodyType
      <3>2. body' = [body EXCEPT ![g] = [@ EXCEPT !.step = "put",
                                                  !.copy = childSeen[body[g].child]]]
        BY <2>4, <2>1 DEF GetChild, BodyType
      <3> QED
        BY <2>4, <3>1, <3>2 DEF GetChild, store
    <2>5. CASE PutChild(g)
      <3>1. body' \in [Goroutines -> BodyType]
        BY <2>2, <2>3, <2>5 DEF PutChild, WriteChild, ChildDone, Fail
      <3>2. child' \in [Children -> ChildType]
        <4>1. [ver |-> body[g].ver, rev |-> child[body[g].child].rev + 1] \in ChildType
          BY <2>1 DEF ChildType
        <4>2. CASE WriteChild(g)
          BY <2>1, <4>1, <4>2 DEF WriteChild
        <4> QED
          BY <2>5, <4>2 DEF PutChild
      <3> QED
        BY <2>5, <3>1, <3>2 DEF PutChild
    <2>6. CASE Panic(g)
      BY <2>6, <1>r DEF Panic, Restart
    <2>7. CASE CallFails(g)
      BY <2>2, <2>7 DEF CallFails, Fail, store
    <2> QED
      BY <2>4, <2>5, <2>6, <2>7 DEF Body
  <1> QED
    BY <1>1, <1>3, <1>4, <1>5, <1>6, <1>7, <1>8, <1>9 DEF StorageNext, Restart

-----------------------------------------------------------------------------

\* What a goroutine does in its body: it goes on with its version or ends, and
\* leaves the other goroutines and every child but its own as they are.
LEMMA BodyStep ==
  ASSUME StorageTypeOK, NEW g \in Goroutines, GetChild(g) \/ PutChild(g) \/ CallFails(g)
  PROVE  /\ body[g].step # "none"
         /\ \A h \in Goroutines \ {g} : body'[h] = body[h]
         /\ body'[g].step = "none" \/ body'[g].ver = body[g].ver
         /\ \A c \in Children :
              child'[c].ver = child[c].ver
                \/ (c = body[g].child /\ child'[c].ver = body[g].ver)
         /\ UNCHANGED <<storage, seen, childSeen, loaded, overlapped>>
  <1>n. /\ body \in [Goroutines -> BodyType] /\ child \in [Children -> ChildType]
        /\ body[g] \in BodyType /\ body[g].child \in Children
    BY DEF StorageTypeOK, BodyType
  <1> USE <1>n
  <1>1. CASE GetChild(g)
    <2>1. body' = [body EXCEPT ![g] = [@ EXCEPT !.step = "put",
                                                !.copy = childSeen[body[g].child]]]
      BY <1>1 DEF GetChild, BodyType
    <2>2. body'[g] = [body[g] EXCEPT !.step = "put", !.copy = childSeen[body[g].child]]
      BY <2>1
    <2>3. body'[g].ver = body[g].ver
      BY <2>2 DEF BodyType
    <2>4. \A h \in Goroutines \ {g} : body'[h] = body[h]
      BY <2>1
    <2> QED
      BY <1>1, <2>3, <2>4 DEF GetChild, store
  <1>f. ASSUME body' = [body EXCEPT ![g] = NoBody]
        PROVE  body'[g].step = "none" /\ \A h \in Goroutines \ {g} : body'[h] = body[h]
    BY <1>f, NothingTyped
  <1>2. CASE CallFails(g)
    <2>1. body' = [body EXCEPT ![g] = NoBody]
      BY <1>2 DEF CallFails, Fail
    <2>2. UNCHANGED <<storage, seen, child, childSeen, loaded, overlapped>> /\ body[g].step # "none"
      BY <1>2 DEF CallFails, store
    <2> QED
      BY <2>1, <2>2, <1>f
  <1>3. CASE PutChild(g)
    <2>1. body[g].step = "put" /\ UNCHANGED <<storage, seen, childSeen, loaded, overlapped>>
      BY <1>3 DEF PutChild
    <2>2. CASE Fail(g) /\ UNCHANGED child
      <3>1. body' = [body EXCEPT ![g] = NoBody]
        BY <2>2 DEF Fail
      <3> QED
        BY <2>1, <2>2, <3>1, <1>f
    <2>3. CASE WriteChild(g)
      <3>1. \/ body' = [body EXCEPT ![g] = [@ EXCEPT !.step = "get", !.child = "service",
                                                   !.copy = NoChild]]
            \/ body' = [body EXCEPT ![g] = NoBody]
        BY <2>3 DEF WriteChild, ChildDone
      <3>2. body'[g].step = "none" \/ body'[g].ver = body[g].ver
        <4>1. CASE body' = [body EXCEPT ![g] = NoBody]
          BY <4>1, <1>f
        <4>2. CASE body' = [body EXCEPT ![g] = [@ EXCEPT !.step = "get", !.child = "service",
                                                        !.copy = NoChild]]
          <5>1. body'[g] = [body[g] EXCEPT !.step = "get", !.child = "service",
                                           !.copy = NoChild]
            BY <4>2
          <5> QED
            BY <5>1 DEF BodyType
        <4> QED
          BY <3>1, <4>1, <4>2
      <3>3. \A h \in Goroutines \ {g} : body'[h] = body[h]
        BY <3>1
      <3>4. \A c \in Children :
              child'[c].ver = child[c].ver
                \/ (c = body[g].child /\ child'[c].ver = body[g].ver)
        <4>1. \/ UNCHANGED child
              \/ child' = [child EXCEPT ![body[g].child] =
                             [ver |-> body[g].ver, rev |-> child[body[g].child].rev + 1]]
          <5>1. CASE child[body[g].child].ver = body[g].ver
            BY <2>3, <5>1 DEF WriteChild, ChildType
          <5>2. CASE child[body[g].child].ver # body[g].ver
            BY <2>3, <5>2 DEF WriteChild
          <5> QED
            BY <5>1, <5>2
        <4> QED
          BY <4>1
      <3> QED
        BY <2>1, <3>2, <3>3, <3>4
    <2> QED
      BY <1>3, <2>2, <2>3 DEF PutChild
  <1> QED
    BY <1>1, <1>2, <1>3

\* The copy of the current call is never older than that of the one before it,
\* nor than a version a goroutine works on.
LEMMA NobodyAheadStep ==
  StorageTypeOK /\ NobodyAhead /\ [StorageNext]_allVars => NobodyAhead'
  <1> SUFFICES ASSUME StorageTypeOK, NobodyAhead, [StorageNext]_allVars PROVE NobodyAhead'
    OBVIOUS
  <1>n. /\ body \in [Goroutines -> BodyType] /\ child \in [Children -> ChildType]
        /\ version \in Nat /\ seen \in 1 .. version /\ loaded \in 1 .. seen
        /\ \A g \in Goroutines : body[g].ver \in Nat
        /\ \A c \in Children : child[c].ver \in Nat
    BY DEF StorageTypeOK, BodyType, ChildType
  <1> USE <1>n DEF NobodyAhead
  <1>1. CASE NextCall
    <2>1. \A g \in Goroutines :
            body'[g].step = "none" \/ \E h \in Goroutines : body'[g] = body[h]
      BY <1>1, NothingTyped, CurrentGoroutine DEF NextCall
    <2>2. loaded' = seen /\ UNCHANGED child
      BY <1>1 DEF NextCall, store
    <2> QED
      BY <2>1, <2>2
  <1>r. ASSUME Restart PROVE NobodyAhead'
    BY <1>r, NothingTyped DEF Restart
  <1>2. CASE Crash
    BY <1>2, <1>r DEF Crash
  <1>3. CASE GoReconcile
    <2>1. body'[0].ver = loaded /\ \A g \in Leftovers : body'[g] = body[g]
      BY <1>3, NothingTyped, CurrentGoroutine DEF GoReconcile, NoBody
    <2>2. UNCHANGED <<loaded, child>>
      BY <1>3 DEF GoReconcile, store
    <2> QED
      BY <2>1, <2>2 DEF Goroutines
  <1>4. CASE GroupStep \/ Edit \/ Sync \/ UNCHANGED allVars
    BY <1>4 DEF GroupStep, Edit, Sync, allVars, storageVars, store
  <1>5. ASSUME NEW g \in Goroutines, Body(g) PROVE NobodyAhead'
    <2>1. CASE Panic(g)
      BY <2>1, <1>r DEF Panic
    <2>2. CASE GetChild(g) \/ PutChild(g) \/ CallFails(g)
      <3>1. UNCHANGED loaded /\ body[g].ver \in 1 .. loaded
        BY <2>2, BodyStep
      <3>2. \A h \in Goroutines : body'[h].step # "none" => body'[h].ver \in 1 .. loaded'
        BY <2>2, <3>1, BodyStep
      <3>3. \A c \in Children : child'[c].ver <= loaded'
        BY <2>2, <3>1, BodyStep
      <3> QED
        BY <3>2, <3>3
    <2> QED
      BY <1>5, <2>1, <2>2 DEF Body
  <1> QED
    BY <1>1, <1>2, <1>3, <1>4, <1>5 DEF StorageNext

\* The group knows of every body of a current call.
LEMMA BodyRunsStep ==
  IInv /\ StorageTypeOK /\ BodyRuns /\ [StorageNext]_allVars => BodyRuns'
  <1> SUFFICES ASSUME IInv, StorageTypeOK, BodyRuns, [StorageNext]_allVars PROVE BodyRuns'
    OBVIOUS
  <1>n. /\ body \in [Goroutines -> BodyType] /\ comp \in [Components -> CompPcs]
        /\ block = 1 /\ Components = {1}
    BY OneComponent DEF StorageTypeOK, TypeOK, BodyType
  <1> USE <1>n, NothingTyped, CurrentGoroutine DEF BodyRuns
  <1>1. CASE NextCall
    <2>1. (body'[0] = body[0] /\ comp[1] # "running") \/ body'[0] = NoBody
      BY <1>1 DEF NextCall
    <2> QED
      BY <2>1
  <1>r. ASSUME Restart PROVE BodyRuns'
    BY <1>r DEF Restart
  <1>2. CASE Crash
    BY <1>2, <1>r DEF Crash
  <1>3. CASE GoReconcile
    BY <1>3 DEF GoReconcile, Launch
  <1>4. CASE GroupStep
    BY <1>4 DEF GroupStep, storageVars, Receive, Proceed, Waiter, CallWait, ReturnFromWait,
                CloseTerminated, Done
  <1>5. CASE Edit \/ Sync \/ UNCHANGED allVars
    BY <1>5 DEF Edit, Sync, allVars, storageVars, vars
  <1>6. ASSUME NEW g \in Goroutines, Body(g) PROVE BodyRuns'
    <2>1. CASE Panic(g)
      BY <2>1, <1>r DEF Panic
    <2>2. CASE GetChild(g) \/ PutChild(g) \/ CallFails(g)
      <3>1. CASE g # 0
        <4>1. UNCHANGED vars
          BY <2>2, <3>1 DEF GetChild, PutChild, CallFails, WriteChild, Fail, ChildDone
        <4>2. body'[0] = body[0]
          BY <2>2, <3>1, BodyStep
        <4> QED
          BY <4>1, <4>2 DEF vars
      <3>2. CASE g = 0
        <4>1. UNCHANGED vars \/ body' = [body EXCEPT ![0] = NoBody]
          BY <2>2, <3>2 DEF GetChild, PutChild, CallFails, WriteChild, Fail, ChildDone
        <4>2. UNCHANGED comp \/ body'[0].step = "none"
          BY <4>1 DEF vars
        <4>3. body[0].step # "none"
          BY <2>2, <3>2, BodyStep
        <4> QED
          BY <4>2, <4>3
      <3> QED
        BY <3>1, <3>2
    <2> QED
      BY <1>6, <2>1, <2>2 DEF Body
  <1> QED
    BY <1>1, <1>2, <1>3, <1>4, <1>5, <1>6 DEF StorageNext

\* A call that ends before its goroutine has not waited for it.
LEMMA LeftBehind ==
  IInv /\ mainPc = "returned" /\ comp[1] = "running" => earlyWait
  BY DEF IInv, FirstBlockUntilClosed, FirstOver, Terminated, TypeOK

\* The child a goroutine writes is then as its version asks for, and the
\* goroutine turns to the Service, or ends after it.
LEMMA WriteStep ==
  ASSUME StorageTypeOK, NEW g \in Goroutines, WriteChild(g)
  PROVE  /\ child'[body[g].child].ver = body[g].ver
         /\ \/ body[g].child = "statefulset" /\ body'[g].child = "service" /\ UNCHANGED vars
            \/ body[g].child = "service" /\ body'[g].step = "none"
  <1>1. /\ body \in [Goroutines -> BodyType] /\ child \in [Children -> ChildType]
        /\ body[g] \in BodyType /\ body[g].child \in {"statefulset", "service"}
    BY DEF StorageTypeOK, BodyType, Children
  <1>2. child'[body[g].child].ver = body[g].ver
    <2>1. body[g].child \in Children
      BY <1>1 DEF Children
    <2>2. CASE child[body[g].child].ver = body[g].ver
      BY <1>1, <2>1, <2>2 DEF WriteChild, ChildType
    <2>3. CASE child[body[g].child].ver # body[g].ver
      BY <1>1, <2>1, <2>3 DEF WriteChild
    <2> QED
      BY <2>2, <2>3
  <1>3. CASE body[g].child = "statefulset"
    <2>1. body' = [body EXCEPT ![g] = [@ EXCEPT !.step = "get", !.child = "service",
                                                !.copy = NoChild]]
      BY <1>3 DEF WriteChild, ChildDone
    <2>2. body'[g] = [body[g] EXCEPT !.step = "get", !.child = "service", !.copy = NoChild]
      BY <1>1, <2>1
    <2>3. body'[g].child = "service"
      BY <1>1, <2>2 DEF BodyType
    <2> QED
      BY <1>2, <1>3, <2>3 DEF WriteChild, ChildDone
  <1>4. CASE body[g].child = "service"
    <2>1. body' = [body EXCEPT ![g] = NoBody]
      BY <1>4 DEF WriteChild, ChildDone
    <2> QED
      BY <1>1, <1>2, <1>4, <2>1, NothingTyped
  <1> QED
    BY <1>1, <1>3, <1>4

\* Without an overlap nobody else has touched the children.
LEMMA AloneStep == StorageIInv /\ [StorageNext]_allVars => Alone'
  <1> SUFFICES ASSUME StorageIInv, [StorageNext]_allVars, ~overlapped' PROVE Alone'
    BY DEF Alone
  <1> USE NothingTyped, CurrentGoroutine, OneComponent
  <1>n. /\ body \in [Goroutines -> BodyType] /\ child \in [Children -> ChildType]
        /\ outcome \in [Components -> {"none", "ok", "error", "nil"}] /\ IInv
        /\ overlapped \in BOOLEAN
    BY DEF StorageIInv, StorageTypeOK, TypeOK, BodyType
  <1>0. ~overlapped
    BY DEF StorageNext, NextCall, GoReconcile, GroupStep, Edit, Sync, Crash, Restart, Body,
           GetChild, PutChild, Panic, CallFails, storageVars, allVars
  <1>a. /\ \A g \in Leftovers : body[g] = NoBody
        /\ body[0].step # "none" =>
             /\ body[0].ver = loaded
             /\ body[0].child = "service" => child["statefulset"].ver = loaded
        /\ outcome[1] = "ok" => \A c \in Children : child[c].ver = loaded
    BY <1>0 DEF StorageIInv, Alone
  <1>1. CASE NextCall
    <2>1. comp[1] # "running" /\ UNCHANGED body
      BY <1>n, <1>1, LeftBehind DEF NextCall
    <2>2. body[0].step = "none"
      BY <2>1 DEF StorageIInv, BodyRuns
    <2>3. outcome'[1] = "none"
      BY <1>1 DEF NextCall, FreshCall
    <2> QED
      BY <1>a, <2>1, <2>2, <2>3 DEF Alone
  <1>r. ASSUME Restart PROVE Alone'
    <2>1. outcome'[1] = "none" /\ \A g \in Goroutines : body'[g] = NoBody
      BY <1>r DEF Restart, FreshCall
    <2> QED
      BY <2>1 DEF Alone
  <1>2. CASE Crash
    BY <1>2, <1>r DEF Crash
  <1>3. CASE GoReconcile
    <2>1. body'[0] = [NoBody EXCEPT !.step = "get", !.ver = loaded]
          /\ \A g \in Leftovers : body'[g] = body[g]
      BY <1>n, <1>3 DEF GoReconcile
    <2>2. body'[0].ver = loaded /\ body'[0].child = "statefulset"
      BY <2>1 DEF NoBody
    <2>3. UNCHANGED <<loaded, child, outcome>>
      BY <1>3 DEF GoReconcile, store, Launch
    <2> QED
      BY <1>a, <2>1, <2>2, <2>3 DEF Alone
  <1>4. CASE GroupStep
    <2>1. UNCHANGED <<body, child, loaded, outcome>>
      BY <1>4 DEF GroupStep, storageVars, store, Receive, Proceed, Waiter, CallWait,
                  ReturnFromWait, CloseTerminated, Done
    <2> QED
      BY <1>a, <2>1 DEF Alone
  <1>5. CASE Edit \/ Sync \/ UNCHANGED allVars
    <2>1. UNCHANGED <<body, child, loaded, outcome>>
      BY <1>5 DEF Edit, Sync, allVars, storageVars, store, vars
    <2> QED
      BY <1>a, <2>1 DEF Alone
  <1>6. ASSUME NEW g \in Goroutines, Body(g) PROVE Alone'
    <2>1. CASE Panic(g)
      BY <2>1, <1>r DEF Panic
    <2>2. CASE GetChild(g) \/ PutChild(g) \/ CallFails(g)
      <3>t. StorageTypeOK
        BY DEF StorageIInv
      <3>1. g = 0
        BY <1>a, <2>2, <3>t, BodyStep DEF Goroutines
      <3>2. /\ body[0].step # "none" /\ comp[1] = "running" /\ body[0].ver = loaded
            /\ UNCHANGED loaded /\ \A h \in Leftovers : body'[h] = NoBody
        BY <1>a, <2>2, <3>t, <3>1, BodyStep DEF StorageIInv, BodyRuns
      <3>3. outcome[1] = "none"
        BY <3>2 DEF StorageIInv, IInv, OutcomeFollowsBody
      <3>4. CASE GetChild(g)
        <4>1. UNCHANGED <<child, outcome>>
          BY <3>4 DEF GetChild, store, vars
        <4>2. body' = [body EXCEPT ![0] = [@ EXCEPT !.step = "put",
                                                    !.copy = childSeen[body[0].child]]]
          BY <1>n, <3>1, <3>4 DEF GetChild, BodyType
        <4>3. body'[0] = [body[0] EXCEPT !.step = "put", !.copy = childSeen[body[0].child]]
          BY <1>n, <4>2
        <4>4. body'[0].child = body[0].child /\ body'[0].ver = body[0].ver
          BY <1>n, <4>3 DEF BodyType
        <4> QED
          BY <1>a, <3>2, <3>3, <4>1, <4>4 DEF Alone
      <3>5. CASE Fail(g)
        <4>1. body'[0].step = "none"
          BY <1>n, <3>1, <3>5 DEF Fail
        <4>2. outcome'[1] # "ok"
          BY <1>n, <3>1, <3>5 DEF Fail, BodyFails
        <4> QED
          BY <3>2, <4>1, <4>2 DEF Alone
      <3>6. CASE PutChild(g) /\ WriteChild(g)
        <4>1. child'[body[0].child].ver = loaded
          BY <3>1, <3>2, <3>6, <3>t, WriteStep
        <4>2. CASE body[0].child = "statefulset"
          <5>1. UNCHANGED outcome
            BY <3>1, <3>6, <3>t, <4>2, WriteStep DEF vars
          <5>2. body'[0].step = "none" \/ body'[0].ver = loaded
            BY <2>2, <3>1, <3>2, <3>t, BodyStep
          <5> QED
            BY <3>2, <3>3, <4>1, <4>2, <5>1, <5>2 DEF Alone
        <4>3. CASE body[0].child = "service"
          <5>1. body'[0].step = "none"
            BY <3>1, <3>6, <3>t, <4>3, WriteStep
          <5>2. child'["statefulset"].ver = loaded
            BY <1>a, <2>2, <3>1, <3>2, <3>t, <4>3, BodyStep DEF Children
          <5> QED
            BY <3>2, <4>1, <4>3, <5>1, <5>2 DEF Alone, Children
        <4> QED
          BY <1>n, <4>2, <4>3 DEF BodyType, Children
      <3> QED
        BY <2>2, <3>4, <3>5, <3>6 DEF PutChild, CallFails
    <2> QED
      BY <1>6, <2>1, <2>2 DEF Body
  <1> QED
    BY <1>1, <1>2, <1>3, <1>4, <1>5, <1>6 DEF StorageNext

\* No body of this reconciler hides an error.
LEMMA NothingButErrorsStep ==
  IInv /\ NothingButErrors /\ [StorageNext]_allVars => NothingButErrors'
  <1> SUFFICES ASSUME IInv, NothingButErrors, [StorageNext]_allVars PROVE NothingButErrors'
    OBVIOUS
  <1>n. outcome \in [Components -> {"none", "ok", "error", "nil"}] /\ Components = {1}
    BY OneComponent DEF IInv, TypeOK
  <1>1. ASSUME BodyFails(1) \/ BodySucceeds(1) \/ UNCHANGED outcome \/ FreshCall
        PROVE  NothingButErrors'
    BY <1>n, <1>1 DEF NothingButErrors, BodyFails, BodySucceeds, FreshCall
  <1>2. BodyFails(1) \/ BodySucceeds(1) \/ UNCHANGED outcome \/ FreshCall
    BY DEF StorageNext, NextCall, GoReconcile, Launch, GroupStep, Receive, Proceed, Waiter,
           CallWait, ReturnFromWait, CloseTerminated, Done, Edit, Sync, Crash, Restart, Body,
           GetChild, PutChild, WriteChild, ChildDone, Panic, CallFails, Fail, allVars, vars
  <1> QED
    BY <1>1, <1>2

-----------------------------------------------------------------------------

\* Every step keeps the inductive invariant.
LEMMA StorageIInvStep == StorageIInv /\ [StorageNext]_allVars => StorageIInv'
  BY GroupKeeps, StorageTypeStep, NobodyAheadStep, BodyRunsStep, AloneStep,
     NothingButErrorsStep DEF StorageIInv

\* The inductive invariant holds in every reachable state.
THEOREM StorageInvariance == StorageSpec => []StorageIInv
  BY StorageInitIInv, StorageIInvStep, PTL DEF StorageSpec

\* Every variable keeps its type, and the caches stay behind the API server.
THEOREM StorageTypeCorrect == StorageSpec => []StorageTypeOK
  <1>1. StorageIInv => StorageTypeOK
    BY DEF StorageIInv
  <1> QED
    BY <1>1, StorageInvariance, PTL

\* In every call, beside whatever earlier ones have left at work, the WaitGroup is
\* used as it must be, at most one failed component ends, and nobody is stuck.
THEOREM StorageCallsAreSafe == StorageSpec => [](NoWaitGroupMisuse /\ OneFailureDelivered /\ NotStuck)
  <1>1. StorageIInv => NoWaitGroupMisuse /\ OneFailureDelivered /\ NotStuck
    BY SomebodyCanStep DEF StorageIInv, IInv
  <1> QED
    BY <1>1, StorageInvariance, PTL

\* Reconcile returns nil only when both children are as the copy it has loaded
\* asks for, unless a call has not waited for its goroutine.
THEOREM NilAfterApplied == StorageSpec => NilMeansApplied
  <1>1. StorageIInv /\ [StorageNext]_allVars =>
          [mainPc # "returned" /\ mainPc' = "returned" /\ result' = "nil"
             /\ ~earlyWait /\ ~overlapped =>
               \A c \in Children : child[c].ver = loaded]_allVars
    <2> SUFFICES ASSUME StorageIInv, StorageNext, mainPc # "returned", mainPc' = "returned",
                        result' = "nil", ~earlyWait, ~overlapped
                 PROVE  \A c \in Children : child[c].ver = loaded
      OBVIOUS
    <2>n. IInv /\ block = 1 /\ NilSenders = {} /\ ~PatchesFinalizer
      BY OneComponent DEF StorageIInv, IInv, TypeOK
    <2>1. Receive \/ Proceed
      <3>1. ~FreshCall /\ ~UNCHANGED vars
        BY DEF FreshCall, vars
      <3> QED
        BY <3>1 DEF StorageNext, NextCall, GoReconcile, Launch, GroupStep, Waiter, CallWait,
             ReturnFromWait, CloseTerminated, Done, Edit, Sync, Crash, Restart, Body,
             GetChild, PutChild, WriteChild, ChildDone, Panic, CallFails, Fail, BodySucceeds,
             BodyFails
    <2>2. outcome[1] = "ok"
      <3>1. CASE Receive
        <4>1. comp[1] = "sending" /\ outcome[1] = "nil"
          BY <2>n, <3>1 DEF Receive
        <4> QED
          BY <4>1 DEF StorageIInv, NothingButErrors
      <3>2. CASE Proceed
        <4>1. comp[1] = "exited"
          BY <2>n, <3>2 DEF Proceed, Terminated, IInv, FirstOver
        <4>2. outcome[1] \notin {"none", "error", "nil"}
          BY <2>n, <4>1, FirstComponent DEF IInv, OutcomeFollowsBody, OneFailureDelivered
        <4> QED
          BY <2>n, <4>2, FirstComponent DEF IInv, TypeOK
      <3> QED
        BY <2>1, <3>1, <3>2
    <2> QED
      BY <2>2 DEF StorageIInv, Alone
  <1> QED
    BY <1>1, StorageInvariance, PTL DEF StorageSpec, NilMeansApplied

-----------------------------------------------------------------------------
(* the refinement of ReconcileContract *)

applied == [c \in Children |-> child[c].ver]

Needs == [c \in Children |-> IF c = "service" THEN {"statefulset"} ELSE {}]

\* At first a version is asked for and nothing is there.
LEMMA ContractInit == StorageInit => Contract!Init
  <1> SUFFICES ASSUME StorageInit PROVE Contract!Init
    OBVIOUS
  <1>1. PICK s \in Storages : storage = <<s>>
    BY DEF StorageInit
  <1>2. version = 1
    BY <1>1 DEF version
  <1>3. applied = [c \in Children |-> 0] /\ overlapped = FALSE
    BY DEF StorageInit, applied, NoChild
  <1> QED
    BY <1>2, <1>3 DEF Contract!Init, applied

\* A write brings a child forward once what it needs is there, or, after an
\* overlap, puts it back.
LEMMA ContractWrite ==
  ASSUME StorageIInv, NEW g \in Goroutines, PutChild(g), WriteChild(g)
  PROVE  [Contract!Next]_Contract!contractVars
  <1>c. body[g].child \in Children
    BY DEF StorageIInv, StorageTypeOK
  <1>v. PICK c \in Children, v \in {body[g].ver} : c = body[g].child
    BY <1>c
  <1> USE <1>v
  <1>n. /\ child \in [Children -> ChildType] /\ version \in Nat
        /\ seen \in 1 .. version /\ loaded \in 1 .. seen
        /\ \A d \in Children : child[d].ver \in Nat
        /\ UNCHANGED <<storage, overlapped>> /\ UNCHANGED version
    BY DEF StorageIInv, StorageTypeOK, PutChild, ChildType, version
  <1>t. StorageTypeOK
    BY DEF StorageIInv
  <1>1. v \in 1 .. loaded /\ v <= version
    BY <1>n, <1>t, BodyStep DEF StorageIInv, NobodyAhead
  <1>2. applied' = [applied EXCEPT ![c] = v]
    <2>1. child'[c].ver = v
      BY <1>t, WriteStep
    <2>2. \A d \in Children \ {c} : child'[d].ver = child[d].ver
      BY <1>t, BodyStep
    <2> QED
      BY <1>n, <2>1, <2>2 DEF applied
  <1>3. CASE child[c].ver = v
    <2>1. UNCHANGED applied
      BY <1>n, <1>2, <1>3 DEF applied
    <2> QED
      BY <1>n, <2>1 DEF Contract!contractVars, applied
  <1>4. ~overlapped => v = loaded /\ (c = "service" => child["statefulset"].ver = v)
    <2> SUFFICES ASSUME ~overlapped PROVE v = loaded /\ (c = "service" => child["statefulset"].ver = v)
      OBVIOUS
    <2>1. body[g].step # "none"
      BY <1>t, BodyStep
    <2>2. g = 0
      BY <2>1, NothingTyped DEF StorageIInv, Alone, Goroutines
    <2> QED
      BY <2>1, <2>2 DEF StorageIInv, Alone
  <1>5. CASE child[c].ver > v
    <2>1. overlapped
      BY <1>n, <1>4, <1>5 DEF StorageIInv, NobodyAhead
    <2>2. v \in 1 .. applied[c] - 1
      BY <1>n, <1>1, <1>5 DEF applied
    <2>3. c \in Children /\ Contract!PutBack(c)
      BY <1>n, <1>2, <2>1, <2>2 DEF Contract!PutBack, applied
    <2> QED
      BY <2>3 DEF Contract!Next
  <1>6. CASE child[c].ver < v
    <2>1. v \in applied[c] + 1 .. version
      BY <1>n, <1>1, <1>6 DEF applied
    <2>2. overlapped \/ \A d \in Needs[c] : applied[d] >= v
      BY <1>n, <1>1, <1>4 DEF Needs, applied, Children
    <2>3. c \in Children /\ Contract!Bring(c)
      BY <1>n, <1>2, <2>1, <2>2 DEF Contract!Bring, applied, Needs
    <2> QED
      BY <2>3 DEF Contract!Next
  <1> QED
    BY <1>n, <1>1, <1>3, <1>5, <1>6

\* A step of the system is a step of the contract or leaves it as it is.
LEMMA ContractStep ==
  StorageIInv /\ [StorageNext]_allVars => [Contract!Next]_Contract!contractVars
  <1> SUFFICES ASSUME StorageIInv, [StorageNext]_allVars
               PROVE  [Contract!Next]_Contract!contractVars
    OBVIOUS
  <1>s. ASSUME UNCHANGED <<storage, child, overlapped>>
        PROVE  [Contract!Next]_Contract!contractVars
    BY <1>s DEF Contract!contractVars, version
  <1>1. CASE NextCall
    <2>1. UNCHANGED <<storage, child>> /\ (UNCHANGED overlapped \/ overlapped' = (overlapped \/ earlyWait))
      BY <1>1 DEF NextCall, store
    <2>2. UNCHANGED version /\ overlapped \in BOOLEAN /\ earlyWait \in BOOLEAN
      BY <2>1 DEF version, StorageIInv, StorageTypeOK, TypeOK
    <2>3. CASE UNCHANGED overlapped
      BY <1>s, <2>1, <2>3
    <2>4. CASE ~overlapped /\ overlapped' = TRUE
      BY <2>1, <2>2, <2>4 DEF Contract!Next, Contract!LetLoose
    <2> QED
      BY <2>1, <2>2, <2>3, <2>4
  <1>2. CASE GoReconcile \/ GroupStep \/ Sync \/ Crash \/ UNCHANGED allVars
    BY <1>2, <1>s DEF GoReconcile, GroupStep, Sync, Crash, Restart, allVars, storageVars, store
  <1>3. CASE Edit
    <2>1. PICK s \in Storages : storage' = Append(storage, s)
      BY <1>3 DEF Edit
    <2>2. version' = version + 1
      BY <2>1 DEF version, StorageIInv, StorageTypeOK
    <2>3. UNCHANGED <<child, overlapped>>
      BY <1>3 DEF Edit
    <2> QED
      BY <2>2, <2>3 DEF Contract!Next, Contract!Ask
  <1>4. ASSUME NEW g \in Goroutines, Body(g) PROVE [Contract!Next]_Contract!contractVars
    <2>1. CASE PutChild(g) /\ WriteChild(g)
      BY <2>1, ContractWrite
    <2>2. UNCHANGED <<storage, child, overlapped>> \/ (PutChild(g) /\ WriteChild(g))
      BY <1>4 DEF Body, GetChild, PutChild, Panic, CallFails, Restart, store
    <2> QED
      BY <2>1, <2>2, <1>s
  <1> QED
    BY <1>1, <1>2, <1>3, <1>4 DEF StorageNext

\* The Minio and the Mongo reconciler do what the contract promises: unless wg.Wait
\* has overtaken wg.Add, nothing already applied is undone and a Service follows its
\* StatefulSet, with any number of edits, faults and restarts.
THEOREM StorageImplementsContract == StorageSpec => KeepsContract
  <1>1. StorageInit => Contract!Init
    BY ContractInit
  <1>2. StorageIInv /\ [StorageNext]_allVars => [Contract!Next]_Contract!contractVars
    BY ContractStep
  <1> QED
    BY <1>1, <1>2, StorageInvariance, PTL DEF StorageSpec, KeepsContract, Contract!Spec

-----------------------------------------------------------------------------
(* what follows from the contract *)

Promised == INSTANCE ReconcileContractProofs WITH
  Parts <- Children, Kept <- Children,
  Needs <- [c \in Children |-> IF c = "service" THEN {"statefulset"} ELSE {}],
  asked <- version, applied <- [c \in Children |-> child[c].ver],
  loose <- overlapped

\* No child is ahead of the spec, and the Service, whose goroutine is started when
\* that of the StatefulSet has ended, is never newer than the StatefulSet, unless
\* wg.Wait has overtaken wg.Add.
ServiceFollows ==
  /\ \A c \in Children : child[c].ver <= version
  /\ ~overlapped => child["service"].ver <= child["statefulset"].ver

\* The children of a Minio or a Mongo stay in the order of the contract, which the
\* reconcilers implement.
THEOREM ServiceFollowsStatefulSet == StorageSpec => []ServiceFollows
  <1>1. Promised!WellFormed
    BY DEF Promised!WellFormed, Children
  <1>2. Promised!Spec => [](Promised!NeverAhead /\ Promised!NeedsFirst)
    BY <1>1, Promised!ContractKeepsOrder
  <1>3. Promised!NeverAhead /\ Promised!NeedsFirst => ServiceFollows
    BY DEF Promised!NeverAhead, Promised!NeedsFirst, ServiceFollows, Children
  <1>4. Contract!Init => Promised!Init
    BY DEF Contract!Init, Promised!Init
  <1>5. [Contract!Next]_Contract!contractVars => [Promised!Next]_Promised!contractVars
    BY DEF Contract!Next, Contract!Ask, Contract!LetLoose, Contract!Bring, Contract!PutBack,
           Contract!contractVars, Promised!Next, Promised!Ask, Promised!LetLoose,
           Promised!Bring, Promised!PutBack, Promised!contractVars
  <1> QED
    BY <1>2, <1>3, <1>4, <1>5, StorageImplementsContract, PTL
       DEF KeepsContract, Contract!Spec, Promised!Spec

=============================================================================
