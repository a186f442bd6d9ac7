------------------------ MODULE ReconcileGroupProofs ------------------------
(***************************************************************************)
(* The safety properties of ReconcileGroup, for any number of components.  *)
(***************************************************************************)
EXTENDS ReconcileGroup, FiniteSets, FiniteSetTheorems, TLAPS

\* The component goroutines that hold a count of the WaitGroup.
Live == {i \in Components : comp[i] \in {"running", "sending", "finishing"}}

CounterIsLive == counter = Cardinality(Live)

\* Main has started the components of the blocks it has reached, no others.
StartedInOrder ==
  \A i \in Components :
    comp[i] = "idle" <=> i > block \/ (i = block /\ mainPc = "launch")

OutcomeFollowsBody ==
  \A i \in Components :
    /\ comp[i] \in {"idle", "running"} <=> outcome[i] = "none"
    /\ comp[i] = "sending" => outcome[i] \in {"error", "nil"}

\* Until the channel is closed main is in the first block, and leaves the
\* call from there only with what the first component sent.
FirstBlockUntilClosed ==
  ~Terminated => /\ block = 1
                 /\ mainPc # "patch"
                 /\ mainPc = "returned" => comp[1] \in {"finishing", "exited"}

\* The waiter goes to sleep only after the first Add.
SleepsAfterLaunch ==
  /\ waiterPc = "start" => ~earlyWait
  /\ waiterPc \in {"parked", "released"} => mainPc # "launch"

\* Wait returns after the first component, unless it ran before the Add.
FirstOver ==
  ~earlyWait /\ waiterPc \in {"closing", "closed"} => comp[1] = "exited"

IInv ==
  /\ TypeOK
  /\ CounterIsLive
  /\ StartedInOrder
  /\ OutcomeFollowsBody
  /\ FirstBlockUntilClosed
  /\ SleepsAfterLaunch
  /\ FirstOver
  /\ NoWaitGroupMisuse
  /\ RestAfterFirst
  /\ FirstFailureReported
  /\ OneFailureDelivered

-----------------------------------------------------------------------------

USE NumComponentsAssumption, NilSendersAssumption, PatchesFinalizerAssumption

\* There are finitely many component goroutines, those that hold a count included.
LEMMA LiveFinite == IsFiniteSet(Live) /\ Cardinality(Live) \in Nat
  <1>1. IsFiniteSet(Components)
    BY FS_Interval DEF Components
  <1>2. Live \subseteq Components
    BY DEF Live
  <1> QED
    BY <1>1, <1>2, FS_Subset, FS_CardinalityType

\* The first block exists.
LEMMA FirstComponent == 1 \in Components
  BY DEF Components

\* The initial state satisfies the inductive invariant.
LEMMA InitIInv == Init => IInv
  <1> SUFFICES ASSUME Init PROVE IInv
    OBVIOUS
  <1>1. CounterIsLive
    <2>1. Live = {}
      BY DEF Init, Live
    <2> QED
      BY <2>1, FS_EmptySet DEF Init, CounterIsLive
  <1>2. TypeOK
    BY FirstComponent DEF Init, TypeOK, CompPcs
  <1>3. StartedInOrder
    BY DEF Init, StartedInOrder, Components
  <1>4. OutcomeFollowsBody /\ FirstBlockUntilClosed /\ SleepsAfterLaunch /\ FirstOver
    BY DEF Init, OutcomeFollowsBody, FirstBlockUntilClosed, SleepsAfterLaunch, FirstOver,
           Terminated
  <1>5. NoWaitGroupMisuse /\ RestAfterFirst /\ FirstFailureReported /\ OneFailureDelivered
    BY FirstComponent
       DEF Init, NoWaitGroupMisuse, RestAfterFirst, FirstFailureReported, OneFailureDelivered
  <1> QED
    BY <1>1, <1>2, <1>3, <1>4, <1>5 DEF IInv

\* A sleeping or released waiter means what it should: every step of main and
\* of the components keeps the number of live components equal to the counter.
LEMMA CounterStep == IInv /\ [Next]_vars => CounterIsLive'
  <1> SUFFICES ASSUME IInv, [Next]_vars PROVE CounterIsLive'
    OBVIOUS
  <1> USE LiveFinite
  <1>1. CASE Launch
    <2>1. block \in Components /\ comp[block] = "idle"
      BY <1>1 DEF IInv, TypeOK, StartedInOrder, Launch
    <2>2. block \notin Live /\ Live' = Live \cup {block}
      BY <1>1, <2>1 DEF IInv, TypeOK, Launch, Live
    <2> QED
      BY <1>1, <2>2, FS_AddElement DEF IInv, CounterIsLive, Launch
  <1>2. CASE Receive
    <2>1. Live' = Live
      BY <1>2 DEF IInv, TypeOK, Receive, Live
    <2> QED
      BY <1>2, <2>1 DEF IInv, CounterIsLive, Receive
  <1>3. CASE Proceed \/ PatchFinalizer \/ Waiter
    BY <1>3 DEF IInv, CounterIsLive, Live, Proceed, PatchFinalizer,
                Waiter, CallWait, ReturnFromWait, CloseTerminated
  <1>4. ASSUME NEW i \in Components, BodySucceeds(i) \/ BodyFails(i)
        PROVE  CounterIsLive'
    <2>1. Live' = Live
      BY <1>4 DEF IInv, TypeOK, BodySucceeds, BodyFails, Live
    <2> QED
      BY <1>4, <2>1 DEF IInv, CounterIsLive, BodySucceeds, BodyFails
  <1>5. ASSUME NEW i \in Components, Done(i)
        PROVE  CounterIsLive'
    <2>1. i \in Live /\ Live' = Live \ {i}
      BY <1>5 DEF IInv, TypeOK, Done, Live
    <2> QED
      BY <1>5, <2>1, FS_RemoveElement DEF IInv, CounterIsLive, Done
  <1>6. CASE UNCHANGED vars
    BY <1>6 DEF IInv, CounterIsLive, Live, vars
  <1> QED
    BY <1>1, <1>2, <1>3, <1>4, <1>5, <1>6 DEF Next, Main, Component

\* Every step keeps the types.
LEMMA TypeStep == IInv /\ [Next]_vars => TypeOK'
  <1> SUFFICES ASSUME IInv, [Next]_vars PROVE TypeOK'
    OBVIOUS
  <1> USE DEF IInv, TypeOK, CompPcs
  <1>1. CASE Launch
    BY <1>1 DEF Launch
  <1>2. CASE Receive
    BY <1>2 DEF Receive, OutcomeFollowsBody
  <1>3. CASE Proceed
    BY <1>3 DEF Proceed, Components
  <1>4. CASE PatchFinalizer
    BY <1>4 DEF PatchFinalizer
  <1>5. CASE CallWait
    BY <1>5 DEF CallWait
  <1>6. CASE ReturnFromWait
    BY <1>6 DEF ReturnFromWait
  <1>7. CASE CloseTerminated
    BY <1>7 DEF CloseTerminated
  <1>8. ASSUME NEW i \in Components, BodySucceeds(i) PROVE TypeOK'
    BY <1>8 DEF BodySucceeds
  <1>9. ASSUME NEW i \in Components, BodyFails(i) PROVE TypeOK'
    BY <1>9 DEF BodyFails
  <1>10. ASSUME NEW i \in Components, Done(i) PROVE TypeOK'
    <2>1. counter > 0
      <3>1. i \in Live
        BY <1>10 DEF Done, Live
      <3> QED
        BY <3>1, LiveFinite, FS_EmptySet DEF CounterIsLive
    <2> QED
      BY <1>10, <2>1 DEF Done
  <1>11. CASE UNCHANGED vars
    BY <1>11 DEF vars
  <1> QED
    BY <1>1, <1>2, <1>3, <1>4, <1>5, <1>6, <1>7, <1>8, <1>9, <1>10, <1>11 DEF Next, Main, Waiter, Component

\* A waiter that finds the counter zero, or returns from Wait, does so with no
\* component live.
LEMMA NoneLive == ASSUME IInv, counter = 0 PROVE \A i \in Components : comp[i] \in {"idle", "exited"}
  <1>1. Live = {}
    BY LiveFinite, FS_EmptySet DEF IInv, CounterIsLive
  <1> QED
    BY <1>1 DEF Live, IInv, TypeOK, CompPcs

\* While main has not started the first component, none is live.
LEMMA NoneStarted == ASSUME IInv, mainPc = "launch", block = 1 PROVE counter = 0
  <1>1. Live = {}
    BY DEF IInv, TypeOK, StartedInOrder, Live, Components
  <1> QED
    BY <1>1, FS_EmptySet DEF IInv, CounterIsLive

\* What a step of the waiter may disturb of the inductive invariant.
WaiterPart == FirstBlockUntilClosed /\ SleepsAfterLaunch /\ FirstOver /\ NoWaitGroupMisuse

\* What a step of main or of a component may disturb.
GroupPart ==
  /\ StartedInOrder
  /\ OutcomeFollowsBody
  /\ RestAfterFirst
  /\ FirstFailureReported
  /\ OneFailureDelivered

\* Every step keeps the rest of the inductive invariant.
LEMMA RestStep == ASSUME IInv, [Next]_vars, TypeOK' PROVE WaiterPart' /\ GroupPart'
  <1> USE FirstComponent
      DEF IInv, TypeOK, WaiterPart, GroupPart, StartedInOrder, OutcomeFollowsBody, FirstBlockUntilClosed,
           SleepsAfterLaunch, FirstOver, NoWaitGroupMisuse, RestAfterFirst,
           FirstFailureReported, OneFailureDelivered, Terminated, CompPcs, Components
  <1>1. CASE Launch
    <2>1. WaiterPart'
      BY <1>1, NoneStarted DEF Launch
    <2>2. GroupPart'
      BY <1>1 DEF Launch
    <2> QED
      BY <2>1, <2>2
  <1>2. CASE Receive
    <2>1. WaiterPart'
      BY <1>2 DEF Receive
    <2>2. GroupPart'
      BY <1>2 DEF Receive
    <2> QED
      BY <2>1, <2>2
  <1>3. CASE Proceed
    <2>1. WaiterPart'
      BY <1>3 DEF Proceed
    <2>2. GroupPart'
      BY <1>3 DEF Proceed
    <2> QED
      BY <2>1, <2>2
  <1>4. CASE PatchFinalizer
    <2>1. WaiterPart'
      BY <1>4 DEF PatchFinalizer
    <2>2. GroupPart'
      BY <1>4 DEF PatchFinalizer
    <2> QED
      BY <2>1, <2>2
  <1>5. CASE CallWait
    <2>1. WaiterPart'
      <3>2. mainPc = "launch" => earlyWait'
        BY <1>5 DEF CallWait
      <3>3. CASE counter = 0
        <4>1. comp[1] \in {"idle", "exited"}
          BY <3>3, NoneLive
        <4>2. mainPc # "launch" => comp[1] = "exited"
          BY <1>5, <4>1 DEF CallWait
        <4>3. FirstOver'
          BY <1>5, <3>2, <4>2 DEF CallWait
        <4> QED
          BY <1>5, <3>3, <4>3 DEF CallWait
      <3>4. CASE counter # 0
        <4>1. mainPc # "launch"
          BY <1>5, <3>4, NoneStarted DEF CallWait
        <4> QED
          BY <1>5, <3>4, <4>1 DEF CallWait
      <3> QED
        BY <3>3, <3>4
    <2>2. GroupPart'
      BY <1>5 DEF CallWait
    <2> QED
      BY <2>1, <2>2
  <1>6. CASE ReturnFromWait
    <2>1. WaiterPart'
      BY <1>6, NoneLive DEF ReturnFromWait
    <2>2. GroupPart'
      BY <1>6 DEF ReturnFromWait
    <2> QED
      BY <2>1, <2>2
  <1>7. CASE CloseTerminated
    <2>1. WaiterPart'
      BY <1>7 DEF CloseTerminated
    <2>2. GroupPart'
      BY <1>7 DEF CloseTerminated
    <2> QED
      BY <2>1, <2>2
  <1>8. ASSUME NEW i \in Components, BodySucceeds(i) PROVE WaiterPart' /\ GroupPart'
    <2>1. WaiterPart'
      BY <1>8 DEF BodySucceeds
    <2>2. GroupPart'
      BY <1>8 DEF BodySucceeds
    <2> QED
      BY <2>1, <2>2
  <1>9. ASSUME NEW i \in Components, BodyFails(i) PROVE WaiterPart' /\ GroupPart'
    <2>1. WaiterPart'
      BY <1>9 DEF BodyFails
    <2>2. GroupPart'
      BY <1>9 DEF BodyFails
    <2> QED
      BY <2>1, <2>2
  <1>10. ASSUME NEW i \in Components, Done(i) PROVE WaiterPart' /\ GroupPart'
    <2>1. WaiterPart'
      BY <1>10 DEF Done
    <2>2. GroupPart'
      BY <1>10 DEF Done
    <2> QED
      BY <2>1, <2>2
  <1>11. CASE UNCHANGED vars
    BY <1>11 DEF vars
  <1> QED
    BY <1>1, <1>2, <1>3, <1>4, <1>5, <1>6, <1>7, <1>8, <1>9, <1>10, <1>11 DEF Next, Main, Waiter, Component

-----------------------------------------------------------------------------

\* The inductive invariant holds in every reachable state.
THEOREM Invariance == Spec => []IInv
  <1>1. Init => IInv
    BY InitIInv
  <1>2. IInv /\ [Next]_vars => IInv'
    <2> SUFFICES ASSUME IInv, [Next]_vars PROVE IInv'
      OBVIOUS
    <2>1. TypeOK' /\ CounterIsLive'
      BY TypeStep, CounterStep
    <2>2. WaiterPart' /\ GroupPart'
      BY <2>1, RestStep
    <2> QED
      BY <2>1, <2>2 DEF IInv, WaiterPart, GroupPart
  <1> QED
    BY <1>1, <1>2, PTL DEF Spec

\* Every variable keeps its type, for any number of components.
THEOREM TypeCorrect == Spec => []TypeOK
  <1>1. IInv => TypeOK
    BY DEF IInv
  <1> QED
    BY <1>1, Invariance, PTL

\* Reconcile never raises the counter of a WaitGroup whose released waiter
\* is still in Wait, and never leaves a waiter parked on a zero counter.
THEOREM WaitGroupUsedSafely == Spec => []NoWaitGroupMisuse
  <1>1. IInv => NoWaitGroupMisuse
    BY DEF IInv
  <1> QED
    BY <1>1, Invariance, PTL

\* Unless Wait overtakes the first Add, later components start only after the
\* first has ended without failing.
THEOREM FirstComponentFirst == Spec => []RestAfterFirst
  <1>1. IInv => RestAfterFirst
    BY DEF IInv
  <1> QED
    BY <1>1, Invariance, PTL

\* Unless Wait overtakes the first Add, a failure of the first component is
\* what Reconcile returns.
THEOREM FirstFailureIsReturned == Spec => []FirstFailureReported
  <1>1. IInv => FirstFailureReported
    BY DEF IInv
  <1> QED
    BY <1>1, Invariance, PTL

\* Whatever the scheduling, only the component whose error Reconcile returned
\* ever gets past its send.
THEOREM AtMostOneFailureEnds == Spec => []OneFailureDelivered
  <1>1. IInv => OneFailureDelivered
    BY DEF IInv
  <1> QED
    BY <1>1, Invariance, PTL

-----------------------------------------------------------------------------
(* Why the call ends: some goroutine can always go on as long as main has  *)
(* not returned or the waiter has not ended, and there are only so many    *)
(* steps to take.                                                          *)

MainCanStep ==
  \/ mainPc \in {"launch", "patch"}
  \/ mainPc = "select" /\ (comp[block] = "sending" \/ Terminated)

WaiterCanStep == waiterPc \in {"start", "released", "closing"}

ComponentCanStep(i) == comp[i] \in {"running", "finishing"}

\* Nobody waits for everybody else: until main has returned and the channel is
\* closed, main, the waiter or the component of main's block can take a step.
NotStuck ==
  mainPc # "returned" \/ ~Terminated =>
    MainCanStep \/ WaiterCanStep \/ ComponentCanStep(block)

\* The steps each goroutine has left at most.
MainLeft ==
  2 * (NumComponents - block) +
    CASE mainPc = "launch" -> 3 [] mainPc = "select" -> 2
      [] mainPc = "patch" -> 1 [] OTHER -> 0

WaiterLeft ==
  CASE waiterPc = "start" -> 4 [] waiterPc = "parked" -> 3 [] waiterPc = "released" -> 2
    [] waiterPc = "closing" -> 1 [] OTHER -> 0

ComponentLeft(i) ==
  CASE comp[i] = "idle" -> 4 [] comp[i] = "running" -> 3 [] comp[i] = "sending" -> 2
    [] comp[i] = "finishing" -> 1 [] OTHER -> 0

\* The steps left of all of them: main's as <<0, n>>, the waiter's as <<-1, n>>.
StepsLeft ==
  {<<0, n>> : n \in 1 .. MainLeft} \cup {<<-1, n>> : n \in 1 .. WaiterLeft}
    \cup UNION {{<<i, n>> : n \in 1 .. ComponentLeft(i)} : i \in Components}

\* Every step of anybody leaves fewer of them.
NeverBack ==
  [][IsFiniteSet(StepsLeft) /\ Cardinality(StepsLeft') < Cardinality(StepsLeft)]_vars

\* What each goroutine has left, at most.
LeftBounded ==
  /\ MainLeft \in 0 .. 2 * NumComponents + 1
  /\ WaiterLeft \in 0 .. 4
  /\ \A i \in Components : ComponentLeft(i) \in 0 .. 4

\* What each goroutine has left is a number.
LEMMA LeftTyped == TypeOK => LeftBounded
  <1> SUFFICES ASSUME TypeOK PROVE LeftBounded
    OBVIOUS
  <1>1. block \in 1 .. NumComponents /\ NumComponents \in Nat
    BY DEF TypeOK, Components
  <1>2. MainLeft \in 2 * (NumComponents - block) .. 2 * (NumComponents - block) + 3
    BY <1>1 DEF MainLeft
  <1>3. MainLeft \in 0 .. 2 * NumComponents + 1
    BY <1>1, <1>2
  <1>4. WaiterLeft \in 0 .. 4 /\ \A i \in Components : ComponentLeft(i) \in 0 .. 4
    BY DEF WaiterLeft, ComponentLeft
  <1> QED
    BY <1>3, <1>4 DEF LeftBounded

\* So it is after a step.
LEMMA LeftTypedNext == TypeOK' => LeftBounded'
  BY LeftTyped, PTL

\* There are finitely many steps left.
LEMMA LeftFinite == TypeOK => IsFiniteSet(StepsLeft)
  <1> SUFFICES ASSUME TypeOK PROVE IsFiniteSet(StepsLeft)
    OBVIOUS
  <1> DEFINE All == (-1 .. NumComponents) \X (1 .. 2 * NumComponents + 4)
  <1>1. IsFiniteSet(-1 .. NumComponents) /\ IsFiniteSet(1 .. 2 * NumComponents + 4)
    BY FS_Interval
  <1>2. IsFiniteSet(All)
    BY <1>1, FS_Product
  <1>3. StepsLeft \subseteq All
    BY LeftTyped DEF StepsLeft, Components, LeftBounded
  <1> QED
    BY <1>2, <1>3, FS_Subset

\* If one of them has fewer steps left and none has more, then fewer are left.
LEMMA FewerLeft ==
  ASSUME TypeOK, TypeOK',
         MainLeft' <= MainLeft, WaiterLeft' <= WaiterLeft,
         \A i \in Components : ComponentLeft(i)' <= ComponentLeft(i),
         \/ MainLeft' < MainLeft
         \/ WaiterLeft' < WaiterLeft
         \/ \E i \in Components : ComponentLeft(i)' < ComponentLeft(i)
  PROVE  Cardinality(StepsLeft') < Cardinality(StepsLeft)
  <1>0. /\ MainLeft \in Nat /\ MainLeft' \in Nat /\ WaiterLeft \in Nat /\ WaiterLeft' \in Nat
        /\ \A i \in Components : ComponentLeft(i) \in Nat /\ ComponentLeft(i)' \in Nat
        /\ 0 \notin Components /\ -1 \notin Components /\ Components \subseteq Int
    BY LeftTyped, LeftTypedNext DEF LeftBounded, Components
  <1>1. StepsLeft' \subseteq StepsLeft
    BY <1>0 DEF StepsLeft
  <1>2. StepsLeft' # StepsLeft
    <2>1. CASE MainLeft' < MainLeft
      <3>1. <<0, MainLeft>> \in StepsLeft /\ <<0, MainLeft>> \notin StepsLeft'
        BY <1>0, <2>1 DEF StepsLeft
      <3> QED
        BY <3>1
    <2>2. CASE WaiterLeft' < WaiterLeft
      <3>1. <<-1, WaiterLeft>> \in StepsLeft /\ <<-1, WaiterLeft>> \notin StepsLeft'
        BY <1>0, <2>2 DEF StepsLeft
      <3> QED
        BY <3>1
    <2>3. ASSUME NEW i \in Components, ComponentLeft(i)' < ComponentLeft(i)
          PROVE  StepsLeft' # StepsLeft
      <3>1. <<i, ComponentLeft(i)>> \in StepsLeft /\ <<i, ComponentLeft(i)>> \notin StepsLeft'
        BY <1>0, <2>3 DEF StepsLeft
      <3> QED
        BY <3>1
    <2> QED
      BY <2>1, <2>2, <2>3
  <1>3. IsFiniteSet(StepsLeft)
    BY LeftFinite
  <1>4. /\ Cardinality(StepsLeft') \in Nat /\ Cardinality(StepsLeft) \in Nat
        /\ Cardinality(StepsLeft') <= Cardinality(StepsLeft)
        /\ Cardinality(StepsLeft') # Cardinality(StepsLeft)
    BY <1>1, <1>2, <1>3, FS_Subset, FS_CardinalityType
  <1> QED
    BY <1>4

\* Every step leaves fewer steps.
LEMMA FewerStep == IInv /\ IInv' /\ Next => Cardinality(StepsLeft') < Cardinality(StepsLeft)
  <1> SUFFICES ASSUME IInv, IInv', Next PROVE Cardinality(StepsLeft') < Cardinality(StepsLeft)
    OBVIOUS
  <1>0. /\ TypeOK /\ TypeOK'
        /\ block \in Int /\ NumComponents \in Int
        /\ \A i \in Components : ComponentLeft(i) \in Nat
        /\ comp \in [Components -> CompPcs]
    BY LeftTyped DEF IInv, LeftBounded, TypeOK, Components
  <1> DEFINE Fewer ==
        /\ MainLeft' <= MainLeft /\ WaiterLeft' <= WaiterLeft
        /\ \A i \in Components : ComponentLeft(i)' <= ComponentLeft(i)
        /\ \/ MainLeft' < MainLeft
           \/ WaiterLeft' < WaiterLeft
           \/ \E i \in Components : ComponentLeft(i)' < ComponentLeft(i)
  <1> SUFFICES Fewer
    BY <1>0, FewerLeft
  <1> USE <1>0 DEF MainLeft, WaiterLeft, ComponentLeft
  <1>1. CASE Launch
    <2>1. block \in Components /\ comp[block] = "idle"
      BY <1>1 DEF IInv, StartedInOrder, Launch, TypeOK
    <2> QED
      BY <1>1, <2>1 DEF Launch
  <1>2. CASE Receive
    BY <1>2 DEF Receive, TypeOK
  <1>3. CASE Proceed
    BY <1>3 DEF Proceed
  <1>4. CASE PatchFinalizer
    BY <1>4 DEF PatchFinalizer
  <1>5. CASE Waiter
    BY <1>5 DEF Waiter, CallWait, ReturnFromWait, CloseTerminated
  <1>6. ASSUME NEW i \in Components, BodySucceeds(i) \/ BodyFails(i) PROVE Fewer
    BY <1>6 DEF BodySucceeds, BodyFails
  <1>7. ASSUME NEW i \in Components, Done(i) PROVE Fewer
    BY <1>7 DEF Done
  <1> QED
    BY <1>1, <1>2, <1>3, <1>4, <1>5, <1>6, <1>7 DEF Next, Main, Component

\* A select of main in which neither case is ready leaves main's component or the
\* waiter something to do.
LEMMA SomebodyCanStep == IInv => NotStuck
  <1> SUFFICES ASSUME IInv, mainPc # "returned" \/ ~Terminated, ~MainCanStep, ~WaiterCanStep
               PROVE  ComponentCanStep(block)
    BY DEF NotStuck
  <1>1. waiterPc = "parked"
    BY DEF IInv, TypeOK, Terminated, MainCanStep, WaiterCanStep
  <1>2. /\ block = 1 /\ mainPc \in {"select", "returned"} /\ counter > 0
        /\ mainPc = "returned" => comp[1] \in {"finishing", "exited"}
    BY <1>1 DEF IInv, TypeOK, FirstBlockUntilClosed, SleepsAfterLaunch, NoWaitGroupMisuse,
                Terminated
  <1>3. PICK i \in Components : comp[i] \in {"running", "sending", "finishing"}
    BY <1>2, LiveFinite, FS_EmptySet DEF IInv, CounterIsLive, Live
  <1>4. i = 1
    BY <1>2, <1>3 DEF IInv, StartedInOrder, Components
  <1> QED
    BY <1>2, <1>3, <1>4 DEF MainCanStep, ComponentCanStep

\* Until Reconcile has returned and its waiter has ended, somebody can take a step.
THEOREM NeverStuck == Spec => []NotStuck
  BY SomebodyCanStep, Invariance, PTL

\* A call of Reconcile, its waiter and its components take finitely many steps, in
\* every schedule: at most 2n + 1 of main, 4 of the waiter and 4 of each of the n
\* components.
THEOREM StepsRunOut == Spec => NeverBack
  <1>1. IInv /\ IInv' /\ [Next]_vars =>
          [IsFiniteSet(StepsLeft) /\ Cardinality(StepsLeft') < Cardinality(StepsLeft)]_vars
    BY FewerStep, LeftFinite DEF IInv
  <1> QED
    BY <1>1, Invariance, PTL DEF Spec, NeverBack

=============================================================================
