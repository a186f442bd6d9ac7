-------------------- MODULE ControlPlaneReconcilerProofs --------------------
(***************************************************************************)
(* The safety properties of ControlPlaneReconciler, for any number of      *)
(* components, versions, faults and leftover calls.                        *)
(***************************************************************************)
EXTENDS ControlPlaneReconciler, ReconcileGroupProofs, SequenceTheorems

BodyType == [at : 0 .. 4, phase : {"start", "send", "decode"}, read : Counts, answer : CopyType]

\* A component goroutine is at a task of its own, and in an update of the
\* status only there.
Position(b, i) ==
  /\ b.at \in 0 .. Len(Work(i))
  /\ b.at = 0 => b = NoBody
  /\ b.phase # "start" => b.at # 0 /\ Work(i)[b.at] = "status"

Positions == \A c \in Calls, i \in Components : Position(body[c][i], i)

\* The types, with the domain of the children.
Typed == CPTypeOK /\ DOMAIN child = Components /\ Positions

\* The group takes the components of the current call that are at work to be
\* running.
BodyRuns == \A i \in Components : AtWork(0, i) => comp[i] = "running"

\* Whoever has the resource version of the API server's object has its content;
\* a copy may have other counts by then.
Known(o) == o.rv <= cp.object.rv /\ (o.rv = cp.object.rv => o = cp.object)
VersionKnown(o) == o.rv <= cp.object.rv /\ (o.rv = cp.object.rv => o.ver = cp.object.ver)

CopiesKnown ==
  /\ cp.object.rv >= 1 /\ Known(seen)
  /\ \A c \in Calls : VersionKnown(copy[c])
  /\ \A c \in Calls, i \in Components :
       body[c][i].phase = "decode" => Known(body[c][i].answer)

\* The version of the spec a call works from stays the same while it works, and
\* is never ahead of the informer's or the API server's.
Versions ==
  /\ copy[0].ver \in 1 .. seen.ver /\ seen.ver <= cp.object.ver
  /\ \A c \in Calls, i \in Components :
       /\ AtWork(c, i) => copy[c].ver \in 1 .. cp.object.ver
       /\ body[c][i].phase = "decode" => body[c][i].answer.ver = copy[c].ver

\* As long as no call fails, a copy that could be sent has other counts than the
\* object only where its component is about to send what it has read.
CountsKnown ==
  faults = 0 => \A c \in Calls, i \in Deployed :
    copy[c].rv = cp.object.rv =>
      \/ copy[c].count[i] = cp.object.count[i]
      \/ body[c][i].phase = "send" /\ body[c][i].read = copy[c].count[i]

\* General works in the current call only.
GeneralOnce == \A c \in Calls \ {0} : ~AtWork(c, General)

\* What all components share is at most as new as the current call's copy, and as
\* new where general has been at work.
SharedSoFar ==
  /\ \A k \in KindsOf(General) : child[General][k] <= copy[0].ver
  /\ \A n \in 1 .. body[0][General].at - 1 : child[General][Work(General)[n]] = copy[0].ver
  /\ outcome[General] = "ok" => \A k \in KindsOf(General) : child[General][k] = copy[0].ver

\* No other component's goroutine, of whichever call, works from a newer version
\* than that of the shared children, and no Deployment has been written from one.
RestAfterShared ==
  /\ \A c \in Calls, i \in Deployed : AtWork(c, i) =>
       \A k \in KindsOf(General) : copy[c].ver <= child[General][k]
  /\ \A i \in Deployed, k \in KindsOf(General) : child[i]["deployment"] <= child[General][k]

OrderedInv == Ordered => GeneralOnce /\ SharedSoFar /\ RestAfterShared

-----------------------------------------------------------------------------

USE NumComponentsAssumption, ManyBlocksAssumption, BoundsAssumption

\* General is a component.
LEMMA GeneralFirst == General \in Components /\ General = 1 /\ 0 \in Calls
  BY DEF General, Components, Calls

\* The tasks of general.
LEMMA GeneralWork ==
  /\ Work(General) = <<"configmap", "secret", "service">>
  /\ Len(Work(General)) = 3
  /\ KindsOf(General) = {"configmap", "secret", "service"}
  <1>1. Work(General) = <<"configmap", "secret", "service">>
    BY DEF Work, General, Gateway
  <1>2. Len(Work(General)) = 3 /\ DOMAIN Work(General) = 1 .. 3
    BY <1>1
  <1>3. {Work(General)[n] : n \in DOMAIN Work(General)} = {"configmap", "secret", "service"}
    BY <1>1, <1>2
  <1> QED
    BY <1>1, <1>2, <1>3 DEF KindsOf, Kinds

\* The tasks of the components with a Deployment.
LEMMA DeployedWork ==
  ASSUME NEW i \in Deployed
  PROVE  /\ i = Gateway => Work(i) = <<"configmap", "deployment", "status", "service">>
         /\ i # Gateway => Work(i) = <<"deployment", "status", "service">>
  BY DEF Deployed, Work, General, Gateway

\* Every component has up to four tasks, and every task but the update of the
\* status is about a child of the component.
LEMMA Tasks ==
  ASSUME NEW i \in Components
  PROVE  /\ Len(Work(i)) \in 3 .. 4
         /\ \A n \in 1 .. Len(Work(i)) : Work(i)[n] # "status" => Work(i)[n] \in KindsOf(i)
         /\ "configmap" \in KindsOf(i) \/ i # General
         /\ i = General => \A n \in 1 .. Len(Work(i)) : Work(i)[n] # "status"
  <1>1. CASE i = General
    BY <1>1, GeneralWork
  <1>2. CASE i # General
    <2>0. i \in Deployed
      BY <1>2 DEF Deployed
    <2>1. Len(Work(i)) \in 3 .. 4 /\ DOMAIN Work(i) = 1 .. Len(Work(i))
      BY <2>0, DeployedWork
    <2>2. \A n \in 1 .. Len(Work(i)) : Work(i)[n] # "status" => Work(i)[n] \in Kinds
      BY <2>0, DeployedWork DEF Kinds
    <2> QED
      BY <1>2, <2>1, <2>2 DEF KindsOf
  <1> QED
    BY <1>1, <1>2

-----------------------------------------------------------------------------
(* steps of the bodies, and what they leave alone *)

\* A goroutine of call c touches only itself and the call's copy.
OnlyOwn(c, i) ==
  /\ body' \in [Calls -> [Components -> BodyType]] /\ copy' \in [Calls -> CopyType]
  /\ \A d \in Calls, j \in Components : d # c \/ j # i => body'[d][j] = body[d][j]
  /\ \A d \in Calls \ {c} : copy'[d] = copy[d]

\* The copy becomes o, or is dropped with the last goroutine of an earlier call.
CopyBecomes(c, o) ==
  copy'[c] = o \/ (c # 0 /\ copy'[c] = NoCopy /\ \A j \in Components : body'[c][j] = NoBody)

Ends(c, i, o) == OnlyOwn(c, i) /\ body'[c][i] = NoBody /\ CopyBecomes(c, o)

GoesOn(c, i, o) ==
  /\ OnlyOwn(c, i) /\ copy'[c] = o /\ UNCHANGED vars
  /\ body[c][i].at < Len(Work(i))
  /\ body'[c][i] = [NoBody EXCEPT !.at = body[c][i].at + 1]

\* The body has done one of its tasks, its last one or another.
Advanced(c, i, o) ==
  \/ GoesOn(c, i, o)
  \/ /\ Ends(c, i, o) /\ body[c][i].at = Len(Work(i))
     /\ c = 0 => BodySucceeds(i)
     /\ c # 0 => UNCHANGED vars

Failed(c, i) ==
  /\ Ends(c, i, copy[c])
  /\ c = 0 => BodyFails(i)
  /\ c # 0 => UNCHANGED vars

\* What does not exist yet is typed.
LEMMA NothingTyped ==
  /\ NoCopy \in CopyType /\ NoBody \in BodyType /\ NoBody.at = 0 /\ NoBody.phase = "start"
  /\ NoBody.answer = NoCopy /\ NoCopy.rv = 0 /\ NoCopy.ver = 0
  <1>1. NoCounts \in [Deployed -> Counts]
    BY DEF NoCounts, Counts
  <1>2. NoCopy \in CopyType
    BY <1>1 DEF NoCopy, CopyType
  <1>3. NoBody \in BodyType
    BY <1>2 DEF NoBody, BodyType, Counts
  <1> QED
    BY <1>2, <1>3 DEF NoBody, NoCopy

\* The facts about one body that its steps start from.
LEMMA BodyTyped ==
  ASSUME Typed, NEW c \in Calls, NEW i \in Components
  PROVE  /\ body \in [Calls -> [Components -> BodyType]] /\ copy \in [Calls -> CopyType]
         /\ body[c] \in [Components -> BodyType] /\ body[c][i] \in BodyType
         /\ copy[c] \in CopyType /\ body[c][i].answer \in CopyType
         /\ body[c][i].at \in 0 .. Len(Work(i)) /\ Len(Work(i)) \in 3 .. 4
  <1>1. /\ body \in [Calls -> [Components -> BodyType]] /\ copy \in [Calls -> CopyType]
    BY DEF Typed, CPTypeOK, BodyType
  <1>2. body[c][i] \in BodyType
    BY <1>1
  <1>3. body[c][i].answer \in CopyType
    BY <1>2 DEF BodyType
  <1> QED
    BY <1>1, <1>2, <1>3, Tasks DEF Typed, Positions, Position, AtWork, Task

\* Leaving.
LEMMA LeaveStep ==
  ASSUME Typed, NEW c \in Calls, NEW i \in Components, NEW o \in CopyType, Leave(c, i, o)
  PROVE  Ends(c, i, o)
  <1>1. body' = [body EXCEPT ![c][i] = NoBody]
    BY DEF Leave
  <1>2. body' \in [Calls -> [Components -> BodyType]] /\ body'[c][i] = NoBody
        /\ \A d \in Calls, j \in Components : d # c \/ j # i => body'[d][j] = body[d][j]
    BY <1>1, BodyTyped, NothingTyped
  <1>3. CASE c # 0 /\ \A j \in Components \ {i} : ~AtWork(c, j)
    <2>1. copy' = [copy EXCEPT ![c] = NoCopy]
      BY <1>3 DEF Leave
    <2>2. \A j \in Components : body'[c][j] = NoBody
      BY <1>2, <1>3 DEF Typed, Positions, Position, AtWork, Task
    <2> QED
      BY <1>2, <1>3, <2>1, <2>2, BodyTyped, NothingTyped DEF Ends, OnlyOwn, CopyBecomes
  <1>4. CASE ~(c # 0 /\ \A j \in Components \ {i} : ~AtWork(c, j))
    <2>1. copy' = [copy EXCEPT ![c] = o]
      BY <1>4 DEF Leave
    <2> QED
      BY <1>2, <2>1, BodyTyped DEF Ends, OnlyOwn, CopyBecomes
  <1> QED
    BY <1>3, <1>4

\* A failing body.
LEMMA FailStep ==
  ASSUME Typed, NEW c \in Calls, NEW i \in Components, NEW v, Fail(c, i, v)
  PROVE  Failed(c, i)
  BY LeaveStep, BodyTyped DEF Fail, Failed

\* A body that has done one of its tasks.
LEMMA AdvanceStep ==
  ASSUME Typed, NEW c \in Calls, NEW i \in Components, NEW o \in CopyType, Advance(c, i, o)
  PROVE  Advanced(c, i, o)
  <1> USE DEF Advanced
  <1>1. CASE body[c][i].at < Len(Work(i))
    <2>1. /\ body' = [body EXCEPT ![c][i] = [NoBody EXCEPT !.at = body[c][i].at + 1]]
          /\ copy' = [copy EXCEPT ![c] = o] /\ UNCHANGED vars
      BY <1>1 DEF Advance
    <2>2. body[c][i].at + 1 \in 0 .. 4
      <3>1. PICK n \in 3 .. 4 : n = Len(Work(i))
        BY BodyTyped
      <3>2. PICK m \in 0 .. n : m = body[c][i].at
        BY <3>1, BodyTyped
      <3>3. m < n
        BY <1>1, <3>1, <3>2
      <3>4. m + 1 \in 0 .. 4
        BY <3>3
      <3> QED
        BY <3>2, <3>4
    <2>3. [NoBody EXCEPT !.at = body[c][i].at + 1] \in BodyType
      BY <2>2, NothingTyped DEF BodyType
    <2>4. body' \in [Calls -> [Components -> BodyType]]
          /\ body'[c][i] = [NoBody EXCEPT !.at = body[c][i].at + 1]
          /\ \A d \in Calls, j \in Components : d # c \/ j # i => body'[d][j] = body[d][j]
      BY <2>1, <2>3, BodyTyped
    <2> QED
      BY <1>1, <2>1, <2>4, BodyTyped DEF GoesOn, OnlyOwn
  <1>2. CASE ~(body[c][i].at < Len(Work(i)))
    <2>1. body[c][i].at = Len(Work(i))
      BY <1>2, BodyTyped
    <2> QED
      BY <1>2, <2>1, LeaveStep DEF Advance
  <1> QED
    BY <1>1, <1>2

-----------------------------------------------------------------------------
(* each action of a body *)

\* A child is written from the version of the call's copy.
Written(c, i) ==
  /\ Task(c, i) \in KindsOf(i) /\ body[c][i].phase = "start"
  /\ child'[i][Task(c, i)] = copy[c].ver
  /\ \A j \in Components : \A k \in KindsOf(j) :
       j # i \/ k # Task(c, i) => child'[j][k] = child[j][k]
  /\ DOMAIN child' = Components
  /\ \A j \in Components : child'[j] \in [KindsOf(j) -> 0 .. MaxVersion]

\* CreateOrUpdate writes the child, and the body goes on or ends.
LEMMA ApplyStep ==
  ASSUME Typed, NEW c \in Calls, NEW i \in Components, ApplyChild(c, i)
  PROVE  Written(c, i) /\ Advanced(c, i, copy[c])
  <1>1. body[c][i].at \in 1 .. Len(Work(i)) /\ Task(c, i) # "status"
    BY BodyTyped DEF ApplyChild, AtWork
  <1>2. Task(c, i) \in KindsOf(i)
    BY <1>1, Tasks DEF Task
  <1>3. body[c][i].phase = "start"
    BY <1>1, BodyTyped DEF Typed, Positions, Position, AtWork, Task
  <1>4. /\ DOMAIN child = Components
        /\ \A j \in Components : child[j] \in [KindsOf(j) -> 0 .. MaxVersion]
    BY DEF Typed, CPTypeOK
  <1>5. child' = [child EXCEPT ![i] = [child[i] EXCEPT ![Task(c, i)] = copy[c].ver]]
    BY DEF ApplyChild
  <1>6. copy[c].ver \in 0 .. MaxVersion
    BY BodyTyped DEF CopyType
  <1>7. /\ DOMAIN child' = Components
        /\ child'[i] = [child[i] EXCEPT ![Task(c, i)] = copy[c].ver]
        /\ \A j \in Components \ {i} : child'[j] = child[j]
    BY <1>4, <1>5
  <1>8. Written(c, i)
    BY <1>2, <1>3, <1>4, <1>6, <1>7 DEF Written
  <1>9. Advanced(c, i, copy[c])
    BY BodyTyped, AdvanceStep DEF ApplyChild
  <1> QED
    BY <1>8, <1>9

\* The count is put into the copy, and the goroutine goes on to send it.
Noted(c, i) ==
  /\ OnlyOwn(c, i) /\ UNCHANGED vars
  /\ body[c][i].phase = "start" /\ AtWork(c, i) /\ Task(c, i) = "status"
  /\ availableSeen[i] \in Counts
  /\ body'[c][i] = [body[c][i] EXCEPT !.phase = "send", !.read = availableSeen[i]]
  /\ copy'[c] = [copy[c] EXCEPT !.count[i] = availableSeen[i]]

\* Reading the Deployment ends the body, takes it past the status, or notes a count.
LEMMA ReadStep ==
  ASSUME Typed, NEW c \in Calls, NEW i \in Components, ReadCount(c, i)
  PROVE  /\ body[c][i].phase = "start" /\ i \in Deployed
         /\ Failed(c, i) \/ Advanced(c, i, copy[c]) \/ Noted(c, i)
         /\ UNCHANGED <<cluster, bounds, overlapped>>
  <1>1. body[c][i].at \in 1 .. Len(Work(i)) /\ Task(c, i) = "status"
    BY BodyTyped DEF ReadCount, AtWork
  <1>2. i \in Deployed
    BY <1>1, Tasks DEF Task, Deployed
  <1>3. body[c][i].phase = "start" /\ UNCHANGED <<cluster, bounds, overlapped>>
    BY DEF ReadCount
  <1>4. CASE availableSeen[i] = NotFound /\ Fail(c, i, "nil")
    BY <1>2, <1>3, <1>4, FailStep
  <1>5. CASE availableSeen[i] = copy[c].count[i] /\ Advance(c, i, copy[c])
    BY <1>2, <1>3, <1>5, BodyTyped, AdvanceStep
  <1>6. CASE /\ availableSeen[i] \notin {NotFound, copy[c].count[i]}
             /\ copy' = [copy EXCEPT ![c].count[i] = availableSeen[i]]
             /\ body' = [body EXCEPT ![c][i].phase = "send", ![c][i].read = availableSeen[i]]
             /\ UNCHANGED vars
    <2>1. availableSeen[i] \in Counts
      BY <1>2, <1>6 DEF Typed, CPTypeOK
    <2>2. [body[c][i] EXCEPT !.phase = "send", !.read = availableSeen[i]] \in BodyType
      BY <2>1, BodyTyped DEF BodyType
    <2>3. body' = [body EXCEPT ![c][i] = [body[c][i] EXCEPT !.phase = "send",
                                                           !.read = availableSeen[i]]]
      BY <1>6, BodyTyped DEF BodyType
    <2>4. /\ body' \in [Calls -> [Components -> BodyType]]
          /\ body'[c][i] = [body[c][i] EXCEPT !.phase = "send", !.read = availableSeen[i]]
          /\ \A d \in Calls, j \in Components : d # c \/ j # i => body'[d][j] = body[d][j]
      BY <2>2, <2>3, BodyTyped
    <2>5. copy' = [copy EXCEPT ![c] = [copy[c] EXCEPT !.count[i] = availableSeen[i]]]
      BY <1>6
    <2>6. [copy[c] EXCEPT !.count[i] = availableSeen[i]] \in CopyType
      BY <1>2, <2>1, BodyTyped DEF CopyType
    <2>7. /\ copy' \in [Calls -> CopyType]
          /\ copy'[c] = [copy[c] EXCEPT !.count[i] = availableSeen[i]]
          /\ \A d \in Calls \ {c} : copy'[d] = copy[d]
      BY <2>5, <2>6, BodyTyped
    <2>8. Noted(c, i)
      BY <1>1, <1>3, <1>6, <2>1, <2>4, <2>7 DEF Noted, OnlyOwn, AtWork
    <2> QED
      BY <1>2, <1>3, <2>8
  <1> QED
    BY <1>4, <1>5, <1>6 DEF ReadCount

\* The API server has stored the copy's counts, and the answer is on its way.
Stores(c, i) ==
  LET stored == Stored([cp.object EXCEPT !.count = copy[c].count])
  IN  /\ copy[c].rv = cp.object.rv
      /\ cp' = [cp EXCEPT !.object = stored]
      /\ OnlyOwn(c, i) /\ UNCHANGED vars /\ UNCHANGED copy
      /\ body'[c][i] = [body[c][i] EXCEPT !.phase = "decode", !.answer = stored]

\* What the API server stores is typed; it has the resource version of the
\* object, or the next one if it differs.
LEMMA StoredStep ==
  ASSUME CPTypeOK, NEW o \in CopyType, o.rv = cp.object.rv
  PROVE  /\ Stored(o) \in CopyType /\ Stored(o).ver = o.ver /\ Stored(o).count = o.count
         /\ Stored(o) = cp.object \/ Stored(o).rv = cp.object.rv + 1
  <1>1. CASE o = cp.object
    BY <1>1 DEF Stored
  <1>2. CASE o # cp.object
    <2>1. Stored(o) = [o EXCEPT !.rv = cp.object.rv + 1]
      BY <1>2 DEF Stored
    <2>2. cp.object.rv + 1 \in Nat
      BY DEF CPTypeOK, CopyType
    <2> QED
      BY <2>1, <2>2 DEF CopyType
  <1> QED
    BY <1>1, <1>2

\* Status().Update is refused with a copy that is behind, and stored otherwise.
LEMMA SendStep ==
  ASSUME Typed, NEW c \in Calls, NEW i \in Components, SendStatus(c, i)
  PROVE  /\ body[c][i].phase = "send"
         /\ UNCHANGED <<seen, child, available, availableSeen, bounds, overlapped>>
         /\ \/ copy[c].rv # cp.object.rv /\ Failed(c, i) /\ UNCHANGED cp
            \/ Stores(c, i)
  <1>1. CASE copy[c].rv # cp.object.rv /\ Fail(c, i, "error") /\ UNCHANGED cp
    BY <1>1, FailStep DEF SendStatus
  <1>2. CASE copy[c].rv = cp.object.rv /\ ~(copy[c].rv # cp.object.rv)
    <2> DEFINE stored == Stored([cp.object EXCEPT !.count = copy[c].count])
    <2>1. stored \in CopyType
      <3>1. cp.object \in CopyType /\ copy[c].count \in [Deployed -> Counts]
        BY BodyTyped DEF Typed, CPTypeOK, CopyType
      <3>2. [cp.object EXCEPT !.count = copy[c].count] \in CopyType
            /\ [cp.object EXCEPT !.count = copy[c].count].rv = cp.object.rv
        BY <3>1 DEF CopyType
      <3> QED
        BY <3>2, StoredStep DEF Typed
    <2>2. /\ cp' = [cp EXCEPT !.object = stored] /\ UNCHANGED <<vars, copy>>
          /\ body' = [body EXCEPT ![c][i].phase = "decode", ![c][i].answer = stored]
      BY <1>2 DEF SendStatus
    <2> HIDE DEF stored
    <2>3. body' = [body EXCEPT ![c][i] = [body[c][i] EXCEPT !.phase = "decode",
                                                           !.answer = stored]]
      BY <2>2, BodyTyped DEF BodyType
    <2>4. [body[c][i] EXCEPT !.phase = "decode", !.answer = stored] \in BodyType
      BY <2>1, BodyTyped DEF BodyType
    <2>5. /\ body' \in [Calls -> [Components -> BodyType]]
          /\ body'[c][i] = [body[c][i] EXCEPT !.phase = "decode", !.answer = stored]
          /\ \A d \in Calls, j \in Components : d # c \/ j # i => body'[d][j] = body[d][j]
      BY <2>3, <2>4, BodyTyped
    <2>6. OnlyOwn(c, i)
      BY <2>2, <2>5, BodyTyped DEF OnlyOwn
    <2>7. Stores(c, i)
      BY <1>2, <2>2, <2>5, <2>6 DEF Stores, stored
    <2> QED
      BY <2>7 DEF SendStatus
  <1> QED
    BY <1>1, <1>2 DEF SendStatus

\* Decoding the answer takes the body past the status.
LEMMA DecodeStep ==
  ASSUME Typed, NEW c \in Calls, NEW i \in Components, DecodeAnswer(c, i)
  PROVE  Advanced(c, i, body[c][i].answer) /\ UNCHANGED <<cluster, bounds, overlapped>>
  BY BodyTyped, AdvanceStep DEF DecodeAnswer

\* A failed call ends the body with an error.
LEMMA CallFailsStep ==
  ASSUME Typed, NEW c \in Calls, NEW i \in Components, CallFails(c, i)
  PROVE  Failed(c, i) /\ UNCHANGED <<cluster, changes, overlapped>> /\ faults' = faults + 1
  BY FailStep DEF CallFails

\* A body at work changes nothing that is not its own but the children and the
\* status, and its goroutine ends when it does.
LEMMA OwnStep ==
  ASSUME Typed, NEW c \in Calls, NEW i \in Components, Body(c, i)
  PROVE  /\ AtWork(c, i) /\ OnlyOwn(c, i)
         /\ UNCHANGED <<seen, available, availableSeen, changes, overlapped>>
         /\ \/ UNCHANGED vars
            \/ c = 0 /\ body'[c][i] = NoBody /\ (BodySucceeds(i) \/ BodyFails(i))
  <1>1. AtWork(c, i)
    BY DEF Body, ApplyChild, ReadCount, SendStatus, DecodeAnswer, CallFails
  <1>2. ASSUME NEW o, Advanced(c, i, o)
        PROVE  /\ OnlyOwn(c, i)
               /\ \/ UNCHANGED vars
                  \/ c = 0 /\ body'[c][i] = NoBody /\ (BodySucceeds(i) \/ BodyFails(i))
    BY <1>2 DEF Advanced, GoesOn, Ends
  <1>3. ASSUME Failed(c, i)
        PROVE  /\ OnlyOwn(c, i)
               /\ \/ UNCHANGED vars
                  \/ c = 0 /\ body'[c][i] = NoBody /\ (BodySucceeds(i) \/ BodyFails(i))
    BY <1>3 DEF Failed, Ends
  <1>4. CASE ApplyChild(c, i)
    BY <1>1, <1>2, <1>4, ApplyStep DEF ApplyChild, bounds
  <1>5. CASE ReadCount(c, i)
    BY <1>1, <1>2, <1>3, <1>5, ReadStep DEF Noted, cluster, bounds
  <1>6. CASE SendStatus(c, i)
    BY <1>1, <1>3, <1>6, SendStep DEF Stores, bounds
  <1>7. CASE DecodeAnswer(c, i)
    BY <1>1, <1>2, <1>7, DecodeStep DEF cluster, bounds
  <1>8. CASE CallFails(c, i)
    BY <1>1, <1>3, <1>8, CallFailsStep DEF cluster
  <1> QED
    BY <1>4, <1>5, <1>6, <1>7, <1>8 DEF Body

-----------------------------------------------------------------------------
(* the group and the types *)

\* A new call starts with the group's invariant.
LEMMA FreshIInv == NextCall => IInv'
  <1>1. NextCall => Init'
    BY DEF NextCall, Init
  <1>2. Init' => IInv'
    BY InitIInv, PTL
  <1> QED
    BY <1>1, <1>2

\* Every step of the system is one of the group, leaves the group alone, or
\* starts a call.
LEMMA GroupKeeps == IInv /\ Typed /\ [CPNext]_allVars => IInv'
  <1> SUFFICES ASSUME IInv, Typed, [CPNext]_allVars PROVE IInv'
    OBVIOUS
  <1>1. ASSUME [Next]_vars PROVE IInv'
    <2>1. TypeOK' /\ CounterIsLive'
      BY <1>1, TypeStep, CounterStep
    <2>2. WaiterPart' /\ GroupPart'
      BY <1>1, <2>1, RestStep
    <2> QED
      BY <2>1, <2>2 DEF IInv, WaiterPart, GroupPart
  <1>2. CASE NextCall
    BY <1>2, FreshIInv
  <1>3. CASE GoReconcile \/ FinalizerPatched \/ Selected \/ Waited
    BY <1>1, <1>3 DEF GoReconcile, FinalizerPatched, Selected, Waited, Next, Main
  <1>4. ASSUME NEW i \in Components, DoneCalled(i) PROVE IInv'
    BY <1>1, <1>4 DEF DoneCalled, Next, Component
  <1>5. ASSUME NEW c \in Calls, NEW i \in Components, Body(c, i) PROVE IInv'
    BY <1>1, <1>5, OwnStep DEF Next, Component
  <1>6. CASE Edit \/ Sync \/ UNCHANGED allVars
    BY <1>1, <1>6 DEF Edit, Sync, allVars
  <1>7. ASSUME NEW i \in Deployed, ReplicasChange(i) PROVE IInv'
    BY <1>1, <1>7 DEF ReplicasChange
  <1> QED
    BY <1>2, <1>3, <1>4, <1>5, <1>6, <1>7 DEF CPNext

\* A launched component is at its first task.
LEMMA LaunchStep ==
  ASSUME Typed, BodyRuns, IInv, GoReconcile
  PROVE  /\ OnlyOwn(0, block) /\ UNCHANGED copy /\ block \in Components
         /\ body[0][block] = NoBody
         /\ body'[0][block] = [body[0][block] EXCEPT !.at = 1]
         /\ comp'[block] = "running" /\ UNCHANGED <<cluster, bounds, overlapped, outcome>>
  <1>0. block \in Components /\ 0 \in Calls
    BY GeneralFirst DEF IInv, TypeOK
  <1>b. comp[block] = "idle"
    BY <1>0 DEF GoReconcile, Launch, IInv, StartedInOrder
  <1>c. body[0][block] = NoBody
    BY <1>0, <1>b DEF BodyRuns, Typed, Positions, Position, AtWork, Task
  <1>1. body' = [body EXCEPT ![0] = [body[0] EXCEPT ![block] = [body[0][block] EXCEPT !.at = 1]]]
    BY DEF GoReconcile
  <1>2. [body[0][block] EXCEPT !.at = 1] \in BodyType
    <2>1. body[0][block] \in BodyType
      BY <1>0, BodyTyped
    <2> QED
      BY <2>1 DEF BodyType
  <1>3. /\ body' \in [Calls -> [Components -> BodyType]]
        /\ body'[0][block] = [body[0][block] EXCEPT !.at = 1]
        /\ \A d \in Calls, j \in Components : d # 0 \/ j # block => body'[d][j] = body[d][j]
    BY <1>0, <1>1, <1>2, BodyTyped
  <1>4. UNCHANGED copy /\ copy \in [Calls -> CopyType]
    BY <1>0, BodyTyped DEF GoReconcile
  <1>5. comp'[block] = "running" /\ UNCHANGED <<cluster, bounds, overlapped, outcome>>
    BY <1>0 DEF GoReconcile, Launch, IInv, TypeOK
  <1> QED
    BY <1>0, <1>c, <1>3, <1>4, <1>5 DEF OnlyOwn

\* A new call has the informer's copy; the bodies and the copy of the last one go
\* on as those of an earlier call, if any is at work.
LEMMA NextCallStep ==
  ASSUME Typed, NextCall
  PROVE  /\ body' \in [Calls -> [Components -> BodyType]] /\ copy' \in [Calls -> CopyType]
         /\ copy'[0] = seen /\ \A i \in Components : body'[0][i] = NoBody
         /\ \A c \in Calls \ {0} :
              \/ body'[c] = body[c] /\ copy'[c] = copy[c]
              \/ body'[c] = body[0] /\ copy'[c] = copy[0]
         /\ UNCHANGED <<cp, seen, child, available, availableSeen, changes, faults>>
  <1>n. /\ body \in [Calls -> [Components -> BodyType]] /\ copy \in [Calls -> CopyType]
        /\ body[0] \in [Components -> BodyType] /\ copy[0] \in CopyType /\ seen \in CopyType
        /\ [i \in Components |-> NoBody] \in [Components -> BodyType]
    BY GeneralFirst, BodyTyped, NothingTyped DEF Typed, CPTypeOK
  <1>1. UNCHANGED <<cp, seen, child, available, availableSeen, changes, faults>>
    BY DEF NextCall, cluster, bounds
  <1>2. CASE Idle(0) /\ body' = body /\ copy' = [copy EXCEPT ![0] = seen]
    <2>1. \A i \in Components : body'[0][i] = NoBody
      BY <1>2, GeneralFirst DEF Idle, Typed, Positions, Position, AtWork, Task
    <2> QED
      BY <1>n, <1>1, <1>2, <2>1, GeneralFirst
  <1>3. CASE \E c \in Calls \ {0} :
               /\ Idle(c)
               /\ body' = [body EXCEPT ![c] = body[0], ![0] = [i \in Components |-> NoBody]]
               /\ copy' = [copy EXCEPT ![c] = copy[0], ![0] = seen]
    BY <1>n, <1>1, <1>3, GeneralFirst
  <1> QED
    BY <1>2, <1>3 DEF NextCall

\* The group knows of every body of the current call.
LEMMA BodyRunsStep == IInv /\ Typed /\ BodyRuns /\ [CPNext]_allVars => BodyRuns'
  <1> SUFFICES ASSUME IInv, Typed, BodyRuns, [CPNext]_allVars, NEW i \in Components, AtWork(0, i)'
               PROVE  comp'[i] = "running"
    BY DEF BodyRuns
  <1> USE GeneralFirst DEF AtWork
  <1>n. comp \in [Components -> CompPcs]
    BY DEF IInv, TypeOK
  <1>1. CASE NextCall
    BY <1>1, NextCallStep, NothingTyped
  <1>2. CASE GoReconcile
    BY <1>n, <1>2, LaunchStep DEF OnlyOwn, BodyRuns, GoReconcile, Launch
  <1>3. CASE FinalizerPatched \/ Selected \/ Waited
    BY <1>n, <1>3 DEF FinalizerPatched, PatchFinalizer, Selected, Receive, Proceed, Waited,
         Waiter, CallWait, ReturnFromWait, CloseTerminated, ownVars, BodyRuns
  <1>4. ASSUME NEW j \in Components, DoneCalled(j) PROVE comp'[i] = "running"
    BY <1>n, <1>4 DEF DoneCalled, Done, ownVars, BodyRuns
  <1>5. ASSUME NEW c \in Calls, NEW j \in Components, Body(c, j) PROVE comp'[i] = "running"
    <2>1. OnlyOwn(c, j)
      BY <1>5, OwnStep
    <2>2. CASE UNCHANGED vars
      <3>1. AtWork(0, i)
        BY <1>5, <2>1, OwnStep DEF OnlyOwn
      <3> QED
        BY <2>2, <3>1 DEF BodyRuns, vars
    <2>3. CASE c = 0 /\ body'[c][j] = NoBody /\ (BodySucceeds(j) \/ BodyFails(j))
      <3>1. i # j
        BY <2>3, NothingTyped
      <3>2. AtWork(0, i)
        BY <2>1, <3>1 DEF OnlyOwn
      <3> QED
        BY <1>n, <2>3, <3>1, <3>2 DEF BodyRuns, BodySucceeds, BodyFails
    <2> QED
      BY <1>5, <2>2, <2>3, OwnStep
  <1>6. CASE Edit \/ Sync \/ UNCHANGED allVars
    BY <1>6 DEF Edit, Sync, allVars, ownVars, vars, BodyRuns
  <1>7. ASSUME NEW j \in Deployed, ReplicasChange(j) PROVE comp'[i] = "running"
    BY <1>7 DEF ReplicasChange, vars, BodyRuns
  <1> QED
    BY <1>1, <1>2, <1>3, <1>4, <1>5, <1>6, <1>7 DEF CPNext

\* A body that ends, goes on, notes a count or sends it is at a task of its own.
LEMMA PositionsStep == IInv /\ Typed /\ BodyRuns /\ [CPNext]_allVars => Positions'
  <1> SUFFICES ASSUME IInv, Typed, BodyRuns, [CPNext]_allVars,
                      NEW d \in Calls, NEW j \in Components
               PROVE  Position(body'[d][j], j)
    BY DEF Positions
  <1> USE GeneralFirst
  <1>0. Position(NoBody, j)
    BY NothingTyped, Tasks DEF Position
  <1>n. Position(body[d][j], j) /\ Position(body[0][j], j)
    BY DEF Typed, Positions
  <1>1. CASE NextCall
    BY <1>0, <1>1, <1>n, NextCallStep
  <1>2. CASE GoReconcile
    <2>1. CASE d = 0 /\ j = block
      <3>1. body'[0][j] = [NoBody EXCEPT !.at = 1]
        BY <1>2, <2>1, LaunchStep
      <3>2. body'[0][j].at = 1 /\ body'[0][j].phase = "start"
        BY <3>1 DEF NoBody
      <3> QED
        BY <2>1, <3>2, Tasks DEF Position
    <2>2. CASE ~(d = 0 /\ j = block)
      BY <1>2, <1>n, <2>2, LaunchStep DEF OnlyOwn
    <2> QED
      BY <2>1, <2>2
  <1>3. ASSUME UNCHANGED body PROVE Position(body'[d][j], j)
    BY <1>3, <1>n
  <1>4. CASE FinalizerPatched \/ Selected \/ Waited \/ Edit \/ Sync \/ UNCHANGED allVars
    BY <1>3, <1>4 DEF FinalizerPatched, Selected, Waited, ownVars, Edit, Sync, allVars
  <1>5. ASSUME NEW i \in Components, DoneCalled(i) PROVE Position(body'[d][j], j)
    BY <1>3, <1>5 DEF DoneCalled, ownVars
  <1>6. ASSUME NEW i \in Deployed, ReplicasChange(i) PROVE Position(body'[d][j], j)
    BY <1>3, <1>6 DEF ReplicasChange
  <1>7. ASSUME NEW c \in Calls, NEW i \in Components, Body(c, i) PROVE Position(body'[d][j], j)
    <2>1. CASE d # c \/ j # i
      BY <1>7, <1>n, <2>1, OwnStep DEF OnlyOwn
    <2>2. CASE d = c /\ j = i
      <3>1. ASSUME NEW o, Advanced(c, i, o) PROVE Position(body'[d][j], j)
        <4>1. CASE GoesOn(c, i, o)
          <5>1. body'[c][i].at = body[c][i].at + 1 /\ body'[c][i].phase = "start"
            BY <4>1 DEF GoesOn, NoBody
          <5>2. body[c][i].at \in 0 .. Len(Work(i)) /\ Len(Work(i)) \in Nat
            BY <1>n, <2>2, Tasks DEF Position
          <5>3. body[c][i].at + 1 \in 1 .. Len(Work(i))
            <6>1. PICK n \in Nat : n = Len(Work(i))
              BY <5>2
            <6>2. PICK m \in 0 .. n : m = body[c][i].at
              BY <5>2, <6>1
            <6>3. m < n
              BY <4>1, <6>1, <6>2 DEF GoesOn
            <6>4. m + 1 \in 1 .. n
              BY <6>3
            <6> QED
              BY <6>1, <6>2, <6>4
          <5> QED
            BY <2>2, <5>1, <5>3 DEF Position
        <4>2. CASE Ends(c, i, o)
          BY <1>0, <2>2, <4>2 DEF Ends
        <4> QED
          BY <3>1, <4>1, <4>2 DEF Advanced
      <3>2. ASSUME Failed(c, i) PROVE Position(body'[d][j], j)
        BY <1>0, <2>2, <3>2 DEF Failed, Ends
      <3>3. ASSUME body[c][i].at # 0, Work(i)[body[c][i].at] = "status",
                   body'[c][i].at = body[c][i].at
            PROVE  Position(body'[d][j], j)
        BY <1>n, <2>2, <3>3 DEF Position
      <3>4. CASE ReadCount(c, i) /\ Noted(c, i)
        <4>1. body'[c][i].at = body[c][i].at
          BY <3>4, BodyTyped DEF Noted, BodyType
        <4> QED
          BY <3>3, <3>4, <4>1 DEF Noted, AtWork, Task
      <3>5. CASE SendStatus(c, i) /\ Stores(c, i)
        <4>1. body'[c][i].at = body[c][i].at
          BY <3>5, BodyTyped DEF Stores, BodyType
        <4>2. body[c][i].at # 0 /\ Work(i)[body[c][i].at] = "status"
          BY <1>n, <2>2, <3>5, SendStep DEF Position
        <4> QED
          BY <3>3, <4>1, <4>2
      <3> QED
        <4>1. CASE ApplyChild(c, i)
          BY <3>1, <4>1, ApplyStep
        <4>2. CASE ReadCount(c, i)
          BY <3>1, <3>2, <3>4, <4>2, ReadStep
        <4>3. CASE SendStatus(c, i)
          BY <3>2, <3>5, <4>3, SendStep
        <4>4. CASE DecodeAnswer(c, i)
          BY <3>1, <4>4, DecodeStep
        <4>5. CASE CallFails(c, i)
          BY <3>2, <4>5, CallFailsStep
        <4> QED
          BY <1>7, <4>1, <4>2, <4>3, <4>4, <4>5 DEF Body
    <2> QED
      BY <2>1, <2>2
  <1> QED
    BY <1>1, <1>2, <1>4, <1>5, <1>6, <1>7 DEF CPNext

\* What the API server and the informer hold is typed.
ClusterTyped ==
  /\ cp \in [object : CopyType, finalizer : BOOLEAN] /\ seen \in CopyType
  /\ \A i \in Components : child[i] \in [KindsOf(i) -> 0 .. MaxVersion]
  /\ available \in [Deployed -> Counts] /\ availableSeen \in [Deployed -> Counts \cup {NotFound}]
  /\ DOMAIN child = Components

\* Every step keeps the types.
LEMMA CPTypeStep == IInv /\ IInv' /\ Typed /\ BodyRuns /\ [CPNext]_allVars => Typed'
  <1> SUFFICES ASSUME IInv, IInv', Typed, BodyRuns, [CPNext]_allVars PROVE Typed'
    OBVIOUS
  <1> USE GeneralFirst
  <1>p. Positions'
    BY PositionsStep
  <1>n. /\ body \in [Calls -> [Components -> BodyType]] /\ copy \in [Calls -> CopyType]
        /\ ClusterTyped /\ changes \in 0 .. MaxChanges /\ faults \in 0 .. MaxFaults
        /\ overlapped \in BOOLEAN
    BY DEF Typed, CPTypeOK, BodyType, ClusterTyped
  <1>q. SUFFICES /\ body' \in [Calls -> [Components -> BodyType]] /\ copy' \in [Calls -> CopyType]
                 /\ ClusterTyped' /\ changes' \in 0 .. MaxChanges /\ faults' \in 0 .. MaxFaults
                 /\ overlapped' \in BOOLEAN
    BY <1>p DEF IInv, Typed, CPTypeOK, BodyType, ClusterTyped
  <1>u. ASSUME UNCHANGED cluster PROVE ClusterTyped'
    BY <1>n, <1>u DEF cluster, ClusterTyped
  <1>1. CASE NextCall
    <2>1. overlapped' \in BOOLEAN
      BY <1>1 DEF NextCall
    <2> QED
      BY <1>n, <1>u, <1>1, <2>1, NextCallStep DEF cluster
  <1>2. CASE GoReconcile
    BY <1>n, <1>u, <1>2, LaunchStep DEF OnlyOwn, bounds
  <1>3. CASE FinalizerPatched
    <2>1. [object |-> [cp.object EXCEPT !.rv = @ + 1], finalizer |-> TRUE]
            \in [object : CopyType, finalizer : BOOLEAN]
      <3>1. cp.object \in CopyType /\ cp.object.rv + 1 \in Nat
        BY <1>n DEF ClusterTyped, CopyType
      <3>2. [cp.object EXCEPT !.rv = @ + 1] \in CopyType
        BY <3>1 DEF CopyType
      <3> QED
        BY <3>2
    <2>2. cp' \in [object : CopyType, finalizer : BOOLEAN]
      BY <1>n, <1>3, <2>1 DEF FinalizerPatched, ClusterTyped
    <2> QED
      BY <1>n, <1>3, <2>2 DEF FinalizerPatched, ClusterTyped, bounds
  <1>4. CASE Selected \/ Waited \/ UNCHANGED allVars
    BY <1>n, <1>u, <1>4 DEF Selected, Waited, allVars, ownVars, bounds
  <1>5. ASSUME NEW i \in Components, DoneCalled(i)
        PROVE  UNCHANGED ownVars
    BY <1>5 DEF DoneCalled
  <1>6. CASE Edit
    <2>1. cp.object \in CopyType /\ cp.object.ver + 1 \in 0 .. MaxVersion
      BY <1>n, <1>6 DEF Edit, ClusterTyped, CopyType
    <2> DEFINE edited == [cp.object EXCEPT !.ver = @ + 1]
    <2>2. edited \in CopyType /\ edited.rv = cp.object.rv
      BY <2>1 DEF CopyType
    <2>3. cp' = [cp EXCEPT !.object = Stored(edited)]
      BY <1>6 DEF Edit
    <2> HIDE DEF edited
    <2>4. Stored(edited) \in CopyType
      BY <2>2, StoredStep DEF Typed
    <2>5. cp' \in [object : CopyType, finalizer : BOOLEAN]
      BY <1>n, <2>3, <2>4 DEF ClusterTyped
    <2> QED
      BY <1>n, <1>6, <2>5 DEF Edit, ClusterTyped, bounds
  <1>7. CASE Sync
    <2>1. seen' \in CopyType
      BY <1>n, <1>7 DEF Sync, ClusterTyped
    <2>2. availableSeen' \in [Deployed -> Counts \cup {NotFound}]
      BY <1>n, <1>7 DEF Sync, ClusterTyped, Present
    <2> QED
      BY <1>n, <1>7, <2>1, <2>2 DEF Sync, ClusterTyped, bounds
  <1>8. ASSUME NEW i \in Deployed, ReplicasChange(i)
        PROVE  /\ UNCHANGED <<body, copy, faults, overlapped>> /\ ClusterTyped'
               /\ changes' \in 0 .. MaxChanges
    <2>1. available' \in [Deployed -> Counts]
      BY <1>n, <1>8 DEF ReplicasChange, ClusterTyped
    <2>2. changes' \in 0 .. MaxChanges
      BY <1>n, <1>8 DEF ReplicasChange
    <2> QED
      BY <1>n, <1>8, <2>1, <2>2 DEF ReplicasChange, ClusterTyped
  <1>9. ASSUME NEW c \in Calls, NEW i \in Components, Body(c, i)
        PROVE  /\ body' \in [Calls -> [Components -> BodyType]] /\ copy' \in [Calls -> CopyType]
               /\ ClusterTyped' /\ UNCHANGED <<changes, overlapped>> /\ faults' \in 0 .. MaxFaults
    <2>1. /\ body' \in [Calls -> [Components -> BodyType]] /\ copy' \in [Calls -> CopyType]
          /\ UNCHANGED <<seen, available, availableSeen, changes, overlapped>>
      BY <1>9, OwnStep DEF OnlyOwn
    <2>2. CASE ApplyChild(c, i)
      <3>1. UNCHANGED <<cp, faults>>
        BY <2>2 DEF ApplyChild, bounds
      <3>2. /\ DOMAIN child' = Components
            /\ \A j \in Components : child'[j] \in [KindsOf(j) -> 0 .. MaxVersion]
        BY <2>2, ApplyStep DEF Written
      <3> QED
        BY <1>n, <2>1, <3>1, <3>2 DEF ClusterTyped
    <2>3. CASE ReadCount(c, i) \/ DecodeAnswer(c, i)
      BY <1>n, <1>u, <2>1, <2>3 DEF ReadCount, DecodeAnswer, bounds
    <2>4. CASE CallFails(c, i)
      BY <1>n, <1>u, <2>1, <2>4 DEF CallFails
    <2>5. CASE SendStatus(c, i)
      <3>1. cp' \in [object : CopyType, finalizer : BOOLEAN]
        <4>1. CASE UNCHANGED cp
          BY <1>n, <4>1 DEF ClusterTyped
        <4>2. CASE Stores(c, i)
          <5> DEFINE sent == [cp.object EXCEPT !.count = copy[c].count]
          <5>1. cp.object \in CopyType /\ copy[c].count \in [Deployed -> Counts]
            BY <1>n, BodyTyped DEF ClusterTyped, CopyType
          <5>2. sent \in CopyType /\ sent.rv = cp.object.rv
            BY <5>1 DEF CopyType
          <5>3. cp' = [cp EXCEPT !.object = Stored(sent)]
            BY <4>2 DEF Stores
          <5> HIDE DEF sent
          <5>4. Stored(sent) \in CopyType
            BY <5>2, StoredStep DEF Typed
          <5> QED
            BY <1>n, <5>3, <5>4 DEF ClusterTyped
        <4> QED
          BY <2>5, <4>1, <4>2, SendStep
      <3>2. UNCHANGED <<seen, child, available, availableSeen, bounds, overlapped>>
        BY <2>5, SendStep
      <3> QED
        BY <1>n, <2>1, <3>1, <3>2 DEF ClusterTyped, bounds
    <2> QED
      BY <1>9, <2>2, <2>3, <2>4, <2>5 DEF Body
  <1> QED
    BY <1>n, <1>u, <1>1, <1>2, <1>3, <1>4, <1>5, <1>6, <1>7, <1>8, <1>9 DEF CPNext, ownVars, bounds

-----------------------------------------------------------------------------
(* the object and its copies *)

\* The types of the objects.
LEMMA ObjectTyped ==
  ASSUME Typed
  PROVE  /\ cp.object \in CopyType /\ cp \in [object : CopyType, finalizer : BOOLEAN]
         /\ cp.object.rv \in Nat /\ cp.object.ver \in Nat
         /\ seen \in CopyType /\ seen.rv \in Nat /\ seen.ver \in Nat
         /\ \A c \in Calls : copy[c] \in CopyType /\ copy[c].rv \in Nat /\ copy[c].ver \in Nat
         /\ \A c \in Calls, i \in Components :
              body[c][i].answer.rv \in Nat /\ body[c][i].answer.ver \in Nat
  <1>1. cp \in [object : CopyType, finalizer : BOOLEAN] /\ seen \in CopyType
    BY DEF Typed, CPTypeOK
  <1>2. ASSUME NEW o \in CopyType PROVE o.rv \in Nat /\ o.ver \in Nat
    BY DEF CopyType
  <1>3. \A c \in Calls : copy[c] \in CopyType
    BY DEF Typed, CPTypeOK
  <1>4. \A c \in Calls, i \in Components : body[c][i].answer \in CopyType
    BY BodyTyped
  <1> QED
    BY <1>1, <1>2, <1>3, <1>4

\* A call that sends the status sends the version the API server has.
LEMMA StoresStep ==
  ASSUME Typed, CopiesKnown, NEW c \in Calls, NEW i \in Components, Stores(c, i)
  PROVE  /\ cp'.object.ver = cp.object.ver /\ cp.object.ver = copy[c].ver
         /\ cp'.object.count = copy[c].count
         /\ cp'.object = cp.object \/ cp'.object.rv = cp.object.rv + 1
         /\ body'[c][i].answer = cp'.object /\ body'[c][i].phase = "decode"
         /\ body'[c][i].at = body[c][i].at
  <1> DEFINE sent == [cp.object EXCEPT !.count = copy[c].count]
  <1>1. cp.object \in CopyType /\ copy[c].count \in [Deployed -> Counts]
    BY ObjectTyped DEF CopyType
  <1>2. /\ sent \in CopyType /\ sent.rv = cp.object.rv /\ sent.ver = cp.object.ver
        /\ sent.count = copy[c].count
    BY <1>1 DEF CopyType
  <1>3. /\ cp' = [cp EXCEPT !.object = Stored(sent)]
        /\ body'[c][i] = [body[c][i] EXCEPT !.phase = "decode", !.answer = Stored(sent)]
        /\ copy[c].rv = cp.object.rv
    BY DEF Stores
  <1> HIDE DEF sent
  <1>4. /\ Stored(sent) \in CopyType /\ Stored(sent).ver = sent.ver
        /\ Stored(sent).count = sent.count
        /\ Stored(sent) = cp.object \/ Stored(sent).rv = cp.object.rv + 1
    BY <1>2, StoredStep DEF Typed
  <1>5. cp'.object = Stored(sent)
    BY <1>3, ObjectTyped
  <1>6. /\ body'[c][i].answer = Stored(sent) /\ body'[c][i].phase = "decode"
        /\ body'[c][i].at = body[c][i].at
    BY <1>3, BodyTyped DEF BodyType
  <1> QED
    BY <1>2, <1>3, <1>4, <1>5, <1>6 DEF CopiesKnown, VersionKnown

\* A body leaves the object alone, but for the counts.
LEMMA ObjectKept ==
  ASSUME Typed, NEW c \in Calls, NEW i \in Components, Body(c, i)
  PROVE  UNCHANGED cp \/ (SendStatus(c, i) /\ Stores(c, i))
  <1>1. CASE SendStatus(c, i)
    BY <1>1, SendStep
  <1>2. CASE ~SendStatus(c, i)
    BY <1>2 DEF Body, ApplyChild, ReadCount, DecodeAnswer, CallFails, cluster
  <1> QED
    BY <1>1, <1>2

\* What becomes of the object: it stays as it is, or has a new resource version.
LEMMA ObjectStep ==
  ASSUME Typed, CopiesKnown, [CPNext]_allVars
  PROVE  /\ \/ cp'.object = cp.object
            \/ cp'.object.rv = cp.object.rv + 1
         /\ \/ cp'.object.ver = cp.object.ver
            \/ Edit /\ cp'.object.ver = cp.object.ver + 1
         /\ \/ cp'.object.count = cp.object.count
            \/ \E c \in Calls, i \in Components : SendStatus(c, i) /\ Stores(c, i)
  <1> USE ObjectTyped
  <1>1. CASE FinalizerPatched
    <2>1. CASE UNCHANGED cp
      BY <2>1
    <2>2. CASE cp' = [object |-> [cp.object EXCEPT !.rv = @ + 1], finalizer |-> TRUE]
      BY <2>2 DEF CopyType
    <2> QED
      BY <1>1, <2>1, <2>2 DEF FinalizerPatched
  <1>2. CASE Edit
    <2> DEFINE edited == [cp.object EXCEPT !.ver = @ + 1]
    <2>1. /\ cp.object.ver + 1 \in 0 .. MaxVersion
      BY <1>2 DEF Edit
    <2>2. /\ edited \in CopyType /\ edited.rv = cp.object.rv /\ edited.ver = cp.object.ver + 1
          /\ edited.count = cp.object.count
      BY <2>1 DEF CopyType
    <2>3. cp' = [cp EXCEPT !.object = Stored(edited)]
      BY <1>2 DEF Edit
    <2> HIDE DEF edited
    <2>4. /\ Stored(edited).ver = edited.ver /\ Stored(edited).count = edited.count
          /\ Stored(edited) = cp.object \/ Stored(edited).rv = cp.object.rv + 1
      BY <2>2, StoredStep DEF Typed
    <2>5. cp'.object = Stored(edited)
      BY <2>3
    <2> QED
      BY <1>2, <2>2, <2>4, <2>5
  <1>3. ASSUME UNCHANGED cp
        PROVE  cp'.object = cp.object
    BY <1>3
  <1>4. CASE NextCall \/ GoReconcile \/ Selected \/ Waited \/ Sync \/ UNCHANGED allVars
    BY <1>3, <1>4 DEF NextCall, GoReconcile, Selected, Waited, Sync, allVars, ownVars, cluster
  <1>5. ASSUME NEW i \in Components, DoneCalled(i) PROVE UNCHANGED cp
    BY <1>5 DEF DoneCalled, ownVars, cluster
  <1>6. ASSUME NEW i \in Deployed, ReplicasChange(i) PROVE UNCHANGED cp
    BY <1>6 DEF ReplicasChange
  <1>7. ASSUME NEW c \in Calls, NEW i \in Components, Body(c, i)
        PROVE  UNCHANGED cp \/ (SendStatus(c, i) /\ Stores(c, i))
    BY <1>7, ObjectKept
  <1>8. ASSUME NEW c \in Calls, NEW i \in Components, SendStatus(c, i), Stores(c, i)
        PROVE  /\ cp'.object = cp.object \/ cp'.object.rv = cp.object.rv + 1
               /\ cp'.object.ver = cp.object.ver
    BY <1>8, StoresStep
  <1> QED
    BY <1>1, <1>2, <1>3, <1>4, <1>5, <1>6, <1>7, <1>8 DEF CPNext

\* What becomes of the copy of a call whose goroutine takes a step.
CopyMoves(c, i) ==
  \/ UNCHANGED copy
  \/ copy'[c] = NoCopy /\ c # 0 /\ \A j \in Components : body'[c][j] = NoBody
  \/ Noted(c, i)
  \/ body[c][i].phase = "decode" /\ copy'[c] = body[c][i].answer

\* What becomes of the update of the status in the goroutine.
PhaseMoves(c, i) ==
  \/ body'[c][i].phase = "start"
  \/ ReadCount(c, i) /\ Noted(c, i)
  \/ SendStatus(c, i) /\ Stores(c, i)

\* Every step of a body makes one of these of the copy and of its own update.
LEMMA BodyMoves ==
  ASSUME Typed, NEW c \in Calls, NEW i \in Components, Body(c, i)
  PROVE  CopyMoves(c, i) /\ PhaseMoves(c, i)
  <1>1. ASSUME NEW o \in {copy[c], body[c][i].answer}, Ends(c, i, o) \/ GoesOn(c, i, o)
        PROVE  /\ \/ copy'[c] = o
                  \/ copy'[c] = NoCopy /\ c # 0 /\ \A j \in Components : body'[c][j] = NoBody
               /\ body'[c][i].phase = "start"
    BY <1>1, NothingTyped DEF Ends, GoesOn, CopyBecomes, NoBody
  <1>2. ASSUME copy'[c] = copy[c] PROVE UNCHANGED copy
    <2>1. copy \in [Calls -> CopyType] /\ copy' \in [Calls -> CopyType]
          /\ \A d \in Calls \ {c} : copy'[d] = copy[d]
      BY BodyTyped, OwnStep DEF OnlyOwn
    <2> QED
      BY <1>2, <2>1
  <1>3. CASE ApplyChild(c, i)
    BY <1>1, <1>2, <1>3, ApplyStep DEF Advanced, CopyMoves, PhaseMoves
  <1>4. CASE ReadCount(c, i)
    <2>1. CASE Noted(c, i)
      BY <1>4, <2>1 DEF CopyMoves, PhaseMoves
    <2>2. CASE Failed(c, i) \/ Advanced(c, i, copy[c])
      BY <1>1, <1>2, <2>2 DEF Failed, Advanced, CopyMoves, PhaseMoves
    <2> QED
      BY <1>4, <2>1, <2>2, ReadStep
  <1>5. CASE SendStatus(c, i)
    <2>1. CASE Stores(c, i)
      BY <1>5, <2>1 DEF Stores, CopyMoves, PhaseMoves
    <2>2. CASE Failed(c, i)
      BY <1>1, <1>2, <2>2 DEF Failed, CopyMoves, PhaseMoves
    <2> QED
      BY <1>5, <2>1, <2>2, SendStep
  <1>6. CASE DecodeAnswer(c, i)
    <2>1. body[c][i].phase = "decode"
      BY <1>6 DEF DecodeAnswer
    <2> QED
      BY <1>1, <1>6, <2>1, DecodeStep DEF Advanced, CopyMoves, PhaseMoves
  <1>7. CASE CallFails(c, i)
    BY <1>1, <1>2, <1>7, CallFailsStep DEF Failed, CopyMoves, PhaseMoves
  <1> QED
    BY <1>3, <1>4, <1>5, <1>6, <1>7 DEF Body

\* What the copies know stays true of the object.
LEMMA CopiesKnownStep ==
  IInv /\ Typed /\ BodyRuns /\ CopiesKnown /\ Typed' /\ [CPNext]_allVars => CopiesKnown'
  <1> SUFFICES ASSUME IInv, Typed, BodyRuns, CopiesKnown, Typed', [CPNext]_allVars
               PROVE  CopiesKnown'
    OBVIOUS
  <1> USE GeneralFirst, ObjectTyped
  <1>0. \/ cp'.object = cp.object
        \/ cp'.object.rv = cp.object.rv + 1
    BY ObjectStep
  <1>t. cp'.object \in CopyType /\ cp'.object.rv \in Nat
    BY DEF Typed, CPTypeOK, CopyType
  <1>a. ASSUME NEW o \in CopyType, Known(o)
        PROVE  o.rv <= cp'.object.rv /\ (o.rv = cp'.object.rv => o = cp'.object)
    <2>1. o.rv \in Nat
      BY DEF CopyType
    <2> QED
      BY <1>0, <1>a, <2>1 DEF Known
  <1>b. ASSUME NEW o \in CopyType, VersionKnown(o)
        PROVE  o.rv <= cp'.object.rv /\ (o.rv = cp'.object.rv => o.ver = cp'.object.ver)
    <2>1. o.rv \in Nat
      BY DEF CopyType
    <2> QED
      BY <1>0, <1>b, <2>1 DEF VersionKnown
  <1>1. cp'.object.rv >= 1
    BY <1>0 DEF CopiesKnown
  <1>2. Known(seen)'
    <2>1. CASE Sync /\ seen' = cp.object
      <3>1. UNCHANGED cp
        BY <2>1 DEF Sync
      <3> QED
        BY <2>1, <3>1 DEF Known
    <2>2. CASE UNCHANGED seen
      BY <1>a, <2>2 DEF CopiesKnown, Known
    <2>3. (Sync /\ seen' = cp.object) \/ UNCHANGED seen
      <3>1. ASSUME NEW c \in Calls, NEW i \in Components, Body(c, i) PROVE UNCHANGED seen
        BY <3>1, OwnStep
      <3> QED
        BY <3>1 DEF CPNext, NextCall, GoReconcile, FinalizerPatched, Selected, Waited, DoneCalled,
             Edit, Sync, ReplicasChange, allVars, ownVars, cluster
    <2> QED
      BY <2>1, <2>2, <2>3
  <1>3. ASSUME NEW d \in Calls PROVE VersionKnown(copy[d])'
    <2>1. ASSUME copy'[d] \in {copy[e] : e \in Calls} \cup {seen, NoCopy}
          PROVE  VersionKnown(copy[d])'
      <3>1. CASE copy'[d] = NoCopy
        BY <1>1, <1>t, <3>1, NothingTyped DEF VersionKnown
      <3>2. CASE copy'[d] = seen
        BY <1>a, <3>2 DEF VersionKnown, CopiesKnown
      <3>3. ASSUME NEW e \in Calls, copy'[d] = copy[e] PROVE VersionKnown(copy[d])'
        BY <1>b, <3>3 DEF VersionKnown, CopiesKnown
      <3> QED
        BY <2>1, <3>1, <3>2, <3>3
    <2>2. CASE NextCall
      BY <2>1, <2>2, NextCallStep
    <2>3. ASSUME UNCHANGED copy PROVE VersionKnown(copy[d])'
      BY <2>1, <2>3
    <2>4. CASE GoReconcile \/ FinalizerPatched \/ Selected \/ Waited \/ Edit \/ Sync
               \/ UNCHANGED allVars
      BY <2>3, <2>4 DEF GoReconcile, FinalizerPatched, Selected, Waited, Edit, Sync,
           allVars, ownVars
    <2>5. ASSUME NEW i \in Components, DoneCalled(i) PROVE VersionKnown(copy[d])'
      BY <2>3, <2>5 DEF DoneCalled, ownVars
    <2>6. ASSUME NEW i \in Deployed, ReplicasChange(i) PROVE VersionKnown(copy[d])'
      BY <2>3, <2>6 DEF ReplicasChange
    <2>7. ASSUME NEW c \in Calls, NEW i \in Components, Body(c, i) PROVE VersionKnown(copy[d])'
      <3>1. CASE d # c
        BY <2>1, <2>7, <3>1, OwnStep DEF OnlyOwn
      <3>2. CASE d = c
        <4>1. CASE UNCHANGED copy \/ copy'[c] = NoCopy
          BY <2>1, <3>2, <4>1
        <4>2. CASE Noted(c, i)
          <5>1. copy'[c].rv = copy[c].rv /\ copy'[c].ver = copy[c].ver
            BY <4>2 DEF Noted, CopyType
          <5> QED
            BY <1>b, <3>2, <5>1 DEF CopiesKnown, VersionKnown
        <4>3. CASE body[c][i].phase = "decode" /\ copy'[c] = body[c][i].answer
          <5>1. Known(body[c][i].answer) /\ body[c][i].answer \in CopyType
            BY <4>3, BodyTyped DEF CopiesKnown
          <5> QED
            BY <1>a, <3>2, <4>3, <5>1 DEF VersionKnown
        <4> QED
          BY <2>7, <4>1, <4>2, <4>3, BodyMoves DEF CopyMoves
      <3> QED
        BY <3>1, <3>2
    <2> QED
      BY <2>2, <2>4, <2>5, <2>6, <2>7 DEF CPNext
  <1>4. ASSUME NEW d \in Calls, NEW j \in Components, body'[d][j].phase = "decode"
        PROVE  Known(body[d][j].answer)'
    <2>1. ASSUME NEW e \in Calls, body'[d][j] = body[e][j] PROVE Known(body[d][j].answer)'
      <3>1. Known(body[e][j].answer) /\ body[e][j].answer \in CopyType
        BY <1>4, <2>1, BodyTyped DEF CopiesKnown
      <3> QED
        BY <1>a, <2>1, <3>1 DEF Known
    <2>2. CASE NextCall
      BY <1>4, <2>1, <2>2, NextCallStep, NothingTyped
    <2>3. CASE GoReconcile
      <3>1. CASE d = 0 /\ j = block
        <4>1. body'[d][j] = [NoBody EXCEPT !.at = 1]
          BY <2>3, <3>1, LaunchStep
        <4> QED
          BY <1>4, <4>1 DEF NoBody
      <3>2. CASE ~(d = 0 /\ j = block)
        BY <2>1, <2>3, <3>2, LaunchStep DEF OnlyOwn
      <3> QED
        BY <3>1, <3>2
    <2>4. CASE FinalizerPatched \/ Selected \/ Waited \/ Edit \/ Sync \/ UNCHANGED allVars
      BY <2>1, <2>4 DEF FinalizerPatched, Selected, Waited, Edit, Sync, allVars, ownVars
    <2>5. ASSUME NEW i \in Components, DoneCalled(i) PROVE Known(body[d][j].answer)'
      BY <2>1, <2>5 DEF DoneCalled, ownVars
    <2>6. ASSUME NEW i \in Deployed, ReplicasChange(i) PROVE Known(body[d][j].answer)'
      BY <2>1, <2>6 DEF ReplicasChange
    <2>7. ASSUME NEW c \in Calls, NEW i \in Components, Body(c, i) PROVE Known(body[d][j].answer)'
      <3>1. CASE d # c \/ j # i
        BY <2>1, <2>7, <3>1, OwnStep DEF OnlyOwn
      <3>2. CASE d = c /\ j = i
        <4>1. ~Noted(c, i)
          <5>1. Noted(c, i) => body'[c][i].phase = "send"
            BY BodyTyped DEF Noted, BodyType
          <5> QED
            BY <1>4, <3>2, <5>1
        <4>2. SendStatus(c, i) /\ Stores(c, i)
          BY <1>4, <2>7, <3>2, <4>1, BodyMoves DEF PhaseMoves
        <4>3. body'[c][i].answer = cp'.object
          BY <4>2, StoresStep
        <4> QED
          BY <1>t, <3>2, <4>3 DEF Known
      <3> QED
        BY <3>1, <3>2
    <2> QED
      BY <2>2, <2>3, <2>4, <2>5, <2>6, <2>7 DEF CPNext
  <1> QED
    BY <1>1, <1>2, <1>3, <1>4 DEF CopiesKnown

\* The copy of a call keeps its version while a goroutine of it is at work.
LEMMA VersionKept ==
  ASSUME Typed, Versions, NEW c \in Calls, NEW i \in Components, Body(c, i)
  PROVE  copy'[c].ver = copy[c].ver
           \/ (c # 0 /\ \A j \in Components : body'[c][j] = NoBody)
  <1>1. CASE Noted(c, i)
    BY <1>1, ObjectTyped DEF Noted, CopyType
  <1>2. CASE body[c][i].phase = "decode" /\ copy'[c] = body[c][i].answer
    BY <1>2 DEF Versions
  <1> QED
    BY <1>1, <1>2, BodyMoves DEF CopyMoves

\* Calls keep their versions, and later ones have later versions.
LEMMA VersionsStep ==
  IInv /\ Typed /\ BodyRuns /\ CopiesKnown /\ Versions /\ Typed' /\ [CPNext]_allVars => Versions'
  <1> SUFFICES ASSUME IInv, Typed, BodyRuns, CopiesKnown, Versions, Typed', [CPNext]_allVars
               PROVE  Versions'
    OBVIOUS
  <1> USE GeneralFirst, ObjectTyped
  <1>0. cp'.object.ver \in Nat /\ cp.object.ver <= cp'.object.ver
    BY ObjectStep DEF Typed, CPTypeOK, CopyType
  <1>n. /\ copy[0].ver \in 1 .. seen.ver /\ seen.ver <= cp.object.ver
        /\ \A c \in Calls, i \in Components :
             /\ AtWork(c, i) => copy[c].ver \in 1 .. cp.object.ver
             /\ body[c][i].phase = "decode" => body[c][i].answer.ver = copy[c].ver
    BY DEF Versions
  <1>1. CASE NextCall
    <2>1. \A c \in Calls \ {0}, i \in Components :
            \/ body'[c][i] = body[c][i] /\ copy'[c] = copy[c]
            \/ body'[c][i] = body[0][i] /\ copy'[c] = copy[0]
      BY <1>1, NextCallStep
    <2>2. /\ copy'[0] = seen /\ UNCHANGED <<cp, seen>>
          /\ \A i \in Components : body'[0][i] = NoBody
      BY <1>1, NextCallStep
    <2>3. ASSUME NEW c \in Calls, NEW i \in Components
          PROVE  /\ AtWork(c, i)' => copy'[c].ver \in 1 .. cp.object.ver
                 /\ body'[c][i].phase = "decode" => body'[c][i].answer.ver = copy'[c].ver
      <3>1. CASE c = 0
        BY <2>2, <3>1, NothingTyped DEF AtWork
      <3>2. CASE c # 0
        BY <1>n, <2>1, <3>2 DEF AtWork
      <3> QED
        BY <3>1, <3>2
    <2> QED
      BY <1>n, <2>2, <2>3 DEF Versions
  <1>2. CASE GoReconcile
    <2>1. UNCHANGED <<cp, seen, copy>> /\ \A d \in Calls, j \in Components :
            body'[d][j] = body[d][j] \/ (d = 0 /\ body'[d][j].phase = "start")
      BY <1>2, LaunchStep DEF OnlyOwn, cluster, NoBody
    <2> QED
      BY <1>n, <2>1 DEF Versions, AtWork
  <1>3. ASSUME UNCHANGED <<body, copy>>, UNCHANGED seen \/ (seen' = cp.object /\ UNCHANGED cp)
        PROVE  Versions'
    <2>1. seen'.ver \in Nat /\ seen.ver <= seen'.ver /\ seen'.ver <= cp'.object.ver
      BY <1>0, <1>n, <1>3
    <2>2. \A c \in Calls, i \in Components : AtWork(c, i)' = AtWork(c, i)
      BY <1>3 DEF AtWork
    <2> QED
      BY <1>0, <1>n, <1>3, <2>1, <2>2 DEF Versions
  <1>4. CASE FinalizerPatched \/ Selected \/ Waited \/ Edit \/ Sync \/ UNCHANGED allVars
    BY <1>3, <1>4 DEF FinalizerPatched, Selected, Waited, Edit, Sync, allVars, ownVars, cluster
  <1>5. ASSUME NEW i \in Components, DoneCalled(i) PROVE Versions'
    BY <1>3, <1>5 DEF DoneCalled, ownVars, cluster
  <1>6. ASSUME NEW i \in Deployed, ReplicasChange(i) PROVE Versions'
    BY <1>3, <1>6 DEF ReplicasChange
  <1>7. ASSUME NEW c \in Calls, NEW i \in Components, Body(c, i) PROVE Versions'
    <2>0. /\ OnlyOwn(c, i) /\ AtWork(c, i) /\ UNCHANGED seen
          /\ copy'[c].ver = copy[c].ver
               \/ (c # 0 /\ \A j \in Components : body'[c][j] = NoBody)
      BY <1>7, OwnStep, VersionKept
    <2>1. copy'[0].ver = copy[0].ver
      BY <2>0 DEF OnlyOwn
    <2>2. ASSUME NEW d \in Calls, NEW j \in Components
          PROVE  /\ AtWork(d, j)' => copy'[d].ver \in 1 .. cp'.object.ver
                 /\ body'[d][j].phase = "decode" => body'[d][j].answer.ver = copy'[d].ver
      <3>1. CASE d # c
        BY <1>0, <1>n, <2>0, <3>1 DEF OnlyOwn, AtWork
      <3>2. CASE d = c /\ \A k \in Components : body'[c][k] = NoBody
        BY <3>2, NothingTyped DEF AtWork
      <3>3. CASE d = c /\ copy'[c].ver = copy[c].ver
        <4>1. copy'[d].ver \in 1 .. cp'.object.ver
          BY <1>0, <1>n, <2>0, <3>3
        <4>2. CASE j # i
          BY <1>n, <2>0, <3>3, <4>1, <4>2 DEF OnlyOwn, AtWork
        <4>3. CASE j = i /\ body'[d][j].phase = "decode"
          <5>1. ~Noted(c, i)
            <6>1. Noted(c, i) => body'[c][i].phase = "send"
              BY BodyTyped DEF Noted, BodyType
            <6> QED
              BY <3>3, <4>3, <6>1
          <5>2. SendStatus(c, i) /\ Stores(c, i)
            BY <1>7, <3>3, <4>3, <5>1, BodyMoves DEF PhaseMoves
          <5>3. body'[c][i].answer.ver = copy[c].ver
            BY <5>2, StoresStep
          <5> QED
            BY <3>3, <4>1, <4>3, <5>3
        <4> QED
          BY <4>1, <4>2, <4>3
      <3> QED
        BY <2>0, <3>1, <3>2, <3>3
    <2> QED
      BY <1>0, <1>n, <2>0, <2>1, <2>2 DEF Versions
  <1> QED
    BY <1>1, <1>2, <1>4, <1>5, <1>6, <1>7 DEF CPNext

\* Failed calls are not forgotten.
LEMMA FaultsGrow == Typed /\ [CPNext]_allVars => faults' = faults \/ faults' # 0
  <1> SUFFICES ASSUME Typed, [CPNext]_allVars PROVE faults' = faults \/ faults' # 0
    OBVIOUS
  <1>1. faults \in Nat
    BY DEF Typed, CPTypeOK
  <1>2. faults' = faults \/ faults' = faults + 1
    <2>1. ASSUME NEW c \in Calls, NEW i \in Components, Body(c, i)
          PROVE  faults' = faults \/ faults' = faults + 1
      <3>1. CASE SendStatus(c, i)
        BY <3>1, SendStep DEF bounds
      <3>2. CASE ~SendStatus(c, i)
        BY <2>1, <3>2 DEF Body, ApplyChild, ReadCount, DecodeAnswer, CallFails, bounds
      <3> QED
        BY <3>1, <3>2
    <2> QED
      BY <2>1 DEF CPNext, NextCall, GoReconcile, FinalizerPatched, Selected, Waited, DoneCalled,
           Edit, Sync, ReplicasChange, allVars, ownVars, bounds
  <1> QED
    BY <1>1, <1>2

\* What a copy has that the object has not, its component is about to send.
LEMMA CountsKnownStep ==
  IInv /\ Typed /\ BodyRuns /\ CopiesKnown /\ CountsKnown /\ [CPNext]_allVars => CountsKnown'
  <1> SUFFICES ASSUME IInv, Typed, BodyRuns, CopiesKnown, CountsKnown, [CPNext]_allVars,
                      faults' = 0, NEW d \in Calls, NEW i \in Deployed,
                      copy'[d].rv = cp'.object.rv
               PROVE  \/ copy'[d].count[i] = cp'.object.count[i]
                      \/ body'[d][i].phase = "send" /\ body'[d][i].read = copy'[d].count[i]
    BY DEF CountsKnown
  <1> USE GeneralFirst, ObjectTyped
  <1> DEFINE Goal == \/ copy'[d].count[i] = cp'.object.count[i]
                     \/ body'[d][i].phase = "send" /\ body'[d][i].read = copy'[d].count[i]
  <1>i. i \in Components
    BY DEF Deployed
  <1>f. faults = 0
    BY FaultsGrow
  <1>n. ASSUME NEW e \in Calls, copy[e].rv = cp.object.rv
        PROVE  \/ copy[e].count[i] = cp.object.count[i]
               \/ body[e][i].phase = "send" /\ body[e][i].read = copy[e].count[i]
    BY <1>f, <1>n DEF CountsKnown
  <1>s. ASSUME UNCHANGED copy PROVE cp'.object = cp.object /\ copy[d].rv = cp.object.rv
    <2>1. copy[d].rv <= cp.object.rv /\ copy'[d].rv = copy[d].rv
      BY <1>s DEF CopiesKnown, VersionKnown
    <2>2. CASE cp'.object = cp.object
      BY <2>1, <2>2
    <2>3. cp'.object.rv # cp.object.rv + 1
      <3>1. copy[d].rv = cp'.object.rv /\ copy[d].rv \in Nat /\ cp.object.rv \in Nat
        BY <2>1
      <3> QED
        BY <2>1, <3>1
    <2> QED
      BY <2>2, <2>3, ObjectStep
  <1>a. ASSUME UNCHANGED copy, body'[d][i] = body[d][i] PROVE Goal
    BY <1>a, <1>n, <1>s
  <1>1. CASE NextCall
    <2>1. UNCHANGED cp
      BY <1>1, NextCallStep
    <2>2. CASE d = 0
      <3>1. copy'[0] = seen
        BY <1>1, NextCallStep
      <3> QED
        BY <2>1, <2>2, <3>1 DEF CopiesKnown, Known
    <2>3. ASSUME NEW e \in Calls, copy'[d] = copy[e], body'[d][i] = body[e][i] PROVE Goal
      BY <1>n, <2>1, <2>3
    <2> QED
      BY <1>1, <1>i, <2>2, <2>3, NextCallStep
  <1>2. CASE GoReconcile
    <2>1. UNCHANGED copy
      BY <1>2, LaunchStep
    <2>2. CASE d = 0 /\ i = block
      <3>1. body[d][i].phase = "start"
        BY <1>2, <2>2, LaunchStep, NothingTyped
      <3> QED
        BY <1>n, <1>s, <2>1, <3>1
    <2>3. CASE ~(d = 0 /\ i = block)
      BY <1>2, <1>a, <1>i, <2>1, <2>3, LaunchStep DEF OnlyOwn
    <2> QED
      BY <2>2, <2>3
  <1>3. CASE FinalizerPatched \/ Selected \/ Waited \/ Edit \/ Sync \/ UNCHANGED allVars
    BY <1>3, <1>a DEF FinalizerPatched, Selected, Waited, Edit, Sync, allVars, ownVars
  <1>4. ASSUME NEW j \in Components, DoneCalled(j) PROVE Goal
    BY <1>4, <1>a DEF DoneCalled, ownVars
  <1>5. ASSUME NEW j \in Deployed, ReplicasChange(j) PROVE Goal
    BY <1>5, <1>a DEF ReplicasChange
  <1>6. ASSUME NEW c \in Calls, NEW j \in Components, Body(c, j) PROVE Goal
    <2>0. OnlyOwn(c, j)
      BY <1>6, OwnStep
    <2>1. CASE UNCHANGED copy
      <3>1. CASE d # c \/ i # j
        BY <1>a, <1>i, <2>0, <2>1, <3>1 DEF OnlyOwn
      <3>2. CASE d = c /\ i = j
        <4>1. CASE body[c][i].phase # "send"
          BY <1>n, <1>s, <2>1, <3>2, <4>1
        <4>2. CASE body[c][i].phase = "send"
          <5>1. SendStatus(c, i) \/ CallFails(c, i)
            BY <1>6, <3>2, <4>2, ApplyStep DEF Body, ReadCount, DecodeAnswer, Written
          <5>2. ~CallFails(c, i)
            BY <1>f DEF CallFails
          <5>3. Stores(c, i)
            BY <1>i, <1>s, <2>1, <3>2, <5>1, <5>2, SendStep
          <5>4. cp'.object.count = copy[c].count
            BY <1>i, <5>3, StoresStep
          <5> QED
            BY <2>1, <3>2, <5>4
        <4> QED
          BY <4>1, <4>2
      <3> QED
        BY <3>1, <3>2
    <2>2. CASE d # c
      <3>1. copy'[d] = copy[d] /\ body'[d][i] = body[d][i]
        BY <1>i, <2>0, <2>2 DEF OnlyOwn
      <3>2. copy[d].rv <= cp.object.rv
        BY DEF CopiesKnown, VersionKnown
      <3>3. cp'.object = cp.object
        BY <3>1, <3>2, ObjectStep
      <3> QED
        BY <1>n, <3>1, <3>3
    <2>3. CASE d = c /\ ~UNCHANGED copy
      <3>0. cp'.object = cp.object
        BY <1>6, <2>3, ObjectKept DEF Stores
      <3>1. CASE copy'[c] = NoCopy
        BY <2>3, <3>0, <3>1, NothingTyped DEF CopiesKnown
      <3>2. CASE Noted(c, j)
        <4>1. i = j => body'[c][i].phase = "send" /\ body'[c][i].read = availableSeen[i]
          <5>1. ASSUME i = j PROVE body'[c][i].phase = "send" /\ body'[c][i].read = availableSeen[i]
            <6>1. body[c][i] \in BodyType
              BY <1>i, BodyTyped
            <6>2. body'[c][i] = [body[c][i] EXCEPT !.phase = "send", !.read = availableSeen[i]]
              BY <3>2, <5>1 DEF Noted
            <6> QED
              BY <6>1, <6>2 DEF BodyType
          <5> QED
            BY <5>1
        <4>2. copy'[c].rv = copy[c].rv /\ copy'[c].count = [copy[c].count EXCEPT ![j] = availableSeen[j]]
          BY <3>2 DEF Noted, CopyType
        <4>3. copy[c].count \in [Deployed -> Counts]
          BY DEF CopyType
        <4>4. CASE i = j
          BY <2>3, <4>1, <4>2, <4>3, <4>4
        <4>5. CASE i # j
          BY <1>i, <1>n, <2>0, <2>3, <3>0, <4>2, <4>3, <4>5 DEF OnlyOwn
        <4> QED
          BY <4>4, <4>5
      <3>3. CASE body[c][j].phase = "decode" /\ copy'[c] = body[c][j].answer
        BY <2>3, <3>0, <3>3 DEF CopiesKnown, Known
      <3> QED
        BY <1>6, <2>3, <3>1, <3>2, <3>3, BodyMoves DEF CopyMoves
    <2> QED
      BY <2>1, <2>2, <2>3
  <1> QED
    BY <1>1, <1>2, <1>3, <1>4, <1>5, <1>6 DEF CPNext

-----------------------------------------------------------------------------
(* the order of the children *)

\* The children are versions; every Deployed component has a Deployment.
LEMMA ChildTyped ==
  ASSUME Typed
  PROVE  /\ \A i \in Components : \A k \in KindsOf(i) : child[i][k] \in Nat
         /\ \A i \in Deployed : i \in Components /\ i # General /\ "deployment" \in KindsOf(i)
  <1>1. ASSUME NEW i \in Components, NEW k \in KindsOf(i) PROVE child[i][k] \in Nat
    BY DEF Typed, CPTypeOK
  <1>2. ASSUME NEW i \in Deployed PROVE "deployment" \in KindsOf(i)
    <2>1. CASE i = Gateway
      <3>1. Work(i)[2] = "deployment" /\ 2 \in DOMAIN Work(i)
        BY <2>1, DeployedWork
      <3> QED
        BY <3>1 DEF KindsOf, Kinds
    <2>2. CASE i # Gateway
      <3>1. Work(i)[1] = "deployment" /\ 1 \in DOMAIN Work(i)
        BY <2>2, DeployedWork
      <3> QED
        BY <3>1 DEF KindsOf, Kinds
    <2> QED
      BY <2>1, <2>2
  <1> QED
    BY <1>1, <1>2 DEF Deployed

\* Order that is lost is not found again.
LEMMA StaysOrdered == IInv /\ Typed /\ [CPNext]_allVars /\ Ordered' => Ordered
  <1> SUFFICES ASSUME IInv, Typed, [CPNext]_allVars, ~overlapped', ~earlyWait'
               PROVE  ~overlapped /\ ~earlyWait
    BY DEF Ordered
  <1>1. CASE NextCall
    BY <1>1 DEF NextCall
  <1>2. ASSUME UNCHANGED overlapped, UNCHANGED earlyWait \/ CallWait
        PROVE  ~overlapped /\ ~earlyWait
    BY <1>2 DEF IInv, SleepsAfterLaunch, CallWait
  <1>3. CASE GoReconcile \/ FinalizerPatched \/ Selected \/ Waited \/ Edit \/ Sync \/ UNCHANGED allVars
    BY <1>2, <1>3 DEF GoReconcile, Launch, FinalizerPatched, PatchFinalizer, Selected, Receive,
         Proceed, Waited, Waiter, ReturnFromWait, CloseTerminated, Edit, Sync, allVars, ownVars, vars
  <1>4. ASSUME NEW i \in Components, DoneCalled(i) PROVE ~overlapped /\ ~earlyWait
    BY <1>2, <1>4 DEF DoneCalled, Done, ownVars
  <1>5. ASSUME NEW i \in Deployed, ReplicasChange(i) PROVE ~overlapped /\ ~earlyWait
    BY <1>2, <1>5 DEF ReplicasChange, vars
  <1>6. ASSUME NEW c \in Calls, NEW i \in Components, Body(c, i) PROVE ~overlapped /\ ~earlyWait
    BY <1>2, <1>6, OwnStep DEF BodySucceeds, BodyFails, vars
  <1> QED
    BY <1>1, <1>3, <1>4, <1>5, <1>6 DEF CPNext

\* When a call that has not overtaken its wg.Add returns, general is over.
LEMMA GeneralReturned ==
  ASSUME IInv, BodyRuns, ~earlyWait, mainPc = "returned"
  PROVE  ~AtWork(0, General)
  <1>1. comp[General] # "running"
    BY DEF IInv, TypeOK, Terminated, FirstBlockUntilClosed, FirstOver, General
  <1> QED
    BY <1>1, GeneralFirst DEF BodyRuns

\* General's goroutine writes its next child, or fails.
LEMMA GeneralStep ==
  ASSUME Typed, NEW c \in Calls, Body(c, General)
  PROVE  \/ ApplyChild(c, General)
         \/ Failed(c, General) /\ UNCHANGED child
  <1> USE GeneralFirst
  <1>1. body[c][General].phase = "start" /\ AtWork(c, General) => Task(c, General) # "status"
    BY BodyTyped, Tasks DEF AtWork, Task
  <1>2. body[c][General].phase = "start"
    <2>1. Position(body[c][General], General)
      BY DEF Typed, Positions
    <2>2. body[c][General].phase # "start" => FALSE
      BY <2>1, BodyTyped, Tasks DEF Position
    <2> QED
      BY <2>2
  <1>3. ~ReadCount(c, General) /\ ~SendStatus(c, General) /\ ~DecodeAnswer(c, General)
    BY <1>1, <1>2 DEF ReadCount, SendStatus, DecodeAnswer
  <1>4. CallFails(c, General) => UNCHANGED child
    BY DEF CallFails, cluster
  <1> QED
    BY <1>3, <1>4, CallFailsStep DEF Body

\* Writing a shared child keeps the order.
LEMMA SharedWritten ==
  ASSUME IInv, Typed, BodyRuns, GeneralOnce, SharedSoFar, RestAfterShared, ApplyChild(0, General)
  PROVE  (GeneralOnce /\ SharedSoFar /\ RestAfterShared)'
  <1> USE GeneralFirst, ChildTyped
  <1>1. Written(0, General) /\ Advanced(0, General, copy[0])
    BY ApplyStep
  <1> DEFINE v == copy[0].ver
  <1>v. v \in Nat
    BY ObjectTyped
  <1>2. OnlyOwn(0, General) /\ UNCHANGED copy
    <2>1. OnlyOwn(0, General) /\ copy'[0] = copy[0]
      BY <1>1 DEF Advanced, GoesOn, Ends, CopyBecomes
    <2>2. \A d \in Calls : copy'[d] = copy[d]
      BY <2>1 DEF OnlyOwn
    <2>3. copy \in [Calls -> CopyType] /\ copy' \in [Calls -> CopyType]
      BY <2>1, BodyTyped DEF OnlyOwn
    <2> QED
      BY <2>1, <2>2, <2>3
  <1>3. \A k \in KindsOf(General) :
          /\ child'[General][k] \in {child[General][k], v}
          /\ child[General][k] <= child'[General][k]
    BY <1>1, <1>v DEF Written, SharedSoFar
  <1>4. child'[General][Task(0, General)] = v /\ Task(0, General) \in KindsOf(General)
    BY <1>1 DEF Written
  <1>5. GeneralOnce'
    BY <1>2 DEF GeneralOnce, OnlyOwn, AtWork
  <1>6. PICK a \in 1 .. 3 : a = body[0][General].at
    <2>1. body[0][General].at \in 0 .. 3
      BY BodyTyped, GeneralWork
    <2>2. body[0][General].at # 0
      BY DEF ApplyChild, AtWork
    <2> QED
      BY <2>1, <2>2
  <1>7. \A n \in 1 .. a : child'[General][Work(General)[n]] = v
    <2> SUFFICES ASSUME NEW n \in 1 .. a PROVE child'[General][Work(General)[n]] = v
      OBVIOUS
    <2>1. Work(General)[n] \in KindsOf(General)
      BY GeneralWork
    <2>2. CASE n = a
      BY <1>4, <1>6, <2>2 DEF Task
    <2>3. CASE n # a
      BY <1>3, <1>6, <2>1, <2>3 DEF SharedSoFar
    <2> QED
      BY <2>2, <2>3
  <1>8. SharedSoFar'
    <2>1. \A k \in KindsOf(General) : child'[General][k] <= copy'[0].ver
      BY <1>2, <1>3, <1>v DEF SharedSoFar
    <2>2. CASE GoesOn(0, General, copy[0])
      <3>1. body'[0][General].at = a + 1 /\ outcome' = outcome
        BY <1>6, <2>2 DEF GoesOn, NoBody, vars
      <3>2. \A n \in 1 .. body'[0][General].at - 1 :
              child'[General][Work(General)[n]] = copy'[0].ver
        BY <1>2, <1>7, <3>1
      <3>3. outcome'[General] = "ok" => \A k \in KindsOf(General) : child'[General][k] = copy'[0].ver
        BY <1>2, <1>3, <3>1 DEF SharedSoFar
      <3> QED
        BY <2>1, <3>2, <3>3 DEF SharedSoFar
    <2>3. CASE Ends(0, General, copy[0]) /\ body[0][General].at = Len(Work(General))
      <3>1. a = 3 /\ body'[0][General].at = 0
        BY <1>6, <2>3, GeneralWork, NothingTyped DEF Ends
      <3>2. \A k \in KindsOf(General) : child'[General][k] = v
        BY <1>7, <3>1, GeneralWork
      <3> QED
        BY <1>2, <2>1, <3>1, <3>2 DEF SharedSoFar
    <2> QED
      BY <1>1, <2>2, <2>3 DEF Advanced
  <1>9. RestAfterShared'
    <2>1. ASSUME NEW c \in Calls, NEW i \in Deployed, AtWork(c, i)', NEW k \in KindsOf(General)
          PROVE  copy'[c].ver <= child'[General][k]
      <3>1. AtWork(c, i)
        BY <1>2, <2>1 DEF OnlyOwn, AtWork
      <3>2. copy[c].ver <= child[General][k] /\ copy[c].ver \in Nat
        BY <3>1, ObjectTyped DEF RestAfterShared
      <3>3. child'[General][k] \in Nat
        BY <1>3, <1>v
      <3> QED
        BY <1>2, <1>3, <3>2, <3>3
    <2>2. ASSUME NEW i \in Deployed, NEW k \in KindsOf(General)
          PROVE  child'[i]["deployment"] <= child'[General][k]
      <3>1. child'[i]["deployment"] = child[i]["deployment"]
        BY <1>1 DEF Written
      <3>2. child[i]["deployment"] <= child[General][k]
        BY DEF RestAfterShared
      <3>3. child'[General][k] \in Nat /\ child[General][k] \in Nat
            /\ child[i]["deployment"] \in Nat /\ child[General][k] <= child'[General][k]
        BY <1>3, <1>v
      <3> QED
        BY <3>1, <3>2, <3>3
    <2> QED
      BY <2>1, <2>2 DEF RestAfterShared
  <1> QED
    BY <1>5, <1>8, <1>9

\* A failure of general keeps the order.
LEMMA SharedLeft ==
  ASSUME IInv, Typed, GeneralOnce, SharedSoFar, RestAfterShared, Failed(0, General),
         UNCHANGED child
  PROVE  (GeneralOnce /\ SharedSoFar /\ RestAfterShared)'
  <1> USE GeneralFirst
  <1>1. /\ OnlyOwn(0, General) /\ body'[0][General].at = 0 /\ copy'[0] = copy[0]
        /\ BodyFails(General)
    BY NothingTyped DEF Failed, Ends, CopyBecomes
  <1>2. \A d \in Calls : copy'[d] = copy[d]
    BY <1>1 DEF OnlyOwn
  <1>3. outcome'[General] # "ok"
    BY <1>1 DEF BodyFails, IInv, TypeOK
  <1>4. \A d \in Calls, j \in Components : d # 0 \/ j # General => body'[d][j] = body[d][j]
    BY <1>1 DEF OnlyOwn
  <1>5. GeneralOnce'
    BY <1>4 DEF GeneralOnce, AtWork
  <1>6. SharedSoFar'
    <2>1. \A n \in 1 .. body'[0][General].at - 1 : FALSE
      BY <1>1
    <2> QED
      BY <1>2, <1>3, <2>1 DEF SharedSoFar
  <1>7. RestAfterShared'
    <2>1. \A d \in Calls, j \in Deployed : body'[d][j] = body[d][j]
      BY <1>4 DEF Deployed
    <2> QED
      BY <1>2, <2>1 DEF RestAfterShared, AtWork
  <1> QED
    BY <1>5, <1>6, <1>7

\* The step of another component's goroutine keeps the order.
LEMMA DeployedStep ==
  ASSUME IInv, Typed, BodyRuns, CopiesKnown, Versions, GeneralOnce, SharedSoFar, RestAfterShared,
         NEW c \in Calls, NEW i \in Deployed, Body(c, i)
  PROVE  (GeneralOnce /\ SharedSoFar /\ RestAfterShared)'
  <1> USE GeneralFirst, ChildTyped
  <1>1. AtWork(c, i) /\ OnlyOwn(c, i)
    BY OwnStep
  <1>2. \A d \in Calls : \/ copy'[d].ver = copy[d].ver
                         \/ d = c /\ c # 0 /\ \A j \in Components : body'[c][j] = NoBody
    BY <1>1, VersionKept DEF OnlyOwn
  <1>3. \A d \in Calls : body'[d][General] = body[d][General]
    BY <1>1 DEF OnlyOwn
  <1>4. outcome'[General] = outcome[General]
    <2>1. outcome \in [Components -> {"none", "ok", "error", "nil"}]
      BY DEF IInv, TypeOK
    <2> QED
      BY <2>1, OwnStep DEF vars, BodySucceeds, BodyFails
  <1>5. /\ \A k \in KindsOf(General) : child'[General][k] = child[General][k]
        /\ \A j \in Deployed : \/ child'[j]["deployment"] = child[j]["deployment"]
                               \/ j = i /\ child'[j]["deployment"] = copy[c].ver
    <2>1. CASE ApplyChild(c, i)
      <3>1. Written(c, i)
        BY <2>1, ApplyStep
      <3>2. \A k \in KindsOf(General) : child'[General][k] = child[General][k]
        BY <3>1 DEF Written
      <3>3. ASSUME NEW j \in Deployed
            PROVE  \/ child'[j]["deployment"] = child[j]["deployment"]
                   \/ j = i /\ child'[j]["deployment"] = copy[c].ver
        <4>1. CASE j = i /\ Task(c, i) = "deployment"
          BY <3>1, <4>1 DEF Written
        <4>2. CASE j # i \/ "deployment" # Task(c, i)
          BY <3>1, <4>2 DEF Written
        <4> QED
          BY <4>1, <4>2
      <3> QED
        BY <3>2, <3>3
    <2>2. CASE ~ApplyChild(c, i)
      <3>1. CASE SendStatus(c, i)
        BY <3>1, SendStep
      <3>2. CASE ~SendStatus(c, i)
        BY <2>2, <3>2 DEF Body, ReadCount, DecodeAnswer, CallFails, cluster
      <3> QED
        BY <3>1, <3>2
    <2> QED
      BY <2>1, <2>2
  <1>6. GeneralOnce'
    BY <1>3 DEF GeneralOnce, AtWork
  <1>7. SharedSoFar'
    <2>1. copy'[0].ver = copy[0].ver /\ body'[0][General] = body[0][General]
      BY <1>2, <1>3
    <2>2. \A n \in 1 .. body[0][General].at - 1 : Work(General)[n] \in KindsOf(General)
      <3>1. PICK a \in 0 .. 3 : a = body[0][General].at
        BY BodyTyped, GeneralWork
      <3>2. \A n \in 1 .. a - 1 : n \in 1 .. 3
        BY <3>1
      <3> QED
        BY <3>1, <3>2, GeneralWork
    <2> QED
      BY <1>4, <1>5, <2>1, <2>2 DEF SharedSoFar
  <1>8. RestAfterShared'
    <2>1. ASSUME NEW d \in Calls, NEW j \in Deployed, AtWork(d, j)', NEW k \in KindsOf(General)
          PROVE  copy'[d].ver <= child'[General][k]
      <3>1. copy'[d].ver = copy[d].ver
        BY <1>2, <2>1, NothingTyped DEF AtWork
      <3>2. AtWork(d, j)
        BY <1>1, <2>1 DEF OnlyOwn, AtWork
      <3> QED
        BY <1>5, <3>1, <3>2 DEF RestAfterShared
    <2>2. ASSUME NEW j \in Deployed, NEW k \in KindsOf(General)
          PROVE  child'[j]["deployment"] <= child'[General][k]
      <3>1. CASE child'[j]["deployment"] = child[j]["deployment"]
        BY <1>5, <3>1 DEF RestAfterShared
      <3>2. CASE child'[j]["deployment"] = copy[c].ver
        BY <1>1, <1>5, <3>2 DEF RestAfterShared
      <3> QED
        BY <1>5, <3>1, <3>2
    <2> QED
      BY <2>1, <2>2 DEF RestAfterShared
  <1> QED
    BY <1>6, <1>7, <1>8

\* As long as wg.Wait has not overtaken wg.Add, the shared children come first.
LEMMA OrderedStep ==
  IInv /\ Typed /\ BodyRuns /\ CopiesKnown /\ Versions /\ OrderedInv /\ [CPNext]_allVars
    => OrderedInv'
  <1> SUFFICES ASSUME IInv, Typed, BodyRuns, CopiesKnown, Versions, OrderedInv, [CPNext]_allVars,
                      Ordered'
               PROVE  (GeneralOnce /\ SharedSoFar /\ RestAfterShared)'
    BY DEF OrderedInv
  <1> USE GeneralFirst, ObjectTyped, ChildTyped
  <1>n. Ordered /\ GeneralOnce /\ SharedSoFar /\ RestAfterShared
    BY StaysOrdered DEF OrderedInv
  <1>1. CASE NextCall
    <2>0. /\ \A c \in Calls \ {0} : \/ body'[c] = body[c] /\ copy'[c] = copy[c]
                                    \/ body'[c] = body[0] /\ copy'[c] = copy[0]
          /\ copy'[0] = seen /\ (\A i \in Components : body'[0][i] = NoBody) /\ UNCHANGED child
          /\ outcome'[General] = "none"
      BY <1>1, NextCallStep DEF NextCall
    <2>1. GeneralOnce'
      <3>1. ~AtWork(0, General)
        BY <1>1, <1>n, GeneralReturned DEF NextCall, Ordered
      <3> QED
        BY <1>n, <2>0, <3>1 DEF GeneralOnce, AtWork
    <2>2. SharedSoFar'
      <3>1. copy[0].ver <= seen.ver
        BY DEF Versions
      <3>2. ASSUME NEW k \in KindsOf(General) PROVE child'[General][k] <= copy'[0].ver
        <4>1. child[General][k] <= copy[0].ver /\ child[General][k] \in Nat /\ child' = child
          BY <1>n, <2>0 DEF SharedSoFar
        <4> QED
          BY <2>0, <3>1, <4>1
      <3>3. body'[0][General].at = 0
        BY <2>0, NothingTyped
      <3> QED
        BY <2>0, <3>2, <3>3 DEF SharedSoFar
    <2>3. RestAfterShared'
      <3>1. ASSUME NEW c \in Calls, NEW i \in Deployed, AtWork(c, i)', NEW k \in KindsOf(General)
            PROVE  copy'[c].ver <= child'[General][k]
        <4>1. c # 0
          BY <2>0, <3>1, NothingTyped DEF AtWork
        <4>2. PICK d \in Calls : body'[c] = body[d] /\ copy'[c] = copy[d]
          BY <2>0, <4>1
        <4>3. AtWork(d, i)
          BY <3>1, <4>2 DEF AtWork
        <4> QED
          BY <1>n, <2>0, <4>2, <4>3 DEF RestAfterShared
      <3>2. \A i \in Deployed, k \in KindsOf(General) : child'[i]["deployment"] <= child'[General][k]
        BY <1>n, <2>0 DEF RestAfterShared
      <3> QED
        BY <3>1, <3>2 DEF RestAfterShared
    <2> QED
      BY <2>1, <2>2, <2>3
  <1>2. CASE GoReconcile
    <2>0. /\ OnlyOwn(0, block) /\ UNCHANGED <<copy, child, outcome>> /\ block \in Components
          /\ body[0][block].at = 0 /\ body'[0][block].at = 1
      <3>1. /\ OnlyOwn(0, block) /\ UNCHANGED <<copy, cluster, outcome>> /\ block \in Components
            /\ body[0][block] = NoBody /\ body'[0][block] = [NoBody EXCEPT !.at = 1]
        BY <1>2, LaunchStep
      <3> QED
        BY <3>1 DEF cluster, NoBody
    <2>1. GeneralOnce'
      BY <1>n, <2>0 DEF GeneralOnce, OnlyOwn, AtWork
    <2>2. SharedSoFar'
      <3>1. CASE block = General
        <4>1. \A n \in 1 .. body'[0][General].at - 1 : FALSE
          BY <2>0, <3>1
        <4> QED
          BY <1>n, <2>0, <4>1 DEF SharedSoFar
      <3>2. CASE block # General
        <4>1. body'[0][General] = body[0][General]
          BY <2>0, <3>2 DEF OnlyOwn
        <4> QED
          BY <1>n, <2>0, <4>1 DEF SharedSoFar
      <3> QED
        BY <3>1, <3>2
    <2>3. RestAfterShared'
      <3>1. ASSUME NEW c \in Calls, NEW i \in Deployed, AtWork(c, i)', NEW k \in KindsOf(General)
            PROVE  copy[c].ver <= child[General][k]
        <4>1. CASE c = 0 /\ i = block
          <5>1. block > 1
            BY <2>0, <4>1 DEF Components
          <5>2. outcome[General] = "ok"
            BY <1>n, <5>1 DEF Ordered, IInv, RestAfterFirst, General
          <5>3. child[General][k] = copy[0].ver
            BY <1>n, <5>2 DEF SharedSoFar
          <5> QED
            BY <4>1, <5>3
        <4>2. CASE ~(c = 0 /\ i = block)
          <5>1. AtWork(c, i)
            BY <2>0, <3>1, <4>2 DEF OnlyOwn, AtWork
          <5> QED
            BY <1>n, <5>1 DEF RestAfterShared
        <4> QED
          BY <4>1, <4>2
      <3> QED
        BY <1>n, <2>0, <3>1 DEF RestAfterShared
    <2> QED
      BY <2>1, <2>2, <2>3
  <1>3. ASSUME UNCHANGED <<body, copy, child, outcome>>
        PROVE  (GeneralOnce /\ SharedSoFar /\ RestAfterShared)'
    BY <1>n, <1>3 DEF GeneralOnce, SharedSoFar, RestAfterShared, AtWork
  <1>4. CASE FinalizerPatched \/ Selected \/ Waited \/ Edit \/ Sync \/ UNCHANGED allVars
    BY <1>3, <1>4 DEF FinalizerPatched, PatchFinalizer, Selected, Receive, Proceed, Waited, Waiter,
         CallWait, ReturnFromWait, CloseTerminated, Edit, Sync, allVars, ownVars, cluster, vars
  <1>5. ASSUME NEW i \in Components, DoneCalled(i) PROVE UNCHANGED <<body, copy, child, outcome>>
    BY <1>5 DEF DoneCalled, Done, ownVars, cluster
  <1>6. ASSUME NEW i \in Deployed, ReplicasChange(i) PROVE UNCHANGED <<body, copy, child, outcome>>
    BY <1>6 DEF ReplicasChange, vars
  <1>7. ASSUME NEW c \in Calls, NEW i \in Components, Body(c, i)
        PROVE  (GeneralOnce /\ SharedSoFar /\ RestAfterShared)'
    <2>1. CASE i # General
      BY <1>n, <1>7, <2>1, DeployedStep DEF Deployed
    <2>2. CASE i = General
      <3>1. c = 0
        BY <1>n, <1>7, <2>2, OwnStep DEF GeneralOnce
      <3>2. CASE ApplyChild(0, General)
        BY <1>n, <3>2, SharedWritten
      <3>3. CASE Failed(0, General) /\ UNCHANGED child
        BY <1>n, <3>3, SharedLeft
      <3> QED
        BY <1>7, <2>2, <3>1, <3>2, <3>3, GeneralStep
    <2> QED
      BY <2>1, <2>2
  <1> QED
    BY <1>1, <1>2, <1>3, <1>4, <1>5, <1>6, <1>7 DEF CPNext

-----------------------------------------------------------------------------
(* the inductive invariant *)

CPIInv ==
  IInv /\ Typed /\ BodyRuns /\ CopiesKnown /\ Versions /\ CountsKnown /\ OrderedInv

\* In the beginning nobody is at work and nothing is applied.
LEMMA CPInitIInv == CPInit => CPIInv
  <1> SUFFICES ASSUME CPInit PROVE CPIInv
    OBVIOUS
  <1> USE GeneralFirst, NothingTyped
  <1>1. IInv
    BY InitIInv DEF CPInit
  <1>2. FirstVersion \in CopyType /\ FirstVersion.rv = 1 /\ FirstVersion.ver = 1
    BY DEF FirstVersion, CopyType, NoCounts, Counts
  <1>3. /\ \A c \in Calls, i \in Components : body[c][i] = NoBody
        /\ cp.object = FirstVersion /\ seen = FirstVersion /\ copy[0] = FirstVersion
        /\ \A c \in Calls : copy[c] = FirstVersion \/ copy[c] = NoCopy
    BY DEF CPInit
  <1>4. \A i \in Components : \A k \in KindsOf(i) : child[i][k] = 0
    BY DEF CPInit
  <1>5. Typed
    <2>1. Positions
      BY <1>3, Tasks DEF Positions, Position
    <2>2. \A i \in Components : child[i] \in [KindsOf(i) -> 0 .. MaxVersion]
      BY DEF CPInit
    <2>3. body \in [Calls -> [Components -> BodyType]]
      BY DEF CPInit
    <2>4. copy \in [Calls -> CopyType]
      BY <1>2 DEF CPInit
    <2>5. cp \in [object : CopyType, finalizer : BOOLEAN] /\ seen \in CopyType
      BY <1>2 DEF CPInit
    <2>6. /\ available \in [Deployed -> Counts]
          /\ availableSeen \in [Deployed -> Counts \cup {NotFound}]
      BY DEF CPInit, NoCounts, Counts
    <2>7. changes \in 0 .. MaxChanges /\ faults \in 0 .. MaxFaults
      BY DEF CPInit
    <2>8. overlapped \in BOOLEAN /\ DOMAIN child = Components
      BY DEF CPInit
    <2> QED
      BY <1>1, <2>1, <2>2, <2>3, <2>4, <2>5, <2>6, <2>7, <2>8 DEF Typed, CPTypeOK, BodyType, IInv
  <1>6. BodyRuns
    BY <1>3 DEF BodyRuns, AtWork
  <1>7. CopiesKnown
    BY <1>2, <1>3 DEF CopiesKnown, Known, VersionKnown
  <1>8. Versions
    <2>1. \A c \in Calls, i \in Components : ~AtWork(c, i) /\ body[c][i].phase # "decode"
      BY <1>3 DEF AtWork
    <2>2. copy[0].ver \in 1 .. seen.ver /\ seen.ver <= cp.object.ver
      BY <1>2, <1>3
    <2> QED
      BY <2>1, <2>2 DEF Versions
  <1>9. CountsKnown
    <2>1. ASSUME NEW c \in Calls, NEW i \in Deployed, copy[c].rv = cp.object.rv
          PROVE  copy[c].count[i] = cp.object.count[i]
      BY <1>2, <1>3, <2>1
    <2> QED
      BY <2>1 DEF CountsKnown
  <1>10. OrderedInv
    <2>1. GeneralOnce
      BY <1>3 DEF GeneralOnce, AtWork
    <2>2. SharedSoFar
      <3>1. outcome[General] = "none"
        BY DEF CPInit, Init
      <3>2. \A n \in 1 .. body[0][General].at - 1 : FALSE
        BY <1>3
      <3> QED
        BY <1>2, <1>3, <1>4, <3>1, <3>2 DEF SharedSoFar
    <2>3. RestAfterShared
      <3>1. \A c \in Calls, i \in Deployed : ~AtWork(c, i)
        BY <1>3 DEF AtWork, Deployed
      <3>2. \A i \in Deployed, k \in KindsOf(General) :
              child[i]["deployment"] = 0 /\ child[General][k] = 0
        BY <1>4, <1>5, ChildTyped
      <3> QED
        BY <3>1, <3>2 DEF RestAfterShared
    <2> QED
      BY <2>1, <2>2, <2>3 DEF OrderedInv
  <1> QED
    BY <1>1, <1>5, <1>6, <1>7, <1>8, <1>9, <1>10 DEF CPIInv

\* Every step keeps the inductive invariant.
LEMMA CPIInvStep == CPIInv /\ [CPNext]_allVars => CPIInv'
  <1> SUFFICES ASSUME CPIInv, [CPNext]_allVars PROVE CPIInv'
    OBVIOUS
  <1> USE DEF CPIInv
  <1>1. IInv'
    BY GroupKeeps
  <1>2. Typed'
    BY <1>1, CPTypeStep
  <1>3. BodyRuns' /\ CountsKnown' /\ OrderedInv'
    BY BodyRunsStep, CountsKnownStep, OrderedStep
  <1>4. CopiesKnown' /\ Versions'
    BY <1>2, CopiesKnownStep, VersionsStep
  <1> QED
    BY <1>1, <1>2, <1>3, <1>4

\* The inductive invariant holds in every reachable state.
THEOREM CPInvariance == CPSpec => []CPIInv
  BY CPInitIInv, CPIInvStep, PTL DEF CPSpec

\* Every variable keeps its type.
THEOREM CPTypeCorrect == CPSpec => []CPTypeOK
  <1>1. CPIInv => CPTypeOK
    BY DEF CPIInv, Typed
  <1> QED
    BY <1>1, CPInvariance, PTL

\* In every call, beside whatever earlier ones have left at work, the WaitGroup is
\* used as it must be, at most one failed component ends, and nobody is stuck.
THEOREM ControlPlaneCallsAreSafe == CPSpec => [](NoWaitGroupMisuse /\ OneFailureDelivered /\ NotStuck)
  <1>1. CPIInv => NoWaitGroupMisuse /\ OneFailureDelivered /\ NotStuck
    BY SomebodyCanStep DEF CPIInv, IInv
  <1> QED
    BY <1>1, CPInvariance, PTL

\* Unless wg.Wait has overtaken wg.Add, no Deployment is written from a newer
\* version of the spec than the ConfigMap and the Secret its pods mount.
THEOREM MountedFirst == CPSpec => []MountedBeforeRollout
  <1>1. CPIInv => MountedBeforeRollout
    BY GeneralWork DEF CPIInv, OrderedInv, RestAfterShared, MountedBeforeRollout
  <1> QED
    BY <1>1, CPInvariance, PTL

\* As long as no call fails, an update of the status brings only counts that the
\* goroutine of their component has read and is about to send itself.
THEOREM CountsReadFirst == CPSpec => CountsAreRead
  <1>1. CPIInv /\ [CPNext]_allVars =>
          [faults = 0 => \A i \in Deployed : cp'.object.count[i] # cp.object.count[i] =>
             \E c \in Calls : /\ body[c][i].phase = "send"
                              /\ body[c][i].read = cp'.object.count[i]]_allVars
    <2> SUFFICES ASSUME CPIInv, [CPNext]_allVars, faults = 0, NEW i \in Deployed,
                        cp'.object.count[i] # cp.object.count[i]
                 PROVE  \E c \in Calls : /\ body[c][i].phase = "send"
                                         /\ body[c][i].read = cp'.object.count[i]
      OBVIOUS
    <2> USE DEF CPIInv
    <2>1. PICK c \in Calls, j \in Components : SendStatus(c, j) /\ Stores(c, j)
      BY ObjectStep
    <2>2. cp'.object.count = copy[c].count /\ copy[c].rv = cp.object.rv
      BY <2>1, StoresStep DEF Stores
    <2> QED
      BY <2>2 DEF CountsKnown
  <1> QED
    BY <1>1, CPInvariance, PTL DEF CPSpec, CountsAreRead

-----------------------------------------------------------------------------
(* the refinement of ReconcileContract *)

applied == [part \in Parts |-> child[part[1]][part[2]]]

Needs == [part \in Parts |-> NeedsOf(part[1], part[2])]

\* The children, as the contract knows them.
LEMMA PartsAre ==
  /\ \A i \in Components : \A k \in KindsOf(i) : <<i, k>> \in Parts
  /\ \A p \in Parts : p = <<p[1], p[2]>> /\ p[1] \in Components /\ p[2] \in KindsOf(p[1])
  /\ \A p \in Parts : p \in Shared => p[1] = General
  <1>1. ASSUME NEW i \in Components, NEW k \in KindsOf(i) PROVE <<i, k>> \in Parts
    <2>1. <<i, k>> \in {i} \X KindsOf(i)
      OBVIOUS
    <2> QED
      BY <2>1 DEF Parts
  <1>2. ASSUME NEW p \in Parts
        PROVE  p = <<p[1], p[2]>> /\ p[1] \in Components /\ p[2] \in KindsOf(p[1])
    <2>1. PICK i \in Components : p \in {i} \X KindsOf(i)
      BY DEF Parts
    <2> QED
      BY <2>1
  <1>3. ASSUME NEW p \in Shared PROVE p[1] = General
    BY <1>3 DEF Shared
  <1> QED
    BY <1>1, <1>2, <1>3

\* At first a version is asked for and nothing is there.
LEMMA ContractInit == CPInit => Contract!Init
  <1> SUFFICES ASSUME CPInit PROVE Contract!Init
    OBVIOUS
  <1>1. cp.object.ver = 1
    BY DEF CPInit, FirstVersion
  <1>2. Ordered
    BY DEF CPInit, Init, Ordered
  <1>3. \A p \in Parts : child[p[1]][p[2]] = 0
    BY PartsAre DEF CPInit
  <1> QED
    BY <1>1, <1>2, <1>3 DEF Contract!Init

\* Writing a child brings it forward once what it needs is there, or puts back one
\* that is not shared, or any one after wg.Wait has overtaken wg.Add.
LEMMA ContractWrite ==
  ASSUME CPIInv, NEW c \in Calls, NEW i \in Components, ApplyChild(c, i)
  PROVE  [Contract!Next]_Contract!contractVars
  <1> USE GeneralFirst, ObjectTyped, ChildTyped DEF CPIInv
  <1>1. Written(c, i) /\ Task(c, i) \in KindsOf(i) /\ AtWork(c, i)
    <2>1. Written(c, i)
      BY ApplyStep
    <2>2. AtWork(c, i)
      BY DEF ApplyChild
    <2> QED
      BY <2>1, <2>2 DEF Written
  <1>2. copy[c].ver \in 1 .. cp.object.ver
    BY <1>1 DEF Versions
  <1>3. PICK k \in KindsOf(i), v \in 1 .. cp.object.ver : k = Task(c, i) /\ v = copy[c].ver
    BY <1>1, <1>2
  <1>4. PICK part \in Parts : part = <<i, k>>
    BY PartsAre
  <1>5. UNCHANGED <<cp, overlapped, earlyWait>>
    <2>1. Body(c, i)
      BY DEF Body
    <2>2. UNCHANGED earlyWait
      BY <2>1, OwnStep DEF BodySucceeds, BodyFails, vars
    <2> QED
      BY <2>2 DEF ApplyChild
  <1>6. UNCHANGED <<cp.object.ver, ~Ordered>>
    BY <1>5 DEF Ordered
  <1>p. part[1] = i /\ part[2] = k
    BY <1>4
  <1>7. applied' = [applied EXCEPT ![part] = v]
    <2>1. child'[part[1]][part[2]] = v
      BY <1>1, <1>3, <1>p DEF Written
    <2>2. ASSUME NEW p \in Parts, p # part PROVE child'[p[1]][p[2]] = child[p[1]][p[2]]
      <3>1. p[1] # i \/ p[2] # k
        BY <1>4, <2>2, PartsAre
      <3> QED
        BY <1>1, <1>3, <3>1, PartsAre DEF Written
    <2> QED
      BY <2>1, <2>2 DEF applied
  <1>8. applied[part] = child[i][k] /\ child[i][k] \in Nat /\ v \in Nat
    <2>1. applied[part] = child[i][k]
      BY <1>p DEF applied
    <2>2. child[i][k] \in Nat
      OBVIOUS
    <2>3. v \in Nat
      BY <1>3
    <2> QED
      BY <2>1, <2>2, <2>3
  <1>9. CASE child[i][k] = v
    <2>1. UNCHANGED applied
      BY <1>7, <1>8, <1>9 DEF applied
    <2> QED
      BY <1>6, <2>1 DEF Contract!contractVars, applied
  <1>10. CASE child[i][k] > v
    <2>1. ~Ordered \/ part \notin Shared
      <3>1. ASSUME Ordered, i = General PROVE FALSE
        <4>1. c = 0
          BY <1>1, <3>1 DEF OrderedInv, GeneralOnce
        <4>2. child[i][k] <= v
          BY <1>3, <3>1, <4>1 DEF OrderedInv, SharedSoFar
        <4> QED
          BY <1>8, <1>10, <4>2
      <3> QED
        BY <1>4, <3>1, PartsAre
    <2>2. v \in 1 .. applied[part] - 1
      BY <1>8, <1>10
    <2>3. Contract!PutBack(part)
      BY <1>6, <1>7, <2>1, <2>2 DEF Contract!PutBack, applied
    <2> QED
      BY <2>3 DEF Contract!Next
  <1>11. CASE child[i][k] < v
    <2>1. v \in applied[part] + 1 .. cp.object.ver
      BY <1>8, <1>11
    <2>2. ~Ordered \/ \A d \in Needs[part] : applied[d] >= v
      <3> SUFFICES ASSUME Ordered, NEW d \in Needs[part] PROVE applied[d] >= v
        OBVIOUS
      <3>1. d \in NeedsOf(i, k)
        BY <1>4 DEF Needs
      <3>2. CASE i # General
        <4>1. PICK l \in KindsOf(General) : d = <<General, l>>
          BY <3>1, <3>2 DEF NeedsOf, Shared
        <4>2. applied[d] = child[General][l] /\ child[General][l] \in Nat
          BY <4>1, PartsAre DEF applied
        <4>3. v <= child[General][l]
          BY <1>1, <1>3, <3>2 DEF OrderedInv, RestAfterShared, Deployed
        <4> QED
          BY <4>2, <4>3
      <3>3. CASE i = General
        <4>1. c = 0
          BY <1>1, <3>3 DEF OrderedInv, GeneralOnce
        <4>2. PICK l \in KindsOf(General), m \in 1 .. 3, n \in 1 .. 3 :
                d = <<General, l>> /\ m < n /\ Work(General)[m] = l /\ Work(General)[n] = k
          BY <3>1, <3>3, GeneralWork DEF NeedsOf
        <4>3. PICK a \in 0 .. 3 : a = body[0][General].at
          BY BodyTyped, GeneralWork
        <4>4. n = a
          <5>1. a # 0 /\ Work(General)[a] = k
            BY <1>1, <1>3, <3>3, <4>1, <4>3 DEF AtWork, Task
          <5> QED
            BY <4>2, <5>1, GeneralWork
        <4>5. child[General][l] = v
          BY <1>3, <4>1, <4>2, <4>3, <4>4 DEF OrderedInv, SharedSoFar
        <4>6. applied[d] = child[General][l]
          BY <4>2, PartsAre DEF applied
        <4> QED
          BY <1>8, <4>5, <4>6
      <3> QED
        BY <3>2, <3>3
    <2>3. Contract!Bring(part)
      BY <1>6, <1>7, <2>1, <2>2 DEF Contract!Bring, applied, Needs
    <2> QED
      BY <2>3 DEF Contract!Next
  <1> QED
    BY <1>8, <1>9, <1>10, <1>11

\* A step of the system is a step of the contract or leaves it as it is.
LEMMA ContractStep == CPIInv /\ [CPNext]_allVars => [Contract!Next]_Contract!contractVars
  <1> SUFFICES ASSUME CPIInv, [CPNext]_allVars PROVE [Contract!Next]_Contract!contractVars
    OBVIOUS
  <1> USE DEF CPIInv
  <1>1. ASSUME UNCHANGED child, cp'.object.ver = cp.object.ver
        PROVE  [Contract!Next]_Contract!contractVars
    <2>1. CASE Ordered' <=> Ordered
      BY <1>1, <2>1 DEF Contract!contractVars
    <2>2. CASE Ordered /\ ~Ordered'
      BY <1>1, <2>2 DEF Contract!Next, Contract!LetLoose
    <2> QED
      BY <2>1, <2>2, StaysOrdered
  <1>2. CASE Edit
    <2>1. UNCHANGED <<child, overlapped, earlyWait>>
      BY <1>2 DEF Edit, vars
    <2>2. cp'.object.ver = cp.object.ver + 1
      <3>1. cp.object \in CopyType /\ cp.object.ver \in Nat /\ cp.object.ver + 1 \in 0 .. MaxVersion
        BY <1>2, ObjectTyped DEF Edit
      <3> DEFINE edited == [cp.object EXCEPT !.ver = @ + 1]
      <3>2. /\ edited \in CopyType /\ edited.rv = cp.object.rv
            /\ edited.ver = cp.object.ver + 1
        BY <3>1 DEF CopyType
      <3>3. cp' = [cp EXCEPT !.object = Stored(edited)]
        BY <1>2 DEF Edit
      <3> HIDE DEF edited
      <3>4. Stored(edited).ver = edited.ver
        BY <3>2, StoredStep DEF Typed
      <3> QED
        BY <3>2, <3>3, <3>4, ObjectTyped
    <2> QED
      BY <2>1, <2>2 DEF Contract!Next, Contract!Ask, Ordered
  <1>3. CASE ~Edit
    <2>1. cp'.object.ver = cp.object.ver
      BY <1>3, ObjectStep
    <2>2. ASSUME NEW c \in Calls, NEW i \in Components, Body(c, i)
          PROVE  UNCHANGED child \/ ApplyChild(c, i)
      <3>1. CASE SendStatus(c, i)
        BY <3>1, SendStep
      <3>2. CASE ~SendStatus(c, i)
        BY <2>2, <3>2 DEF Body, ReadCount, DecodeAnswer, CallFails, cluster
      <3> QED
        BY <3>1, <3>2
    <2>3. UNCHANGED child \/ \E c \in Calls, i \in Components : ApplyChild(c, i)
      BY <1>3, <2>2 DEF CPNext, NextCall, GoReconcile, FinalizerPatched, Selected, Waited,
           DoneCalled, Sync, ReplicasChange, allVars, ownVars, cluster
    <2> QED
      BY <1>1, <2>1, <2>3, ContractWrite
  <1> QED
    BY <1>2, <1>3

\* The ControlPlane reconciler does what the contract promises: unless wg.Wait has
\* overtaken wg.Add, nothing is newer than the shared children it needs, and these
\* are never put back, with any number of components, edits, faults and leftovers.
THEOREM ControlPlaneImplementsContract == CPSpec => KeepsContract
  <1>1. CPInit => Contract!Init
    BY ContractInit
  <1>2. CPIInv /\ [CPNext]_allVars => [Contract!Next]_Contract!contractVars
    BY ContractStep
  <1> QED
    BY <1>1, <1>2, CPInvariance, PTL DEF CPSpec, KeepsContract, Contract!Spec

-----------------------------------------------------------------------------
(* what follows from the contract *)

Promised == INSTANCE ReconcileContractProofs WITH
  Parts <- Parts, Kept <- Shared,
  Needs <- [part \in Parts |-> NeedsOf(part[1], part[2])],
  asked <- cp.object.ver, applied <- [part \in Parts |-> child[part[1]][part[2]]],
  loose <- ~Ordered

\* No child is of a version nobody has asked for; and unless a wg.Wait has
\* overtaken its wg.Add, none is newer than any of general's, which are in order.
ChildrenInOrder ==
  /\ \A i \in Components : \A k \in KindsOf(i) : child[i][k] <= cp.object.ver
  /\ Ordered =>
       /\ \A i \in Deployed : \A k \in KindsOf(i) : \A l \in KindsOf(General) :
            child[i][k] <= child[General][l]
       /\ child[General]["service"] <= child[General]["secret"]
       /\ child[General]["secret"] <= child[General]["configmap"]

\* What each child needs is one of general's, and is not put back.
LEMMA NeedsShared == Promised!WellFormed
  <1> SUFFICES ASSUME NEW p \in Parts PROVE NeedsOf(p[1], p[2]) \subseteq Parts \cap Shared
    BY DEF Promised!WellFormed
  <1>1. Shared \subseteq Parts
    BY PartsAre, GeneralFirst DEF Shared
  <1>2. NeedsOf(p[1], p[2]) \subseteq Shared
    BY DEF NeedsOf, Shared
  <1> QED
    BY <1>1, <1>2

\* Of general's children the Service needs the Secret, and that the ConfigMap.
LEMMA GeneralNeeds ==
  /\ <<General, "secret">> \in NeedsOf(General, "service")
  /\ <<General, "configmap">> \in NeedsOf(General, "secret")
  BY GeneralWork DEF NeedsOf, KindsOf

\* The children of a ControlPlane stay in the order of the contract.
THEOREM ChildrenStayInOrder == CPSpec => []ChildrenInOrder
  <1>1. Promised!Spec => [](Promised!NeverAhead /\ Promised!NeedsFirst)
    BY NeedsShared, Promised!ContractKeepsOrder
  <1>2. Promised!NeverAhead /\ Promised!NeedsFirst => ChildrenInOrder
    <2> SUFFICES ASSUME Promised!NeverAhead, Promised!NeedsFirst PROVE ChildrenInOrder
      OBVIOUS
    <2>1. ASSUME NEW i \in Components, NEW k \in KindsOf(i) PROVE child[i][k] <= cp.object.ver
      BY <2>1, PartsAre DEF Promised!NeverAhead
    <2>2. ASSUME Ordered, NEW i \in Components, NEW k \in KindsOf(i),
                 NEW l \in KindsOf(General), <<General, l>> \in NeedsOf(i, k)
          PROVE  child[i][k] <= child[General][l]
      BY <2>2, PartsAre, GeneralFirst DEF Promised!NeedsFirst
    <2>3. ASSUME NEW i \in Deployed, NEW k \in KindsOf(i), NEW l \in KindsOf(General)
          PROVE  i \in Components /\ <<General, l>> \in NeedsOf(i, k)
      BY <2>3 DEF NeedsOf, Shared, Deployed
    <2>4. {"configmap", "secret", "service"} \subseteq KindsOf(General)
      BY GeneralWork DEF KindsOf
    <2> QED
      BY <2>1, <2>2, <2>3, <2>4, GeneralNeeds, GeneralFirst DEF ChildrenInOrder
  <1>3. Contract!Init => Promised!Init
    BY DEF Contract!Init, Promised!Init
  <1>4. [Contract!Next]_Contract!contractVars => [Promised!Next]_Promised!contractVars
    BY DEF Contract!Next, Contract!Ask, Contract!LetLoose, Contract!Bring, Contract!PutBack,
           Contract!contractVars, Promised!Next, Promised!Ask, Promised!LetLoose,
           Promised!Bring, Promised!PutBack, Promised!contractVars
  <1> QED
    BY <1>1, <1>2, <1>3, <1>4, ControlPlaneImplementsContract, PTL
       DEF KeepsContract, Contract!Spec, Promised!Spec

=============================================================================
