----------------------- MODULE ReconcileContractProofs -----------------------
(***************************************************************************)
(* What follows from the contract of a reconciler alone, and so holds of   *)
(* every reconciler that keeps it.                                         *)
(***************************************************************************)
EXTENDS ReconcileContract, TLAPS

\* What a child needs is a child, and is not put back.
WellFormed == \A c \in Parts : Needs[c] \subseteq Parts \cap Kept

ContractIInv == TypeOK /\ NeverAhead /\ NeedsFirst

\* The children keep their types and stay behind what was asked for.
LEMMA BoundsStep == TypeOK /\ NeverAhead /\ [Next]_contractVars => TypeOK' /\ NeverAhead'
  <1> SUFFICES ASSUME TypeOK, NeverAhead, [Next]_contractVars PROVE TypeOK' /\ NeverAhead'
    OBVIOUS
  <1> USE DEF TypeOK, NeverAhead
  <1>1. CASE Ask
    BY <1>1 DEF Ask
  <1>2. CASE LetLoose
    BY <1>2 DEF LetLoose
  <1>3. ASSUME NEW c \in Parts, Bring(c) PROVE TypeOK' /\ NeverAhead'
    BY <1>3 DEF Bring
  <1>4. ASSUME NEW c \in Parts, PutBack(c) PROVE TypeOK' /\ NeverAhead'
    BY <1>4 DEF PutBack
  <1>5. CASE UNCHANGED contractVars
    BY <1>5 DEF contractVars
  <1> QED
    BY <1>1, <1>2, <1>3, <1>4, <1>5 DEF Next

\* A child that others need only goes forward, and the others wait for it.
LEMMA NeedsFirstStep ==
  ASSUME WellFormed, ContractIInv, [Next]_contractVars PROVE NeedsFirst'
  <1> USE DEF ContractIInv, TypeOK, NeedsFirst, WellFormed
  <1>1. CASE Ask \/ LetLoose \/ UNCHANGED contractVars
    BY <1>1 DEF Ask, LetLoose, contractVars
  <1>2. ASSUME NEW c \in Parts, Bring(c) PROVE NeedsFirst'
    <2> SUFFICES ASSUME ~loose, NEW a \in Parts, NEW b \in Needs[a]
                 PROVE  applied'[a] <= applied'[b]
      BY <1>2 DEF Bring
    <2>1. PICK v \in applied[c] + 1 .. asked :
            /\ \A d \in Needs[c] : applied[d] >= v
            /\ applied' = [applied EXCEPT ![c] = v]
      BY <1>2 DEF Bring
    <2>2. b \in Parts /\ applied[a] <= applied[b] /\ applied[a] \in Nat /\ applied[b] \in Nat
      OBVIOUS
    <2>3. applied'[b] >= applied[b]
      BY <2>1, <2>2
    <2>4. CASE a = c
      BY <2>1, <2>2, <2>3, <2>4
    <2>5. CASE a # c
      BY <2>1, <2>2, <2>3, <2>5
    <2> QED
      BY <2>4, <2>5
  <1>3. ASSUME NEW c \in Parts, PutBack(c) PROVE NeedsFirst'
    <2> SUFFICES ASSUME ~loose, NEW a \in Parts, NEW b \in Needs[a]
                 PROVE  applied'[a] <= applied'[b]
      BY <1>3 DEF PutBack
    <2>1. PICK v \in 1 .. applied[c] - 1 : applied' = [applied EXCEPT ![c] = v]
      BY <1>3 DEF PutBack
    <2>2. b \in Parts /\ b # c /\ applied[a] <= applied[b]
      BY <1>3 DEF PutBack
    <2> QED
      BY <2>1, <2>2
  <1> QED
    BY <1>1, <1>2, <1>3 DEF Next

\* A reconciler that keeps the contract never has a child from a newer version
\* of the spec than one it needs, until a wg.Wait has overtaken its wg.Add:
\* so no Service without its StatefulSet, no Deployment before its ConfigMap.
THEOREM ContractKeepsOrder == WellFormed => (Spec => [](NeverAhead /\ NeedsFirst))
  <1> SUFFICES ASSUME WellFormed PROVE Spec => [](NeverAhead /\ NeedsFirst)
    OBVIOUS
  <1>1. Init => ContractIInv
    <2> SUFFICES ASSUME Init PROVE ContractIInv
      OBVIOUS
    <2>0. asked = 1 /\ loose = FALSE /\ \A c \in Parts : applied[c] = 0
      BY DEF Init
    <2>1. TypeOK /\ NeverAhead
      <3>1. applied \in [Parts -> Nat]
        BY DEF Init
      <3>2. asked \in Nat \ {0} /\ NeverAhead
        BY <2>0 DEF NeverAhead
      <3>3. loose \in BOOLEAN
        BY <2>0
      <3> QED
        BY <3>1, <3>2, <3>3 DEF TypeOK
    <2>2. ASSUME NEW c \in Parts, NEW d \in Needs[c] PROVE applied[c] <= applied[d]
      <3>1. d \in Parts
        BY DEF WellFormed
      <3> QED
        BY <3>1 DEF Init
    <2> QED
      BY <2>1, <2>2 DEF ContractIInv, NeedsFirst
  <1>2. ContractIInv /\ [Next]_contractVars => ContractIInv'
    BY BoundsStep, NeedsFirstStep DEF ContractIInv
  <1>3. ContractIInv => NeverAhead /\ NeedsFirst
    BY DEF ContractIInv
  <1> QED
    BY <1>1, <1>2, <1>3, PTL DEF Spec

=============================================================================
