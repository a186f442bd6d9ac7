-------------------------- MODULE ReconcileContract --------------------------
(***************************************************************************)
(* What a reconciler promises of the children it keeps for one object.     *)
(* The user asks for versions of the spec; each child is brought forward   *)
(* to a version that has been asked for, once the children it needs are    *)
(* there.  A child that is not kept may be put back to an older version,   *)
(* by a call that has outlived its Reconcile; a kept one only after such   *)
(* a call was let loose by a wg.Wait that ran before its wg.Add.           *)
(*                                                                         *)
(* StorageReconciler and ControlPlaneReconciler implement it.              *)
(***************************************************************************)
EXTENDS Integers

CONSTANTS
  Parts,   \* the children
  Needs,   \* the children each child needs
  Kept     \* the children that are not put back

VARIABLES
  asked,    \* the last version of the spec
  applied,  \* the version each child was written from, 0: none
  loose     \* an overtaken wait has happened

contractVars == <<asked, applied, loose>>

Init ==
  /\ asked = 1
  /\ applied = [c \in Parts |-> 0]
  /\ loose = FALSE

Ask == asked' = asked + 1 /\ UNCHANGED <<applied, loose>>

Bring(c) ==
  /\ \E v \in applied[c] + 1 .. asked :
       /\ loose \/ \A d \in Needs[c] : applied[d] >= v
       /\ applied' = [applied EXCEPT ![c] = v]
  /\ UNCHANGED <<asked, loose>>

PutBack(c) ==
  /\ loose \/ c \notin Kept
  /\ \E v \in 1 .. applied[c] - 1 : applied' = [applied EXCEPT ![c] = v]
  /\ UNCHANGED <<asked, loose>>

LetLoose == ~loose /\ loose' = TRUE /\ UNCHANGED <<asked, applied>>

Next == Ask \/ LetLoose \/ \E c \in Parts : Bring(c) \/ PutBack(c)

Spec == Init /\ [][Next]_contractVars

-----------------------------------------------------------------------------

TypeOK ==
  /\ asked \in Nat \ {0}
  /\ applied \in [Parts -> Nat]
  /\ loose \in BOOLEAN

NeverAhead == \A c \in Parts : applied[c] <= asked

\* No child is newer than one it needs.
NeedsFirst ==
  ~loose => \A c \in Parts : \A d \in Needs[c] : applied[c] <= applied[d]

=============================================================================
