----------------------- MODULE ManagedLifecycleProofs -----------------------
(***************************************************************************)
(* What every implementation of ManagedLifecycle inherits from it.         *)
(***************************************************************************)
EXTENDS ManagedLifecycle, TLAPS

\* The promise is one the protocol itself keeps: whatever implements it leaves
\* no orphan.
THEOREM LifecycleSafe == Spec => [](TypeOK /\ NoOrphan)
<1> USE DEF TypeOK, NoOrphan, CRStates, Remotes
<1>1. Init => TypeOK /\ NoOrphan
  BY DEF Init
<1>2. TypeOK /\ NoOrphan /\ [Next]_vars => (TypeOK /\ NoOrphan)'
  BY DEF Next, vars, Apply, Guard, Delete, Manage, Vanish, Appear, Release
<1> QED
  BY <1>1, <1>2, PTL DEF Spec
=============================================================================
