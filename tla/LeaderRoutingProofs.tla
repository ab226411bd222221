------------------------ MODULE LeaderRoutingProofs ------------------------
(***************************************************************************)
(* Proofs about LeaderRouting, for any number of pods, elections, crashes  *)
(* and failed patches.  TypeOK and NoLeadershipLost are inductive together.*)
(***************************************************************************)
EXTENDS LeaderRouting, TLAPS

RoutingInv == TypeOK /\ NoLeadershipLost

LEMMA InitRouting == Init => RoutingInv
  BY RoutingBoundsAssumption
  DEF Init, RoutingInv, TypeOK, NoLeadershipLost, Role, PodTemplate

\* Each step keeps the types.
LEMMA TypeStep == TypeOK /\ [Next]_vars => TypeOK'
<1> SUFFICES ASSUME TypeOK, [Next]_vars PROVE TypeOK'
  OBVIOUS
<1> USE RoutingBoundsAssumption DEF TypeOK, Role
<1>1. CASE UNCHANGED vars
  BY <1>1 DEF vars, raftVars, loopVars, podVars
<1>2. ASSUME NEW n \in Nodes, NodeStep(n) PROVE TypeOK'
  <2>1. CASE Elect(n)
    BY <2>1 DEF Elect, loopVars, podVars
  <2>2. CASE StepDown(n)
    BY <2>2 DEF StepDown, loopVars, podVars
  <2>3. CASE Announce(n)
    BY <2>3 DEF Announce, podVars
  <2>4. CASE Lock(n) \/ Unlock(n)
    BY <2>4 DEF Lock, Unlock, raftVars, loopVars, podVars
  <2>5. CASE StartLabelLoop(n)
    BY <2>5 DEF StartLabelLoop, Update, raftVars, podVars
  <2>6. CASE ReceiveLeaderCh(n)
    BY <2>6 DEF ReceiveLeaderCh, Update, raftVars, podVars
  <2>7. CASE ResetBlock(n)
    BY <2>7 DEF ResetBlock, raftVars, podVars
  <2>8. CASE Patch(n)
    BY <2>8 DEF Patch, raftVars
  <2>9. CASE PatchFails(n)
    BY <2>9 DEF PatchFails, raftVars
  <2>10. CASE StartContainer(n)
    BY <2>10 DEF StartContainer, raftVars, podVars
  <2>11. CASE Die(n)
    BY <2>11 DEF Die, PodTemplate
  <2>12. CASE Push(n)
    BY <2>12 DEF Push, raftVars, loopVars
  <2> QED
    BY <1>2, <2>1, <2>2, <2>3, <2>4, <2>5, <2>6, <2>7, <2>8, <2>9, <2>10, <2>11, <2>12
    DEF NodeStep
<1> QED
  BY <1>1, <1>2 DEF Next

\* Each step keeps the last word of every node true: at node n by what the step
\* does, at any other node m because nothing of m changes.
LEMMA LastWordStep == RoutingInv /\ [Next]_vars => NoLeadershipLost'
<1> SUFFICES ASSUME RoutingInv, [Next]_vars PROVE NoLeadershipLost'
  OBVIOUS
<1> USE DEF RoutingInv, NoLeadershipLost, LastWord
<1>1. CASE UNCHANGED vars
  BY <1>1 DEF vars, raftVars, loopVars, podVars
<1>2. ASSUME NEW n \in Nodes, NodeStep(n) PROVE NoLeadershipLost'
  <2> USE DEF TypeOK
  <2>1. CASE Elect(n)
    BY <2>1 DEF Elect, loopVars, podVars
  <2>2. CASE StepDown(n)
    BY <2>2 DEF StepDown, loopVars, podVars
  <2>3. CASE Announce(n)
    BY <2>3 DEF Announce, podVars, Role
  <2>4. CASE Lock(n) \/ Unlock(n)
    BY <2>4 DEF Lock, Unlock, raftVars, loopVars, podVars
  <2>5. CASE StartLabelLoop(n)
    BY <2>5 DEF StartLabelLoop, Update, raftVars, podVars, Role
  <2>6. CASE ReceiveLeaderCh(n)
    BY <2>6 DEF ReceiveLeaderCh, Update, raftVars, podVars, Role
  <2>7. CASE ResetBlock(n)
    BY <2>7 DEF ResetBlock, raftVars, podVars
  <2>8. CASE Patch(n)
    BY <2>8 DEF Patch, raftVars
  <2>9. CASE PatchFails(n)
    BY <2>9 DEF PatchFails, raftVars
  <2>10. CASE StartContainer(n)
    BY <2>10 DEF StartContainer, raftVars, podVars
  <2>11. CASE Die(n)
    BY <2>11 DEF Die, PodTemplate
  <2>12. CASE Push(n)
    BY <2>12 DEF Push, raftVars, loopVars
  <2> QED
    BY <1>2, <2>1, <2>2, <2>3, <2>4, <2>5, <2>6, <2>7, <2>8, <2>9, <2>10, <2>11, <2>12
    DEF NodeStep
<1> QED
  BY <1>1, <1>2 DEF Next

THEOREM RoutingInvariant == Spec => []RoutingInv
<1>1. RoutingInv /\ [Next]_vars => RoutingInv'
  BY TypeStep, LastWordStep DEF RoutingInv
<1> QED
  BY InitRouting, <1>1, PTL DEF Spec

\* The variables of LeaderRouting keep their types.
THEOREM RoutingTypeCorrect == Spec => []TypeOK
<1>1. RoutingInv => TypeOK
  BY DEF RoutingInv
<1> QED
  BY RoutingInvariant, <1>1, PTL

\* No change of leadership is lost on its way to the label of the pod.
THEOREM NoLeadershipLostTheorem == Spec => []NoLeadershipLost
<1>1. RoutingInv => NoLeadershipLost
  BY DEF RoutingInv
<1> QED
  BY RoutingInvariant, <1>1, PTL
=============================================================================
