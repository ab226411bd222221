-------------------------- MODULE MembershipProofs --------------------------
(***************************************************************************)
(* Proofs about Membership, for any number of pods, attempts, deaths and   *)
(* lost leaderships.  What a majority is does not matter for them.         *)
(***************************************************************************)
EXTENDS Membership, TLAPS

LEMMA InitMembership == Init => MembershipInv
  BY BoundsAssumption
  DEF Init, MembershipInv, TypeOK, LeaderVotes, FoundedOnce

\* What a call of AddVoter or RemoveServer by pod p does to the configuration.
LEMMA ChangeOutcome ==
  ASSUME NEW p \in Pods, NEW servers, Change(p, servers)
  PROVE  /\ voters' \in {voters, servers} /\ leader' \in {leader, None}
         /\ voters' # voters => leader = p
  BY DEF Change, Commits, Fails

\* A join changes the configuration only by the pod that joins.
LEMMA JoinOutcome ==
  ASSUME NEW p \in Pods, JoinAdds(p) \/ JoinFails(p)
  PROVE  /\ voters' \in {voters, voters \cup {p}} /\ leader' \in {leader, None}
         /\ voters' # voters => leader # None
  BY DEF JoinAdds, JoinFails, Commits, Fails

\* A failed attempt keeps the types of what it counts.
LEMMA TriedInVainType ==
  ASSUME NEW p \in Pods, TypeOK, TriedInVain(p) \/ JoinReturns(p)
  PROVE  joining' \subseteq Pods /\ tries' \in [Pods -> 0..(MaxJoinTries - 1)]
  BY BoundsAssumption DEF TypeOK, TriedInVain, JoinReturns

-----------------------------------------------------------------------------
\* Each step keeps the types.
LEMMA TypeStep == TypeOK /\ [Next]_vars => TypeOK'
<1> SUFFICES ASSUME TypeOK, [Next]_vars PROVE TypeOK'
  OBVIOUS
<1> USE BoundsAssumption DEF TypeOK
<1>1. CASE UNCHANGED vars
  BY <1>1 DEF vars, raftVars, joinVars, loopVars, boundVars
<1>2. CASE LoseLeadership
  BY <1>2 DEF LoseLeadership, joinVars, loopVars
<1>3. ASSUME NEW p \in Pods, PodStep(p) PROVE TypeOK'
  <2>1. CASE Elect(p)
    BY <2>1 DEF Elect, joinVars, loopVars, boundVars
  <2>2. CASE Replicate(p)
    BY <2>2 DEF Replicate, joinVars, loopVars, boundVars
  <2>3. CASE Start(p)
    BY <2>3 DEF Start, loopVars, boundVars
  <2>4. CASE Publish(p)
    BY <2>4 DEF Publish, raftVars, joinVars, loopVars, boundVars
  <2>5. CASE Die(p)
    <3>1. joining' \subseteq Pods /\ tries' \in [Pods -> 0..(MaxJoinTries - 1)]
      BY <2>5, TriedInVainType DEF Die
    <3>2. /\ UNCHANGED <<voters, hasState, losses>>
          /\ leader' \in {leader, None} /\ up' \subseteq up /\ endpoints' \subseteq endpoints
      BY <2>5 DEF Die
    <3>3. reconcile' \in [Pods -> {"idle", "listed", "changing"}]
      BY <2>5 DEF Die
    <3>4. /\ live' \in [Pods -> SUBSET Pods] /\ toAdd' \in [Pods -> SUBSET Pods]
          /\ toRemove' \in [Pods -> SUBSET Pods]
      BY <2>5 DEF Die
    <3>5. deaths' \in 0..MaxDeaths
      BY <2>5 DEF Die
    <3> QED
      BY <3>1, <3>2, <3>3, <3>4, <3>5
  <2>6. CASE JoinAdds(p) \/ JoinFails(p)
    <3>1. joining' \subseteq Pods /\ tries' \in [Pods -> 0..(MaxJoinTries - 1)]
      BY <2>6, TriedInVainType DEF JoinAdds, JoinFails
    <3>2. voters' \subseteq Pods /\ leader' \in Pods \cup {None}
      BY <2>6, JoinOutcome
    <3>3. UNCHANGED <<hasState, up, endpoints, loopVars, boundVars>>
      BY <2>6 DEF JoinAdds, JoinFails
    <3> QED
      BY <3>1, <3>2, <3>3 DEF loopVars, boundVars
  <2>7. CASE ListEndpoints(p)
    BY <2>7 DEF ListEndpoints, raftVars, joinVars, boundVars
  <2>8. CASE GetConfiguration(p)
    BY <2>8 DEF GetConfiguration, Departed, raftVars, joinVars, boundVars
  <2>9. CASE ReconcileReturns(p)
    BY <2>9 DEF ReconcileReturns, raftVars, joinVars, boundVars
  <2>10. ASSUME NEW q \in Pods, AddVoter(p, q) PROVE TypeOK'
    <3>1. voters' \subseteq Pods /\ leader' \in Pods \cup {None}
      BY <2>10, ChangeOutcome DEF AddVoter
    <3> QED
      BY <2>10, <3>1 DEF AddVoter, joinVars, boundVars
  <2>11. ASSUME NEW q \in Pods, RemoveServer(p, q) PROVE TypeOK'
    <3>1. voters' \subseteq Pods /\ leader' \in Pods \cup {None}
      BY <2>11, ChangeOutcome DEF RemoveServer
    <3> QED
      BY <2>11, <3>1 DEF RemoveServer, joinVars, boundVars
  <2> QED
    BY <1>3, <2>1, <2>2, <2>3, <2>4, <2>5, <2>6, <2>7, <2>8, <2>9, <2>10, <2>11
    DEF PodStep, ReconcileStep
<1> QED
  BY <1>1, <1>2, <1>3 DEF Next

\* The configuration changes by at most one server: an action of one pod adds or
\* removes one, and Start replaces it only while there is none.
LEMMA OneServerStep ==
  MembershipInv /\ [Next]_vars =>
    (voters # {} => \E p \in Pods : voters' \cup {p} = voters \cup {p})
<1> SUFFICES ASSUME MembershipInv, [Next]_vars, voters # {}
             PROVE  \E p \in Pods : voters' \cup {p} = voters \cup {p}
  OBVIOUS
<1>0. 0 \in Pods /\ (voters' = voters => voters' \cup {0} = voters \cup {0})
  BY OrdinalAssumption DEF Pods
<1>1. CASE UNCHANGED vars \/ LoseLeadership
  BY <1>0, <1>1 DEF vars, raftVars, LoseLeadership
<1>2. ASSUME NEW p \in Pods, PodStep(p)
      PROVE  \E q \in Pods : voters' \cup {q} = voters \cup {q}
  <2>1. CASE Elect(p) \/ Replicate(p) \/ Publish(p) \/ Die(p)
    BY <1>0, <2>1 DEF Elect, Replicate, Publish, Die, raftVars
  <2>2. CASE Start(p)
    BY <1>0, <2>2 DEF Start, NeedsBootstrap, MembershipInv, FoundedOnce
  <2>3. CASE JoinAdds(p) \/ JoinFails(p)
    BY <2>3, JoinOutcome
  <2>4. CASE ListEndpoints(p) \/ GetConfiguration(p) \/ ReconcileReturns(p)
    BY <1>0, <2>4 DEF ListEndpoints, GetConfiguration, ReconcileReturns, raftVars
  <2>5. ASSUME NEW q \in Pods, AddVoter(p, q)
        PROVE  voters' \cup {q} = voters \cup {q}
    BY <2>5, ChangeOutcome DEF AddVoter
  <2>6. ASSUME NEW q \in Pods, RemoveServer(p, q)
        PROVE  voters' \cup {q} = voters \cup {q}
    BY <2>6, ChangeOutcome DEF RemoveServer
  <2> QED
    BY <1>2, <2>1, <2>2, <2>3, <2>4, <2>5, <2>6 DEF PodStep, ReconcileStep
<1> QED
  BY <1>1, <1>2 DEF Next

\* Each step keeps the rest of the invariant.
LEMMA MembershipStep == MembershipInv /\ [Next]_vars => MembershipInv'
<1> SUFFICES ASSUME MembershipInv, [Next]_vars PROVE MembershipInv'
  OBVIOUS
<1>0. TypeOK /\ TypeOK'
  BY TypeStep DEF MembershipInv
<1> USE NoLeaderAssumption DEF MembershipInv, LeaderVotes, FoundedOnce
<1>1. CASE UNCHANGED vars
  BY <1>0, <1>1 DEF vars, raftVars, loopVars
<1>2. CASE LoseLeadership
  BY <1>0, <1>2 DEF LoseLeadership, loopVars
<1>3. ASSUME NEW p \in Pods, PodStep(p) PROVE MembershipInv'
  <2>1. CASE Elect(p) \/ Replicate(p) \/ Publish(p)
    BY <1>0, <2>1 DEF Elect, Replicate, Publish, raftVars, loopVars
  <2>2. CASE Start(p)
    BY <1>0, <2>2 DEF Start, NeedsBootstrap, loopVars
  <2>3. CASE Die(p)
    BY <1>0, <2>3 DEF Die, TypeOK
  <2>4. CASE JoinAdds(p) \/ JoinFails(p)
    <3>1. UNCHANGED <<hasState, toRemove>>
      BY <2>4 DEF JoinAdds, JoinFails, loopVars
    <3> QED
      BY <1>0, <2>4, <3>1, JoinOutcome
  <2>5. CASE ListEndpoints(p) \/ ReconcileReturns(p)
    BY <1>0, <2>5 DEF ListEndpoints, ReconcileReturns, raftVars
  <2>6. CASE GetConfiguration(p)
    BY <1>0, <2>6 DEF GetConfiguration, Departed, raftVars, TypeOK
  <2>7. ASSUME NEW q \in Pods, AddVoter(p, q) PROVE MembershipInv'
    <3>1. UNCHANGED <<hasState, toRemove>>
      BY <2>7 DEF AddVoter
    <3> QED
      BY <1>0, <2>7, <3>1, ChangeOutcome DEF AddVoter
  <2>8. ASSUME NEW q \in Pods, RemoveServer(p, q) PROVE MembershipInv'
    <3>1. /\ UNCHANGED hasState /\ q \in toRemove[p] /\ Change(p, voters \ {q})
          /\ toRemove' = [toRemove EXCEPT ![p] = @ \ {q}]
      BY <2>8 DEF RemoveServer
    <3>2. \A r \in Pods : r \notin toRemove'[r]
      BY <1>0, <3>1 DEF TypeOK
    <3>3. q # p
      BY <3>1
    <3> QED
      BY <1>0, <3>1, <3>2, <3>3, ChangeOutcome
  <2> QED
    BY <1>3, <2>1, <2>2, <2>3, <2>4, <2>5, <2>6, <2>7, <2>8 DEF PodStep, ReconcileStep
<1> QED
  BY <1>1, <1>2, <1>3 DEF Next

-----------------------------------------------------------------------------
\* The inductive invariant of the membership.
THEOREM MembershipInvariant == Spec => []MembershipInv
  BY InitMembership, MembershipStep, PTL DEF Spec

\* The variables of Membership keep their types.
THEOREM MembershipTypeCorrect == Spec => []TypeOK
<1>1. MembershipInv => TypeOK
  BY DEF MembershipInv
<1> QED
  BY MembershipInvariant, <1>1, PTL

\* The leader is a voter.
THEOREM LeaderVotesTheorem == Spec => []LeaderVotes
<1>1. MembershipInv => LeaderVotes
  BY DEF MembershipInv
<1> QED
  BY MembershipInvariant, <1>1, PTL

\* Configurations that follow each other differ by at most one server.
THEOREM MajoritiesOverlapTheorem == Spec => MajoritiesOverlap
<1>1. MembershipInv /\ [Next]_vars =>
        [voters # {} => \E p \in Pods : voters' \cup {p} = voters \cup {p}]_vars
  BY OneServerStep
<1> QED
  BY MembershipInvariant, <1>1, PTL DEF Spec, MajoritiesOverlap
=============================================================================
