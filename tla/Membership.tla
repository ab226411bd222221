----------------------------- MODULE Membership -----------------------------
(***************************************************************************)
(* Who votes in the raft cluster: bootstrap or join when a pod starts,     *)
(* joinExistingCluster with its retries, AdminServer.JoinCluster, and the  *)
(* reconcilePeers that every leader runs against the EndpointSlices of the *)
(* headless service (internal/raftcluster/cluster.go).                     *)
(*                                                                         *)
(* raft and Kubernetes are external.  raft is the configuration in effect  *)
(* and the leader that can still commit: what a deposed leader asks for    *)
(* fails.  A change that finds no majority of the new configuration costs  *)
(* the leader its leadership, and stays in effect or not.  The volume of a *)
(* pod outlives it; its endpoint does when only the container dies.        *)
(***************************************************************************)
EXTENDS Naturals, FiniteSets

CONSTANTS
    LastOrdinal,    \* the pods are numbered from 0 to LastOrdinal
    MaxJoinTries,   \* cfg.RaftJoinMaxRetries
    MaxDeaths,      \* bound: containers and pods that die
    MaxLosses,      \* bound: leaderships lost for no reason modelled here
    None            \* no leader

Pods == 0..LastOrdinal

ASSUME OrdinalAssumption == LastOrdinal \in Nat
ASSUME BoundsAssumption ==
    MaxJoinTries \in Nat \ {0} /\ MaxDeaths \in Nat /\ MaxLosses \in Nat
ASSUME NoLeaderAssumption == None \notin Pods

VARIABLES
    voters,      \* the raft configuration in effect
    leader,      \* the leader, or None
    hasState,    \* the pods whose volume holds raft state
    up,          \* the pods whose process runs
    endpoints,   \* the pods in the EndpointSlices
    joining,     \* the pods where joinExistingCluster runs
    tries,       \* how many of its attempts failed
    reconcile,   \* where peerReconcileLoop of a pod is
    live,        \* its liveAddrs: the endpoints it listed
    toAdd,       \* the voters it is yet to add
    toRemove,    \* the voters it is yet to remove
    deaths, losses  \* count what is bounded

raftVars == <<voters, leader, hasState>>
joinVars == <<joining, tries>>
loopVars == <<reconcile, live, toAdd, toRemove>>
boundVars == <<deaths, losses>>
vars == <<raftVars, up, endpoints, joinVars, loopVars, boundVars>>

Init ==
    /\ voters = {} /\ leader = None /\ hasState = {}
    /\ up = {} /\ endpoints = {}
    /\ joining = {}
    /\ tries = [p \in Pods |-> 0]
    /\ reconcile = [p \in Pods |-> "idle"]
    /\ live = [p \in Pods |-> {}]
    /\ toAdd = [p \in Pods |-> {}]
    /\ toRemove = [p \in Pods |-> {}]
    /\ deaths = 0 /\ losses = 0

-----------------------------------------------------------------------------
(***************************************************************************)
(* hashicorp/raft                                                          *)
(***************************************************************************)

Majority(servers) == 2 * Cardinality(servers \cap up) > Cardinality(servers)

Elect(p) ==
    /\ leader = None
    /\ p \in up \cap voters \cap hasState /\ Majority(voters)
    /\ leader' = p
    /\ UNCHANGED <<voters, hasState, up, endpoints, joinVars, loopVars, boundVars>>

\* A leader without a majority steps down; others do so for reasons of their own.
LoseLeadership ==
    /\ leader # None
    /\ IF Majority(voters) THEN losses < MaxLosses /\ losses' = losses + 1
                           ELSE UNCHANGED losses
    /\ leader' = None
    /\ UNCHANGED <<voters, hasState, up, endpoints, joinVars, loopVars, deaths>>

\* A voter gets the log of the leader, and state of its own with it.
Replicate(p) ==
    /\ leader # None
    /\ p \in (up \cap voters) \ hasState
    /\ hasState' = hasState \cup {p}
    /\ UNCHANGED <<voters, leader, up, endpoints, joinVars, loopVars, boundVars>>

\* AddVoter and RemoveServer of the leader: the change commits,
Commits(servers) == Majority(servers) /\ voters' = servers /\ UNCHANGED leader
\* or fails for want of a majority.
Fails(servers) ==
    ~Majority(servers) /\ voters' \in {voters, servers} /\ leader' = None

-----------------------------------------------------------------------------
(***************************************************************************)
(* Start and death of a pod                                                *)
(***************************************************************************)

\* Mutant: pod 0 bootstraps whatever its volume holds.
NeedsBootstrapAlways(p) == p = 0

NeedsBootstrap(p) == p \notin hasState /\ p = 0

NeedsJoin(p) == p \notin hasState /\ p # 0

\* New and Run.  Kubernetes makes the pods in order, each when the one before
\* is ready; a container restarts in its pod.
Start(p) ==
    /\ p \notin up
    /\ p \in endpoints \/ \A q \in Pods : q < p => q \in up
    /\ up' = up \cup {p}
    /\ IF NeedsBootstrap(p)
       THEN voters' = {p} /\ hasState' = hasState \cup {p}
       ELSE UNCHANGED <<voters, hasState>>
    /\ joining' = IF NeedsJoin(p) THEN joining \cup {p} ELSE joining
    /\ UNCHANGED <<leader, endpoints, tries, loopVars, boundVars>>

\* Kubernetes publishes the address of a pod, ready or not, a moment later.
Publish(p) ==
    /\ p \in up \ endpoints
    /\ endpoints' = endpoints \cup {p}
    /\ UNCHANGED <<raftVars, up, joinVars, loopVars, boundVars>>

\* joinExistingCluster returns: joined, or out of attempts.
JoinReturns(p) ==
    /\ joining' = joining \ {p}
    /\ tries' = [tries EXCEPT ![p] = 0]

\* A container dies, or its pod does and leaves the endpoints.
Die(p) ==
    /\ p \in up /\ deaths < MaxDeaths
    /\ deaths' = deaths + 1
    /\ up' = up \ {p}
    /\ endpoints' \in {endpoints, endpoints \ {p}}
    /\ leader' = IF leader = p THEN None ELSE leader
    /\ JoinReturns(p)
    /\ reconcile' = [reconcile EXCEPT ![p] = "idle"]
    /\ live' = [live EXCEPT ![p] = {}]
    /\ toAdd' = [toAdd EXCEPT ![p] = {}]
    /\ toRemove' = [toRemove EXCEPT ![p] = {}]
    /\ UNCHANGED <<voters, hasState, losses>>

-----------------------------------------------------------------------------
(***************************************************************************)
(* joinExistingCluster                                                     *)
(***************************************************************************)

\* Mutant: one attempt more.
TriedInVainOnceMore(p) ==
    IF tries[p] < MaxJoinTries
    THEN tries' = [tries EXCEPT ![p] = @ + 1] /\ UNCHANGED joining
    ELSE JoinReturns(p)

\* An attempt failed; after the last one the pod gives up.
TriedInVain(p) ==
    IF tries[p] + 1 < MaxJoinTries
    THEN tries' = [tries EXCEPT ![p] = @ + 1] /\ UNCHANGED joining
    ELSE JoinReturns(p)

\* tryJoin finds the leader and JoinCluster adds the pod; the answer may be
\* lost after that.
JoinAdds(p) ==
    /\ p \in joining /\ leader # None
    /\ Commits(voters \cup {p})
    /\ JoinReturns(p) \/ TriedInVain(p)
    /\ UNCHANGED <<hasState, up, endpoints, loopVars, boundVars>>

\* No peer, no leader, a refusal or no answer; or AddVoter fails.
JoinFails(p) ==
    /\ p \in joining
    /\ UNCHANGED <<voters, leader>> \/ (leader # None /\ Fails(voters \cup {p}))
    /\ TriedInVain(p)
    /\ UNCHANGED <<hasState, up, endpoints, loopVars, boundVars>>

-----------------------------------------------------------------------------
(***************************************************************************)
(* peerReconcileLoop                                                       *)
(***************************************************************************)

\* The ticker fires on the leader, and reconcilePeers lists the endpoints.
ListEndpoints(p) ==
    /\ reconcile[p] = "idle" /\ leader = p
    /\ live' = [live EXCEPT ![p] = endpoints]
    /\ reconcile' = [reconcile EXCEPT ![p] = "listed"]
    /\ UNCHANGED <<raftVars, up, endpoints, joinVars, toAdd, toRemove, boundVars>>

\* Mutant: the pod is not left out of what it removes.
DepartedOrSelf(p) == voters \ live[p]

\* The configured servers without an endpoint, but for the pod itself.
Departed(p) == (voters \ live[p]) \ {p}

\* It reads the configuration a moment later, and works from these two.
GetConfiguration(p) ==
    /\ reconcile[p] = "listed"
    /\ toAdd' = [toAdd EXCEPT ![p] = live[p] \ voters]
    /\ toRemove' = [toRemove EXCEPT ![p] = Departed(p)]
    /\ live' = [live EXCEPT ![p] = {}]
    /\ reconcile' = [reconcile EXCEPT ![p] = "changing"]
    /\ UNCHANGED <<raftVars, up, endpoints, joinVars, boundVars>>

\* One change of raft asked for by p, which may not lead any more.
Change(p, servers) ==
    \/ leader = p /\ (Commits(servers) \/ Fails(servers))
    \/ leader # p /\ UNCHANGED <<voters, leader>>

\* Mutant: new peers are forgotten.
AddVoterSkipped(p, q) ==
    /\ reconcile[p] = "changing" /\ q \in toAdd[p]
    /\ toAdd' = [toAdd EXCEPT ![p] = @ \ {q}]
    /\ UNCHANGED <<raftVars, up, endpoints, joinVars, reconcile, live, toRemove, boundVars>>

AddVoter(p, q) ==
    /\ reconcile[p] = "changing" /\ q \in toAdd[p]
    /\ Change(p, voters \cup {q})
    /\ toAdd' = [toAdd EXCEPT ![p] = @ \ {q}]
    /\ UNCHANGED <<hasState, up, endpoints, joinVars, reconcile, live, toRemove, boundVars>>

RemoveServer(p, q) ==
    /\ reconcile[p] = "changing" /\ toAdd[p] = {} /\ q \in toRemove[p]
    /\ Change(p, voters \ {q})
    /\ toRemove' = [toRemove EXCEPT ![p] = @ \ {q}]
    /\ UNCHANGED <<hasState, up, endpoints, joinVars, reconcile, live, toAdd, boundVars>>

ReconcileReturns(p) ==
    /\ reconcile[p] = "changing" /\ toAdd[p] = {} /\ toRemove[p] = {}
    /\ reconcile' = [reconcile EXCEPT ![p] = "idle"]
    /\ UNCHANGED <<raftVars, up, endpoints, joinVars, live, toAdd, toRemove, boundVars>>

-----------------------------------------------------------------------------
ReconcileStep(p) ==
    \/ ListEndpoints(p) \/ GetConfiguration(p) \/ ReconcileReturns(p)
    \/ \E q \in Pods : AddVoter(p, q) \/ RemoveServer(p, q)

PodStep(p) ==
    \/ Elect(p) \/ Replicate(p) \/ Start(p) \/ Publish(p) \/ Die(p)
    \/ JoinAdds(p) \/ JoinFails(p) \/ ReconcileStep(p)

Next == LoseLeadership \/ \E p \in Pods : PodStep(p)

Spec == Init /\ [][Next]_vars

(***************************************************************************)
(* Fairness: Kubernetes starts pods, a majority elects a leader, which     *)
(* replicates, and the loop of a running pod goes on.  Nothing is asked of *)
(* a join: it may fail at every attempt.                                   *)
(***************************************************************************)
Fairness ==
    /\ WF_vars(\E p \in Pods : Elect(p))
    /\ WF_vars(~Majority(voters) /\ LoseLeadership)
    /\ \A p \in Pods :
         /\ WF_vars(Start(p)) /\ WF_vars(Publish(p))
         /\ WF_vars(Replicate(p)) /\ WF_vars(ReconcileStep(p))

FairSpec == Spec /\ Fairness

(***************************************************************************)
(* Properties                                                              *)
(***************************************************************************)

\* Every variable has its type.
TypeOK ==
    /\ voters \subseteq Pods /\ leader \in Pods \cup {None} /\ hasState \subseteq Pods
    /\ up \subseteq Pods /\ endpoints \subseteq Pods
    /\ joining \subseteq Pods /\ tries \in [Pods -> 0..(MaxJoinTries - 1)]
    /\ reconcile \in [Pods -> {"idle", "listed", "changing"}]
    /\ live \in [Pods -> SUBSET Pods]
    /\ toAdd \in [Pods -> SUBSET Pods]
    /\ toRemove \in [Pods -> SUBSET Pods]
    /\ deaths \in 0..MaxDeaths /\ losses \in 0..MaxLosses

\* The leader votes: no loop of another pod, stale as its lists may be, and no
\* restart takes the leader out of the configuration (cluster.go:478-483).
LeaderVotes == leader # None => leader \in voters

\* Pod 0 finds no state only as long as there is no cluster (cluster.go:145-148).
FoundedOnce == 0 \notin hasState => voters = {}

\* Why these hold: the leader's list of what it removes never names itself.  The
\* proofs show this conjunction inductive.
MembershipInv ==
    TypeOK /\ LeaderVotes /\ FoundedOnce /\ \A p \in Pods : p \notin toRemove[p]

\* From one configuration to the next at most one server comes or goes, so that
\* their majorities overlap: joins, the loops of several pods and restarts never
\* change more at a time, and pod 0 never founds a second cluster beside the
\* first (cluster.go:145-160, 467-490).
MajoritiesOverlap ==
    [][voters # {} =>
         \E p \in Pods : voters' \cup {p} = voters \cup {p}]_vars

\* The pods end up as the voters, with one of them leader, whether or not their
\* joins succeeded, and also after a loop removed a pod that had joined since the
\* loop listed the endpoints (cluster.go:321, 442-484).
VotersConverge == <>[](voters = Pods /\ endpoints = Pods /\ leader # None)
=============================================================================
