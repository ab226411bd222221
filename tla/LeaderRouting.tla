--------------------------- MODULE LeaderRouting ---------------------------
(***************************************************************************)
(* How writes find the raft leader: hashicorp/raft tells leaderLabelLoop   *)
(* of internal/raftcluster/cluster.go through LeaderCh, the loop patches   *)
(* the label raft-role of its own pod, and Istio makes the endpoints of    *)
(* the subsets leader and follower from the labels of the pods.            *)
(*                                                                         *)
(* raft, Kubernetes and Istio are external.  raft changes State() first    *)
(* and writes the one-slot LeaderCh a moment later, where a new value      *)
(* overrides one not yet received.  A container that restarts keeps the    *)
(* labels of its pod, a pod that is replaced gets those of the template.   *)
(* What the reset does to the block is in CounterReservation; here it      *)
(* matters that it waits for Cluster.mu.                                   *)
(***************************************************************************)
EXTENDS Naturals

CONSTANTS
    Nodes,          \* the pods
    MaxElections,   \* bound: elections
    MaxRestarts,    \* bound: containers and pods that die
    MaxFailures     \* bound: patches that fail

ASSUME RoutingBoundsAssumption ==
    MaxElections \in Nat /\ MaxRestarts \in Nat /\ MaxFailures \in Nat

VARIABLES
    leading,        \* the nodes whose State() is Leader
    latest,         \* the nodes that won the latest election: none or one
    unannounced,    \* nodes whose State() changed and LeaderCh did not yet hear
    leaderCh,       \* the one-slot raft.LeaderCh() of a node
    loop,           \* where leaderLabelLoop is
    role,           \* what its updateRaftRoleLabel was called with
    holding,        \* nodes where a call of NextCounter holds Cluster.mu
    label,          \* the label raft-role of a pod
    unpatched,      \* pods whose latest patch failed
    route,          \* the subset Envoy has a pod in
    elections, restarts, failures   \* count what is bounded

raftVars == <<leading, latest, unannounced, elections>>
loopVars == <<leaderCh, loop, role>>
podVars == <<label, unpatched, route>>
vars == <<raftVars, loopVars, holding, podVars, restarts, failures>>

Role(isLeader) == IF isLeader THEN "leader" ELSE "follower"

\* The label of a pod that was just made.
PodTemplate == "follower"

Up(n) == loop[n] # "down"

Init ==
    /\ leading = {} /\ latest = {} /\ unannounced = {}
    /\ leaderCh = [n \in Nodes |-> "empty"]
    /\ loop = [n \in Nodes |-> "down"]
    /\ role = [n \in Nodes |-> "follower"]
    /\ holding = {}
    /\ label = [n \in Nodes |-> PodTemplate]
    /\ unpatched = {}
    /\ route = [n \in Nodes |-> "none"]
    /\ elections = 0 /\ restarts = 0 /\ failures = 0

-----------------------------------------------------------------------------
(***************************************************************************)
(* hashicorp/raft                                                          *)
(***************************************************************************)

\* A node wins an election, perhaps while an older leader does not know of it.
Elect(n) ==
    /\ Up(n) /\ n \notin leading \cup unannounced
    /\ elections < MaxElections
    /\ elections' = elections + 1
    /\ leading' = leading \cup {n}
    /\ latest' = {n}
    /\ unannounced' = unannounced \cup {n}
    /\ UNCHANGED <<loopVars, holding, podVars, restarts, failures>>

StepDown(n) ==
    /\ n \in leading \ unannounced
    /\ leading' = leading \ {n}
    /\ unannounced' = unannounced \cup {n}
    /\ UNCHANGED <<latest, elections, loopVars, holding, podVars, restarts, failures>>

\* LeaderCh hears of it and forgets what it held.
Announce(n) ==
    /\ n \in unannounced
    /\ unannounced' = unannounced \ {n}
    /\ leaderCh' = [leaderCh EXCEPT ![n] = Role(n \in leading)]
    /\ UNCHANGED <<leading, latest, elections, loop, role, holding, podVars, restarts, failures>>

-----------------------------------------------------------------------------
(***************************************************************************)
(* NextCounter, as far as it holds Cluster.mu                              *)
(***************************************************************************)

Lock(n) ==
    /\ n \in leading \ holding
    /\ holding' = holding \cup {n}
    /\ UNCHANGED <<raftVars, loopVars, podVars, restarts, failures>>

Unlock(n) ==
    /\ n \in holding
    /\ holding' = holding \ {n}
    /\ UNCHANGED <<raftVars, loopVars, podVars, restarts, failures>>

-----------------------------------------------------------------------------
(***************************************************************************)
(* leaderLabelLoop                                                         *)
(***************************************************************************)

\* Only becoming leader leads over the reset under mu to the patch.
Update(n, isLeader) ==
    /\ role' = [role EXCEPT ![n] = Role(isLeader)]
    /\ loop' = [loop EXCEPT ![n] = IF isLeader THEN "reset" ELSE "patch"]

\* Mutant: the loop waits for LeaderCh without a first update.
StartUnlabelled(n) ==
    /\ loop[n] = "start"
    /\ loop' = [loop EXCEPT ![n] = "receive"]
    /\ UNCHANGED <<raftVars, leaderCh, role, holding, podVars, restarts, failures>>

\* The first update, with what IsLeader says now.
StartLabelLoop(n) ==
    /\ loop[n] = "start"
    /\ Update(n, n \in leading)
    /\ UNCHANGED <<raftVars, leaderCh, holding, podVars, restarts, failures>>

\* Mutant: only a new leader updates its label.
ReceiveLeadershipOnly(n) ==
    /\ loop[n] = "receive" /\ leaderCh[n] # "empty"
    /\ leaderCh' = [leaderCh EXCEPT ![n] = "empty"]
    /\ IF leaderCh[n] = "leader" THEN Update(n, TRUE) ELSE UNCHANGED <<loop, role>>
    /\ UNCHANGED <<raftVars, holding, podVars, restarts, failures>>

ReceiveLeaderCh(n) ==
    /\ loop[n] = "receive" /\ leaderCh[n] # "empty"
    /\ leaderCh' = [leaderCh EXCEPT ![n] = "empty"]
    /\ Update(n, leaderCh[n] = "leader")
    /\ UNCHANGED <<raftVars, holding, podVars, restarts, failures>>

ResetBlock(n) ==
    /\ loop[n] = "reset" /\ n \notin holding
    /\ loop' = [loop EXCEPT ![n] = "patch"]
    /\ UNCHANGED <<raftVars, leaderCh, role, holding, podVars, restarts, failures>>

\* Mutant: the label is raft's own name of the state.
PatchState(n) ==
    /\ loop[n] = "patch"
    /\ loop' = [loop EXCEPT ![n] = "receive"]
    /\ label' = [label EXCEPT ![n] = IF role[n] = "leader" THEN "Leader" ELSE "Follower"]
    /\ unpatched' = unpatched \ {n}
    /\ UNCHANGED <<raftVars, leaderCh, role, holding, route, restarts, failures>>

Patch(n) ==
    /\ loop[n] = "patch"
    /\ loop' = [loop EXCEPT ![n] = "receive"]
    /\ label' = [label EXCEPT ![n] = role[n]]
    /\ unpatched' = unpatched \ {n}
    /\ UNCHANGED <<raftVars, leaderCh, role, holding, route, restarts, failures>>

\* A patch that fails is logged, and the loop goes on.
PatchFails(n) ==
    /\ loop[n] = "patch"
    /\ failures < MaxFailures
    /\ failures' = failures + 1
    /\ loop' = [loop EXCEPT ![n] = "receive"]
    /\ unpatched' = unpatched \cup {n}
    /\ UNCHANGED <<raftVars, leaderCh, role, holding, label, route, restarts>>

-----------------------------------------------------------------------------
(***************************************************************************)
(* Kubernetes and Istio                                                    *)
(***************************************************************************)

\* A container starts: New, then Run, which starts the loop.
StartContainer(n) ==
    /\ loop[n] = "down"
    /\ loop' = [loop EXCEPT ![n] = "start"]
    /\ UNCHANGED <<raftVars, leaderCh, role, holding, podVars, restarts, failures>>

\* A container dies and keeps its labels, or its pod does and is replaced by
\* one with the labels of the template.
Die(n) ==
    /\ Up(n) /\ restarts < MaxRestarts
    /\ restarts' = restarts + 1
    /\ loop' = [loop EXCEPT ![n] = "down"]
    /\ leading' = leading \ {n}
    /\ unannounced' = unannounced \ {n}
    /\ leaderCh' = [leaderCh EXCEPT ![n] = "empty"]
    /\ holding' = holding \ {n}
    /\ label' \in {label, [label EXCEPT ![n] = PodTemplate]}
    /\ UNCHANGED <<latest, elections, role, unpatched, route, failures>>

\* istiod pushes the endpoint of a pod to the Envoys; one that is not up is none.
Push(n) ==
    LET subset == IF Up(n) THEN label[n] ELSE "none" IN
    /\ route[n] # subset
    /\ route' = [route EXCEPT ![n] = subset]
    /\ UNCHANGED <<raftVars, loopVars, holding, label, unpatched, restarts, failures>>

-----------------------------------------------------------------------------
NodeStep(n) ==
    \/ Elect(n) \/ StepDown(n) \/ Announce(n) \/ Lock(n) \/ Unlock(n)
    \/ StartLabelLoop(n) \/ ReceiveLeaderCh(n) \/ ResetBlock(n) \/ Patch(n) \/ PatchFails(n)
    \/ StartContainer(n) \/ Die(n) \/ Push(n)

Next == \E n \in Nodes : NodeStep(n)

Spec == Init /\ [][Next]_vars

(***************************************************************************)
(* Fairness: goroutines run and a mutex of Go starves no one; NextCounter  *)
(* gives mu back (CounterReservation); kubelet starts containers again,    *)
(* istiod pushes, and a leader that was superseded finds out.              *)
(***************************************************************************)
Fairness == \A n \in Nodes :
    /\ WF_vars(Announce(n)) /\ WF_vars(n \notin latest /\ StepDown(n))
    /\ WF_vars(Unlock(n)) /\ SF_vars(ResetBlock(n))
    /\ WF_vars(StartLabelLoop(n)) /\ WF_vars(ReceiveLeaderCh(n))
    /\ WF_vars(Patch(n) \/ PatchFails(n))
    /\ WF_vars(StartContainer(n)) /\ WF_vars(Push(n))

FairSpec == Spec /\ Fairness

(***************************************************************************)
(* Properties                                                              *)
(***************************************************************************)

\* Every variable has its type.
TypeOK ==
    /\ leading \subseteq Nodes /\ latest \subseteq Nodes
    /\ unannounced \subseteq Nodes /\ holding \subseteq Nodes /\ unpatched \subseteq Nodes
    /\ leaderCh \in [Nodes -> {"empty", "leader", "follower"}]
    /\ loop \in [Nodes -> {"down", "start", "receive", "reset", "patch"}]
    /\ role \in [Nodes -> {"leader", "follower"}]
    /\ label \in [Nodes -> {"leader", "follower"}]
    /\ route \in [Nodes -> {"leader", "follower", "none"}]
    /\ elections \in 0..MaxElections
    /\ restarts \in 0..MaxRestarts
    /\ failures \in 0..MaxFailures

\* What the label of a pod will be once its loop has done what it knows of.
LastWord(n) ==
    IF leaderCh[n] # "empty" THEN leaderCh[n]
    ELSE IF loop[n] \in {"reset", "patch"} THEN role[n]
    ELSE label[n]

\* No change of leadership gets lost between raft and the loop, though LeaderCh
\* drops values, the first update races with the first election and the loop may
\* hang on mu for long: what LeaderCh holds is the truth, and so is the last word
\* (cluster.go:496-505), except for a pod whose latest patch failed.
NoLeadershipLost ==
    \A n \in Nodes \ unannounced :
        /\ leaderCh[n] \in {"empty", Role(n \in leading)}
        /\ \/ LastWord(n) = Role(n \in leading)
           \/ loop[n] \in {"down", "start"}
           \/ n \in unpatched /\ loop[n] = "receive"

\* When elections, crashes and failures are over, every pod gets into the subset
\* of its role: writes go to the leader and reads to all others, but for a pod
\* whose latest patch failed (cluster.go:523-525).
RoutesConverge ==
    <>[](\A n \in Nodes \ unpatched : route[n] = Role(n \in leading))
=============================================================================
