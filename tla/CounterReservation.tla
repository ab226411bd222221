------------------------- MODULE CounterReservation -------------------------
(***************************************************************************)
(* The counter reservation of internal/raftcluster/cluster.go: NextCounter *)
(* and reserveBlock under Cluster.mu, the reset that leaderLabelLoop makes *)
(* when its node becomes leader, and FSM.applyReserveBlock on every node.  *)
(*                                                                         *)
(* hashicorp/raft is external.  It is one sequence of committed entries,   *)
(* the entries proposed but not yet committed, the term each node believes *)
(* it leads, and how far each node's FSM has applied the log.  A deposed   *)
(* leader may go on believing in its term, a leader's FSM may lag behind   *)
(* the log it was elected with, and an entry whose proposer lost its       *)
(* leadership may still commit.  Only reservations are in this log: the    *)
(* other commands do not touch the counter.                                *)
(***************************************************************************)
EXTENDS Naturals, Sequences, FiniteSets

CONSTANTS
    Nodes,      \* the pods of the StatefulSet
    Calls,      \* the calls of NextCounter, each made by one request
    BlockSize,  \* cfg.CounterBlockSize
    MaxTerm,    \* bound: elections
    None        \* no call, no node

ASSUME BlockSizeAssumption == BlockSize \in Nat \ {0}
ASSUME MaxTermAssumption == MaxTerm \in Nat
ASSUME NoneAssumption == None \notin Nodes /\ None \notin Calls

VARIABLES
    log,            \* committed reservations, oldest first
    inflight,       \* reservations proposed and not committed; mu admits one per term
    term,           \* the highest term a leader was elected in
    leaderTerm,     \* the term a node believes it leads, 0 when it is not leader
    applied,        \* how many entries a node's FSM has applied since it started
    snapshot,       \* the log index of a node's latest snapshot, 0 when none
    counter,        \* counter.value in a node's SQLite file
    leaderCh,       \* the one-slot raft.LeaderCh() of a node
    labelLoop,      \* where leaderLabelLoop is
    mu,             \* the call that holds Cluster.mu, or None
    reservedStart, reservedEnd, nextToIssue,  \* the fields mu guards
    pc,             \* where a call of NextCounter is
    node,           \* the node a call runs on
    current,        \* the call's local "current": what it read from SQLite
    proposedIn,     \* the term in which the call proposed its reservation
    value           \* what the call returned

raftVars == <<log, inflight, term, leaderTerm>>
fsmVars == <<applied, snapshot, counter>>
loopVars == <<leaderCh, labelLoop>>
blockVars == <<reservedStart, reservedEnd, nextToIssue>>
callVars == <<pc, node, current, proposedIn, value>>
vars == <<raftVars, fsmVars, loopVars, mu, blockVars, callVars>>

CallStates == {"new", "queued", "read", "waiting", "answered", "lost", "done", "failed"}

\* A reservation: the block [base, base + BlockSize) and the term it was proposed in.
Entry == [term : Nat \ {0}, base : Nat]

\* Mutant: NewCounterValue is the last value of the block.
EndInBlock(e) == e.base + BlockSize - 1

\* The NewCounterValue of a reservation, and the first value after its block.
End(e) == e.base + BlockSize

\* The counter a replica holds once it has applied the first i entries of the log.
CounterAt(i) == IF i = 0 THEN 0 ELSE End(log[i])

Init ==
    /\ log = <<>> /\ inflight = {} /\ term = 0
    /\ leaderTerm = [n \in Nodes |-> 0]
    /\ applied = [n \in Nodes |-> 0]
    /\ snapshot = [n \in Nodes |-> 0]
    /\ counter = [n \in Nodes |-> 0]
    /\ leaderCh = [n \in Nodes |-> "empty"]
    /\ labelLoop = [n \in Nodes |-> "start"]
    /\ mu = [n \in Nodes |-> None]
    /\ reservedStart = [n \in Nodes |-> 0]
    /\ reservedEnd = [n \in Nodes |-> 0]
    /\ nextToIssue = [n \in Nodes |-> 0]
    /\ pc = [c \in Calls |-> "new"]
    /\ node = [c \in Calls |-> None]
    /\ current = [c \in Calls |-> 0]
    /\ proposedIn = [c \in Calls |-> 0]
    /\ value = [c \in Calls |-> 0]

-----------------------------------------------------------------------------
(***************************************************************************)
(* hashicorp/raft                                                          *)
(***************************************************************************)

\* A node wins an election.  Its State() is Leader from here on, before its
\* FSM has applied what it was elected with; LeaderCh drops what it held.
Elect(n) ==
    /\ term < MaxTerm
    /\ leaderTerm[n] = 0
    /\ term' = term + 1
    /\ leaderTerm' = [leaderTerm EXCEPT ![n] = term + 1]
    /\ leaderCh' = [leaderCh EXCEPT ![n] = "leader"]
    /\ UNCHANGED <<log, inflight, labelLoop, fsmVars, mu, blockVars, callVars>>

\* The entry of call c is committed, whether or not its node applied it.
Committed(c) == \E i \in 1..Len(log) :
    log[i] = [term |-> proposedIn[c], base |-> current[c]]

\* The call on node n that waits for an entry of n's present leadership.
Awaiting(n, c) ==
    mu[n] = c /\ pc[c] = "waiting" /\ proposedIn[c] = leaderTerm[n]

\* A leader steps down.  A waiting Apply fails with ErrLeadershipLost; one
\* whose entry is already committed may instead stay to be answered.
StepDown(n) ==
    /\ leaderTerm[n] # 0
    /\ leaderTerm' = [leaderTerm EXCEPT ![n] = 0]
    /\ leaderCh' = [leaderCh EXCEPT ![n] = "follower"]
    /\ \/ /\ \A c \in Calls : Awaiting(n, c) => Committed(c)
          /\ UNCHANGED pc
       \/ \E c \in Calls :
            /\ Awaiting(n, c)
            /\ pc' = [pc EXCEPT ![c] = "lost"]
    /\ UNCHANGED <<log, inflight, term, labelLoop, fsmVars, mu, blockVars,
                   node, current, proposedIn, value>>

\* An entry commits: never after an entry of a later term.
Commit(e) ==
    /\ e \in inflight
    /\ \A i \in 1..Len(log) : log[i].term <= e.term
    /\ log' = Append(log, e)
    /\ inflight' = inflight \ {e}
    /\ UNCHANGED <<term, leaderTerm, fsmVars, loopVars, mu, blockVars, callVars>>

-----------------------------------------------------------------------------
(***************************************************************************)
(* The FSM of a node                                                       *)
(***************************************************************************)

\* FSM.applyReserveBlock sets the counter to the payload's absolute value and
\* the future of the call that proposed the entry is answered.  A leader hears
\* of entries of later terms only by stepping down.
ApplyReserveBlock(n) ==
    LET e == log[applied[n] + 1] IN
    /\ applied[n] < Len(log)
    /\ leaderTerm[n] # 0 => e.term <= leaderTerm[n]
    /\ counter' = [counter EXCEPT ![n] = End(e)]
    /\ applied' = [applied EXCEPT ![n] = @ + 1]
    /\ pc' = [c \in Calls |->
                IF mu[n] = c /\ pc[c] = "waiting" /\ proposedIn[c] = e.term
                THEN "answered" ELSE pc[c]]
    /\ UNCHANGED <<raftVars, snapshot, loopVars, mu, blockVars,
                   node, current, proposedIn, value>>

\* FSM.Snapshot and Persist: the snapshot holds the counter of this index.
TakeSnapshot(n) ==
    /\ applied[n] > snapshot[n]
    /\ snapshot' = [snapshot EXCEPT ![n] = applied[n]]
    /\ UNCHANGED <<raftVars, applied, counter, loopVars, mu, blockVars, callVars>>

\* The process crashes and starts again.  Everything in memory is lost and the
\* calls on it fail.  raft hands the latest snapshot to FSM.Restore, and with
\* none replays the log from its start into the SQLite file of before.
Restart(n) ==
    /\ leaderTerm' = [leaderTerm EXCEPT ![n] = 0]
    /\ applied' = [applied EXCEPT ![n] = snapshot[n]]
    /\ counter' = [counter EXCEPT ![n] =
                     IF snapshot[n] = 0 THEN @ ELSE CounterAt(snapshot[n])]
    /\ leaderCh' = [leaderCh EXCEPT ![n] = "empty"]
    /\ labelLoop' = [labelLoop EXCEPT ![n] = "start"]
    /\ mu' = [mu EXCEPT ![n] = None]
    /\ reservedStart' = [reservedStart EXCEPT ![n] = 0]
    /\ reservedEnd' = [reservedEnd EXCEPT ![n] = 0]
    /\ nextToIssue' = [nextToIssue EXCEPT ![n] = 0]
    /\ pc' = [c \in Calls |->
                IF node[c] = n /\ pc[c] \notin {"done", "failed"}
                THEN "failed" ELSE pc[c]]
    /\ UNCHANGED <<log, inflight, term, snapshot, node, current, proposedIn, value>>

-----------------------------------------------------------------------------
(***************************************************************************)
(* NextCounter and reserveBlock                                            *)
(***************************************************************************)

\* A request passes the handler's IsLeader check and calls NextCounter.
Call(c, n) ==
    /\ pc[c] = "new"
    /\ leaderTerm[n] # 0
    /\ pc' = [pc EXCEPT ![c] = "queued"]
    /\ node' = [node EXCEPT ![c] = n]
    /\ UNCHANGED <<raftVars, fsmVars, loopVars, mu, blockVars, current, proposedIn, value>>

\* The call gets mu on its node and finds the block not used up.
Issue(c) ==
    LET n == node[c] IN
    /\ pc[c] = "queued"
    /\ mu[n] = None
    /\ nextToIssue[n] < reservedEnd[n]
    /\ value' = [value EXCEPT ![c] = nextToIssue[n]]
    /\ nextToIssue' = [nextToIssue EXCEPT ![n] = @ + 1]
    /\ pc' = [pc EXCEPT ![c] = "done"]
    /\ UNCHANGED <<raftVars, fsmVars, loopVars, mu, reservedStart, reservedEnd,
                   node, current, proposedIn>>

\* Mutant: the counter is read before mu is locked.
ReadCounterUnlocked(c) ==
    LET n == node[c] IN
    /\ pc[c] = "queued"
    /\ nextToIssue[n] >= reservedEnd[n]
    /\ mu' = [mu EXCEPT ![n] = c]
    /\ current' = [current EXCEPT ![c] = counter[n]]
    /\ pc' = [pc EXCEPT ![c] = "read"]
    /\ UNCHANGED <<raftVars, fsmVars, loopVars, blockVars, node, proposedIn, value>>

\* The call gets mu, finds the block used up and reads the counter from the
\* node's own SQLite file.
ReadCounter(c) ==
    LET n == node[c] IN
    /\ pc[c] = "queued"
    /\ mu[n] = None
    /\ nextToIssue[n] >= reservedEnd[n]
    /\ mu' = [mu EXCEPT ![n] = c]
    /\ current' = [current EXCEPT ![c] = counter[n]]
    /\ pc' = [pc EXCEPT ![c] = "read"]
    /\ UNCHANGED <<raftVars, fsmVars, loopVars, blockVars, node, proposedIn, value>>

\* raft.Apply takes the reservation into the leader's log.  The next leader was
\* elected without it if it is proposed after that election: then it never commits.
Propose(c) ==
    LET t == leaderTerm[node[c]] IN
    /\ pc[c] = "read"
    /\ t # 0
    /\ proposedIn' = [proposedIn EXCEPT ![c] = t]
    /\ inflight' = IF t = term
                   THEN inflight \cup {[term |-> t, base |-> current[c]]}
                   ELSE inflight
    /\ pc' = [pc EXCEPT ![c] = "waiting"]
    /\ UNCHANGED <<log, term, leaderTerm, fsmVars, loopVars, mu, blockVars,
                   node, current, value>>

\* Mutant: the call stops waiting when the request's context ends.
ProposeAbandoned(c) ==
    /\ pc[c] \in {"read", "waiting"}
    /\ pc' = [pc EXCEPT ![c] = "failed"]
    /\ mu' = [mu EXCEPT ![node[c]] = None]
    /\ UNCHANGED <<raftVars, fsmVars, loopVars, blockVars, node, current, proposedIn, value>>

\* raft.Apply fails before the entry exists: ErrNotLeader or ErrEnqueueTimeout.
\* reserveBlock and NextCounter return the error and mu is released.
ProposeFails(c) ==
    /\ pc[c] = "read"
    /\ pc' = [pc EXCEPT ![c] = "failed"]
    /\ mu' = [mu EXCEPT ![node[c]] = None]
    /\ UNCHANGED <<raftVars, fsmVars, loopVars, blockVars, node, current, proposedIn, value>>

\* Mutant: the return after a successful reservation does not unlock mu.
ReservedLocked(c) ==
    LET n == node[c] IN
    /\ pc[c] = "answered"
    /\ reservedStart' = [reservedStart EXCEPT ![n] = current[c]]
    /\ reservedEnd' = [reservedEnd EXCEPT ![n] = current[c] + BlockSize]
    /\ nextToIssue' = [nextToIssue EXCEPT ![n] = current[c] + 1]
    /\ value' = [value EXCEPT ![c] = current[c]]
    /\ pc' = [pc EXCEPT ![c] = "done"]
    /\ UNCHANGED <<raftVars, fsmVars, loopVars, mu, node, current, proposedIn>>

\* Mutant: the value that is returned stays the next one to issue.
ReservedUncounted(c) ==
    LET n == node[c] IN
    /\ pc[c] = "answered"
    /\ reservedStart' = [reservedStart EXCEPT ![n] = current[c]]
    /\ reservedEnd' = [reservedEnd EXCEPT ![n] = current[c] + BlockSize]
    /\ nextToIssue' = [nextToIssue EXCEPT ![n] = current[c]]
    /\ value' = [value EXCEPT ![c] = current[c]]
    /\ pc' = [pc EXCEPT ![c] = "done"]
    /\ mu' = [mu EXCEPT ![n] = None]
    /\ UNCHANGED <<raftVars, fsmVars, loopVars, node, current, proposedIn>>

\* The future was answered: reserveBlock installs the block and NextCounter
\* returns its first value.
Reserved(c) ==
    LET n == node[c] IN
    /\ pc[c] = "answered"
    /\ reservedStart' = [reservedStart EXCEPT ![n] = current[c]]
    /\ reservedEnd' = [reservedEnd EXCEPT ![n] = current[c] + BlockSize]
    /\ nextToIssue' = [nextToIssue EXCEPT ![n] = current[c] + 1]
    /\ value' = [value EXCEPT ![c] = current[c]]
    /\ pc' = [pc EXCEPT ![c] = "done"]
    /\ mu' = [mu EXCEPT ![n] = None]
    /\ UNCHANGED <<raftVars, fsmVars, loopVars, node, current, proposedIn>>

\* Mutant: the error return does not unlock mu.
ReserveFailsLocked(c) ==
    /\ pc[c] = "lost"
    /\ pc' = [pc EXCEPT ![c] = "failed"]
    /\ UNCHANGED <<raftVars, fsmVars, loopVars, mu, blockVars, node, current, proposedIn, value>>

\* Mutant: the block is installed before the error of the future is looked at.
ReserveFailsInstalls(c) ==
    LET n == node[c] IN
    /\ pc[c] = "lost"
    /\ reservedStart' = [reservedStart EXCEPT ![n] = current[c]]
    /\ reservedEnd' = [reservedEnd EXCEPT ![n] = current[c] + BlockSize]
    /\ nextToIssue' = [nextToIssue EXCEPT ![n] = current[c] + 1]
    /\ pc' = [pc EXCEPT ![c] = "failed"]
    /\ mu' = [mu EXCEPT ![n] = None]
    /\ UNCHANGED <<raftVars, fsmVars, loopVars, node, current, proposedIn, value>>

\* The future failed with ErrLeadershipLost: the block is not installed.
ReserveFails(c) ==
    /\ pc[c] = "lost"
    /\ pc' = [pc EXCEPT ![c] = "failed"]
    /\ mu' = [mu EXCEPT ![node[c]] = None]
    /\ UNCHANGED <<raftVars, fsmVars, loopVars, blockVars, node, current, proposedIn, value>>

-----------------------------------------------------------------------------
(***************************************************************************)
(* leaderLabelLoop: what it does to the block                              *)
(***************************************************************************)

\* The first call of updateRaftRoleLabel, with what IsLeader says at startup.
StartLabelLoop(n) ==
    /\ labelLoop[n] = "start"
    /\ labelLoop' = [labelLoop EXCEPT ![n] =
                       IF leaderTerm[n] # 0 THEN "reset" ELSE "receive"]
    /\ UNCHANGED <<raftVars, fsmVars, leaderCh, mu, blockVars, callVars>>

\* The loop takes a notification; only becoming leader leads to the reset.
ReceiveLeaderCh(n) ==
    /\ labelLoop[n] = "receive"
    /\ leaderCh[n] # "empty"
    /\ leaderCh' = [leaderCh EXCEPT ![n] = "empty"]
    /\ labelLoop' = [labelLoop EXCEPT ![n] =
                       IF leaderCh[n] = "leader" THEN "reset" ELSE "receive"]
    /\ UNCHANGED <<raftVars, fsmVars, mu, blockVars, callVars>>

\* The reset under mu, which may come long after the notification.
ResetBlock(n) ==
    /\ labelLoop[n] = "reset"
    /\ mu[n] = None
    /\ reservedStart' = [reservedStart EXCEPT ![n] = 0]
    /\ reservedEnd' = [reservedEnd EXCEPT ![n] = 0]
    /\ nextToIssue' = [nextToIssue EXCEPT ![n] = 0]
    /\ labelLoop' = [labelLoop EXCEPT ![n] = "receive"]
    /\ UNCHANGED <<raftVars, fsmVars, leaderCh, mu, callVars>>

-----------------------------------------------------------------------------
RaftStep ==
    \/ \E n \in Nodes : Elect(n) \/ StepDown(n)
    \/ \E e \in inflight : Commit(e)

NodeStep(n) ==
    \/ ApplyReserveBlock(n) \/ TakeSnapshot(n) \/ Restart(n)
    \/ StartLabelLoop(n) \/ ReceiveLeaderCh(n) \/ ResetBlock(n)

CallStep(c) ==
    \/ \E n \in Nodes : Call(c, n)
    \/ Issue(c) \/ ReadCounter(c)
    \/ Propose(c) \/ ProposeFails(c) \/ Reserved(c) \/ ReserveFails(c)

Next ==
    \/ RaftStep
    \/ \E n \in Nodes : NodeStep(n)
    \/ \E c \in Calls : CallStep(c)

Spec == Init /\ [][Next]_vars

(***************************************************************************)
(* Fairness: goroutines run, the FSM applies what is committed, a current  *)
(* leader's entries commit, and a leader that was superseded finds out.    *)
(***************************************************************************)
Superseded(n) == leaderTerm[n] # 0 /\ leaderTerm[n] < term

Fairness ==
    /\ \A n \in Nodes :
         /\ WF_vars(ApplyReserveBlock(n))
         /\ WF_vars(Superseded(n) /\ StepDown(n))
         /\ WF_vars(\E e \in inflight : e.term = leaderTerm[n] /\ Commit(e))
    /\ \A c \in Calls :
         /\ WF_vars(Issue(c) \/ ReadCounter(c))
         /\ WF_vars(Propose(c) \/ ProposeFails(c))
         /\ WF_vars(Reserved(c) \/ ReserveFails(c))

FairSpec == Spec /\ Fairness

(***************************************************************************)
(* Properties                                                              *)
(***************************************************************************)

\* Every variable has its type.
TypeOK ==
    /\ log \in Seq(Entry)
    /\ inflight \subseteq Entry
    /\ term \in 0..MaxTerm
    /\ leaderTerm \in [Nodes -> 0..MaxTerm]
    /\ applied \in [Nodes -> Nat]
    /\ snapshot \in [Nodes -> Nat]
    /\ counter \in [Nodes -> Nat]
    /\ leaderCh \in [Nodes -> {"empty", "leader", "follower"}]
    /\ labelLoop \in [Nodes -> {"start", "receive", "reset"}]
    /\ mu \in [Nodes -> Calls \cup {None}]
    /\ reservedStart \in [Nodes -> Nat]
    /\ reservedEnd \in [Nodes -> Nat]
    /\ nextToIssue \in [Nodes -> Nat]
    /\ pc \in [Calls -> CallStates]
    /\ node \in [Calls -> Nodes \cup {None}]
    /\ current \in [Calls -> Nat]
    /\ proposedIn \in [Calls -> 0..MaxTerm]
    /\ value \in [Calls -> Nat]

\* Within one term the committed blocks follow each other without overlap and
\* without a gap: a leader reads the counter for its next block (cluster.go:228)
\* only after its FSM applied the block before, whatever else happens between.
TermBlocksContiguous ==
    \A i \in 1..Len(log) :
        (i > 1 /\ log[i].term = log[i-1].term) => log[i].base = End(log[i-1])

\* The i-th reservation was computed from the counter it replaces.
Fresh(i) == log[i].base = CounterAt(i-1)

AllFresh == \A i \in 1..Len(log) : Fresh(i)

\* As long as no reservation was computed from a stale counter, no two calls of
\* NextCounter return the same value: not across nodes, not across a step-down
\* with a proposal in flight, a re-election before the label loop's reset, a
\* late reset, or a restart that replays the log (cluster.go:213-247, 511-516).
UniqueUnlessStale ==
    AllFresh => \A c, d \in Calls :
        (c # d /\ pc[c] = "done" /\ pc[d] = "done") => value[c] # value[d]

\* What a node hands out (cluster.go:222) lies in a block that was committed: a
\* reservation that failed or was lost is never used (cluster.go:235-241).
IssuedFromCommittedBlock ==
    \A n \in Nodes : nextToIssue[n] < reservedEnd[n] =>
        \E i \in 1..Len(log) :
            /\ reservedStart[n] = log[i].base
            /\ reservedEnd[n] = End(log[i])
            /\ nextToIssue[n] > log[i].base

\* mu is never held for ever: each call that took it to reserve a block returns
\* it, with the block or with an error (cluster.go:213-220).
MutexReleased == \A n \in Nodes, c \in Calls : (mu[n] = c) ~> (mu[n] # c)

\* Every call of NextCounter returns (cluster.go:213-225).
CallsReturn == \A c \in Calls : (pc[c] = "queued") ~> (pc[c] \in {"done", "failed"})

\* The values that calls of NextCounter have returned.
Given == {[call |-> c, value |-> value[c]] : c \in {d \in Calls : pc[d] = "done"}}

Promised == INSTANCE CounterDispenser WITH
    Terms <- 1..MaxTerm,
    blocks <- log,
    given <- Given

\* Elections, mutexes, lagging FSMs and restarts are seen from outside as blocks
\* that are reserved and values that are given out of them: each block starts
\* where an earlier one ended (cluster.go:228-233), and no value is returned more
\* often than committed blocks have it (cluster.go:213-247), stale or not.
ImplementsDispenser == Promised!Spec

(***************************************************************************)
(* What the documentation says and the code does not do                    *)
(***************************************************************************)

\* TEACHING.md:141-143: the new leader reserves a fresh block and "uniqueness
\* is what matters": no value is returned twice.
ValuesUnique ==
    \A c, d \in Calls :
        (c # d /\ pc[c] = "done" /\ pc[d] = "done") => value[c] # value[d]
=============================================================================
