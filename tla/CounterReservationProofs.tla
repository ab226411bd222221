--------------------- MODULE CounterReservationProofs ---------------------
(***************************************************************************)
(* Theorems about CounterReservation, for every value of its constants.    *)
(***************************************************************************)
EXTENDS CounterInvariants, FiniteSetTheorems, TLAPS

USE BlockSizeAssumption, MaxTermAssumption, NoneAssumption

----------------------------------------------------------------------------
(***************************************************************************)
(* Types                                                                   *)
(***************************************************************************)

\* End and CounterAt are natural numbers on the committed log.
LEMMA EndType == \A e \in Entry : End(e) \in Nat /\ End(e) > e.base
  BY DEF Entry, End

LEMMA CounterAtType ==
  ASSUME TypeOK, NEW i \in 0..Len(log)
  PROVE  CounterAt(i) \in Nat
<1>1. CASE i = 0
  BY <1>1 DEF CounterAt
<1>2. CASE i # 0
  <2>1. log[i] \in Entry
    BY <1>2 DEF TypeOK
  <2> QED BY <1>2, <2>1, EndType DEF CounterAt
<1> QED BY <1>1, <1>2

\* Every step keeps the types, given that a node never applies past the log.
LEMMA TypeStep ==
  ASSUME TypeOK, FsmInv, MutexInv, [Next]_vars
  PROVE  TypeOK'
<1> USE DEF CallStates
<1>1. ASSUME NEW n \in Nodes, Elect(n) PROVE TypeOK'
  <2>1. /\ term' \in 0..MaxTerm
        /\ leaderTerm' \in [Nodes -> 0..MaxTerm]
        /\ leaderCh' \in [Nodes -> {"empty", "leader", "follower"}]
    BY <1>1, MaxTermAssumption DEF TypeOK, Elect
  <2> QED BY <1>1, <2>1 DEF TypeOK, Elect, fsmVars, blockVars, callVars
<1>2. ASSUME NEW n \in Nodes, StepDown(n) PROVE TypeOK'
  <2>1. pc' \in [Calls -> CallStates]
    BY <1>2 DEF TypeOK, StepDown
  <2>2. leaderTerm' \in [Nodes -> 0..MaxTerm]
    BY <1>2 DEF TypeOK, StepDown
  <2>3. leaderCh' \in [Nodes -> {"empty", "leader", "follower"}]
    BY <1>2 DEF TypeOK, StepDown
  <2> QED BY <1>2, <2>1, <2>2, <2>3 DEF TypeOK, StepDown, fsmVars, blockVars
<1>3. ASSUME NEW e \in inflight, Commit(e) PROVE TypeOK'
  BY <1>3 DEF TypeOK, Commit, fsmVars, loopVars, blockVars, callVars
<1>4. ASSUME NEW n \in Nodes, ApplyReserveBlock(n) PROVE TypeOK'
  <2>1. log[applied[n] + 1] \in Entry
    BY <1>4 DEF TypeOK, ApplyReserveBlock
  <2>2. End(log[applied[n] + 1]) \in Nat
    BY <2>1, EndType
  <2>3. counter' \in [Nodes -> Nat] /\ applied' \in [Nodes -> Nat]
    BY <1>4, <2>2 DEF TypeOK, ApplyReserveBlock
  <2>4. pc' \in [Calls -> CallStates]
    BY <1>4 DEF TypeOK, ApplyReserveBlock
  <2> QED BY <1>4, <2>3, <2>4 DEF TypeOK, ApplyReserveBlock, raftVars, loopVars, blockVars
<1>5. ASSUME NEW n \in Nodes, TakeSnapshot(n) PROVE TypeOK'
  BY <1>5 DEF TypeOK, TakeSnapshot, raftVars, loopVars, blockVars, callVars
<1>6. ASSUME NEW n \in Nodes, Restart(n) PROVE TypeOK'
  <2>1. snapshot[n] \in 0..Len(log)
    BY DEF TypeOK, FsmInv
  <2>2. CounterAt(snapshot[n]) \in Nat
    BY <2>1, CounterAtType
  <2>3. counter' \in [Nodes -> Nat]
    BY <1>6, <2>2 DEF TypeOK, Restart
  <2>4. pc' \in [Calls -> CallStates]
    BY <1>6 DEF TypeOK, Restart
  <2> QED BY <1>6, <2>3, <2>4 DEF TypeOK, Restart
<1>7. ASSUME NEW n \in Nodes, StartLabelLoop(n) PROVE TypeOK'
  BY <1>7 DEF TypeOK, StartLabelLoop, raftVars, fsmVars, blockVars, callVars
<1>8. ASSUME NEW n \in Nodes, ReceiveLeaderCh(n) PROVE TypeOK'
  BY <1>8 DEF TypeOK, ReceiveLeaderCh, raftVars, fsmVars, blockVars, callVars
<1>9. ASSUME NEW n \in Nodes, ResetBlock(n) PROVE TypeOK'
  BY <1>9 DEF TypeOK, ResetBlock, raftVars, fsmVars, callVars
<1>10. ASSUME NEW c \in Calls, NEW n \in Nodes, Call(c, n) PROVE TypeOK'
  BY <1>10 DEF TypeOK, Call, raftVars, fsmVars, loopVars, blockVars
<1>11. ASSUME NEW c \in Calls, Issue(c) PROVE TypeOK'
  <2>1. node[c] \in Nodes
    BY <1>11 DEF MutexInv, Issue
  <2>2. value' \in [Calls -> Nat] /\ nextToIssue' \in [Nodes -> Nat]
    BY <1>11, <2>1 DEF TypeOK, Issue
  <2>3. pc' \in [Calls -> CallStates]
    BY <1>11 DEF TypeOK, Issue
  <2> QED BY <1>11, <2>2, <2>3 DEF TypeOK, Issue, raftVars, fsmVars, loopVars
<1>12. ASSUME NEW c \in Calls, ReadCounter(c) PROVE TypeOK'
  BY <1>12 DEF TypeOK, ReadCounter, MutexInv, raftVars, fsmVars, loopVars, blockVars
<1>13. ASSUME NEW c \in Calls, Propose(c) PROVE TypeOK'
  <2>1. node[c] \in Nodes
    BY <1>13 DEF MutexInv, Reserving, Propose
  <2>2. inflight' \subseteq Entry
    BY <1>13, <2>1 DEF TypeOK, Propose, Entry
  <2> QED BY <1>13, <2>1, <2>2 DEF TypeOK, Propose, fsmVars, loopVars, blockVars
<1>14. ASSUME NEW c \in Calls, ProposeFails(c) PROVE TypeOK'
  BY <1>14 DEF TypeOK, ProposeFails, raftVars, fsmVars, loopVars, blockVars
<1>15. ASSUME NEW c \in Calls, Reserved(c) PROVE TypeOK'
  <2>0. /\ current[c] \in Nat
        /\ current[c] + 1 \in Nat
        /\ current[c] + BlockSize \in Nat
    BY DEF TypeOK
  <2>1. /\ reservedStart' \in [Nodes -> Nat]
        /\ reservedEnd' \in [Nodes -> Nat]
        /\ nextToIssue' \in [Nodes -> Nat]
    BY <1>15, <2>0 DEF TypeOK, Reserved
  <2>2. value' \in [Calls -> Nat] /\ pc' \in [Calls -> CallStates]
    BY <1>15 DEF TypeOK, Reserved
  <2>3. mu' \in [Nodes -> Calls \cup {None}]
    BY <1>15 DEF TypeOK, Reserved
  <2> QED BY <1>15, <2>1, <2>2, <2>3 DEF TypeOK, Reserved, raftVars, fsmVars, loopVars
<1>16. ASSUME NEW c \in Calls, ReserveFails(c) PROVE TypeOK'
  BY <1>16 DEF TypeOK, ReserveFails, raftVars, fsmVars, loopVars, blockVars
<1>17. ASSUME UNCHANGED vars PROVE TypeOK'
  BY <1>17 DEF TypeOK, vars, raftVars, fsmVars, loopVars, blockVars, callVars
<1> QED
  BY <1>1, <1>2, <1>3, <1>4, <1>5, <1>6, <1>7, <1>8, <1>9, <1>10, <1>11, <1>12,
     <1>13, <1>14, <1>15, <1>16, <1>17 DEF Next, RaftStep, NodeStep, CallStep

----------------------------------------------------------------------------
(***************************************************************************)
(* What the variables hold and what each step does, element by element     *)
(***************************************************************************)

LEMMA LogTypes ==
  ASSUME TypeOK
  PROVE  /\ Len(log) \in Nat
         /\ \A i \in 1..Len(log) : /\ log[i] \in Entry
                                   /\ log[i].term \in Nat /\ log[i].term > 0
                                   /\ log[i].base \in Nat /\ End(log[i]) \in Nat
                                   /\ End(log[i]) > log[i].base
         /\ \A e \in inflight : /\ e \in Entry
                                /\ e.term \in Nat /\ e.term > 0
                                /\ e.base \in Nat /\ End(e) \in Nat /\ End(e) > e.base
<1>1. \A i \in 1..Len(log) : log[i] \in Entry
  BY DEF TypeOK
<1>2. \A e \in Entry : e.term \in Nat /\ e.term > 0 /\ e.base \in Nat
  BY DEF Entry
<1>3. Len(log) \in Nat /\ inflight \subseteq Entry
  BY DEF TypeOK
<1> QED BY <1>1, <1>2, <1>3, EndType

LEMMA NodeTypes ==
  ASSUME TypeOK
  PROVE  /\ term \in Nat
         /\ \A n \in Nodes : /\ leaderTerm[n] \in Nat /\ applied[n] \in Nat
                             /\ snapshot[n] \in Nat /\ counter[n] \in Nat
                             /\ reservedStart[n] \in Nat /\ reservedEnd[n] \in Nat
                             /\ nextToIssue[n] \in Nat
                             /\ mu[n] \in Calls \cup {None}
  BY DEF TypeOK

LEMMA CallTypes ==
  ASSUME TypeOK
  PROVE  \A c \in Calls : /\ current[c] \in Nat /\ proposedIn[c] \in Nat
                          /\ value[c] \in Nat
                          /\ node[c] \in Nodes \cup {None}
  BY DEF TypeOK

LEMMA ElectEffect ==
  ASSUME TypeOK, NEW n \in Nodes, Elect(n)
  PROVE  /\ term' = term + 1 /\ leaderTerm'[n] = term + 1
         /\ \A m \in Nodes : m # n => leaderTerm'[m] = leaderTerm[m]
         /\ UNCHANGED <<log, inflight, applied, snapshot, counter, mu, blockVars,
                        pc, node, current, proposedIn, value>>
  BY DEF TypeOK, Elect, fsmVars, callVars

LEMMA StepDownEffect ==
  ASSUME TypeOK, NEW n \in Nodes, StepDown(n)
  PROVE  /\ leaderTerm[n] # 0 /\ leaderTerm'[n] = 0
         /\ \A m \in Nodes : m # n => leaderTerm'[m] = leaderTerm[m]
         /\ \/ pc' = pc
            \/ \E c \in Calls :
                 /\ mu[n] = c /\ pc[c] = "waiting" /\ pc'[c] = "lost"
                 /\ \A d \in Calls : d # c => pc'[d] = pc[d]
         /\ UNCHANGED <<log, inflight, term, applied, snapshot, counter, mu, blockVars,
                        node, current, proposedIn, value>>
<1>1. pc' = pc \/ \E c \in Calls : Awaiting(n, c) /\ pc' = [pc EXCEPT ![c] = "lost"]
  BY DEF StepDown
<1>2. leaderTerm[n] # 0 /\ leaderTerm' = [leaderTerm EXCEPT ![n] = 0]
  BY DEF StepDown
<1>3. UNCHANGED <<log, inflight, term, applied, snapshot, counter, mu, blockVars,
                  node, current, proposedIn, value>>
  BY DEF StepDown, fsmVars
<1> QED BY <1>1, <1>2, <1>3 DEF TypeOK, Awaiting

LEMMA CommitEffect ==
  ASSUME TypeOK, NEW e \in inflight, Commit(e)
  PROVE  /\ Len(log') = Len(log) + 1
         /\ \A i \in 1..Len(log) : log'[i] = log[i] /\ log[i].term <= e.term
         /\ log'[Len(log) + 1] = e
         /\ inflight' = inflight \ {e}
         /\ UNCHANGED <<term, leaderTerm, applied, snapshot, counter, mu, blockVars,
                        pc, node, current, proposedIn, value>>
<1>1. log' = Append(log, e) /\ log \in Seq(Entry) /\ e \in Entry
  BY DEF TypeOK, Commit
<1>2. \A i \in 1..Len(log) : log[i].term <= e.term
  BY DEF Commit
<1>3. /\ inflight' = inflight \ {e}
      /\ UNCHANGED <<term, leaderTerm, applied, snapshot, counter, mu, blockVars,
                     pc, node, current, proposedIn, value>>
  BY DEF Commit, fsmVars, callVars
<1>4. /\ Len(log') = Len(log) + 1
      /\ \A i \in 1..Len(log) : log'[i] = log[i]
      /\ log'[Len(log) + 1] = e
  BY <1>1
<1> QED BY <1>2, <1>3, <1>4

LEMMA ApplyEffect ==
  ASSUME TypeOK, NEW n \in Nodes, ApplyReserveBlock(n)
  PROVE  /\ applied[n] < Len(log) /\ applied'[n] = applied[n] + 1
         /\ leaderTerm[n] # 0 => log[applied[n] + 1].term <= leaderTerm[n]
         /\ counter'[n] = End(log[applied[n] + 1])
         /\ \A m \in Nodes : m # n => applied'[m] = applied[m] /\ counter'[m] = counter[m]
         /\ \A c \in Calls :
              pc'[c] = IF mu[n] = c /\ pc[c] = "waiting"
                            /\ proposedIn[c] = log[applied[n] + 1].term
                       THEN "answered" ELSE pc[c]
         /\ UNCHANGED <<log, inflight, term, leaderTerm, snapshot, mu, blockVars,
                        node, current, proposedIn, value>>
  BY DEF TypeOK, ApplyReserveBlock, raftVars

LEMMA SnapshotEffect ==
  ASSUME TypeOK, NEW n \in Nodes, TakeSnapshot(n)
  PROVE  /\ snapshot'[n] = applied[n]
         /\ \A m \in Nodes : m # n => snapshot'[m] = snapshot[m]
         /\ UNCHANGED <<log, inflight, term, leaderTerm, applied, counter, mu, blockVars,
                        pc, node, current, proposedIn, value>>
  BY DEF TypeOK, TakeSnapshot, raftVars, callVars

LEMMA RestartEffect ==
  ASSUME TypeOK, NEW n \in Nodes, Restart(n)
  PROVE  /\ leaderTerm'[n] = 0 /\ applied'[n] = snapshot[n] /\ mu'[n] = None
         /\ counter'[n] = IF snapshot[n] = 0 THEN counter[n] ELSE CounterAt(snapshot[n])
         /\ reservedStart'[n] = 0 /\ reservedEnd'[n] = 0 /\ nextToIssue'[n] = 0
         /\ \A m \in Nodes : m # n =>
              /\ leaderTerm'[m] = leaderTerm[m] /\ applied'[m] = applied[m]
              /\ counter'[m] = counter[m] /\ mu'[m] = mu[m]
              /\ reservedStart'[m] = reservedStart[m]
              /\ reservedEnd'[m] = reservedEnd[m]
              /\ nextToIssue'[m] = nextToIssue[m]
         /\ \A c \in Calls :
              pc'[c] = IF node[c] = n /\ pc[c] \notin {"done", "failed"}
                       THEN "failed" ELSE pc[c]
         /\ UNCHANGED <<log, inflight, term, snapshot, node, current, proposedIn, value>>
  BY DEF TypeOK, Restart

LEMMA ResetEffect ==
  ASSUME TypeOK, NEW n \in Nodes, ResetBlock(n)
  PROVE  /\ reservedStart'[n] = 0 /\ reservedEnd'[n] = 0 /\ nextToIssue'[n] = 0
         /\ \A m \in Nodes : m # n =>
              /\ reservedStart'[m] = reservedStart[m]
              /\ reservedEnd'[m] = reservedEnd[m]
              /\ nextToIssue'[m] = nextToIssue[m]
         /\ UNCHANGED <<log, inflight, term, leaderTerm, applied, snapshot, counter, mu,
                        pc, node, current, proposedIn, value>>
  BY DEF TypeOK, ResetBlock, raftVars, fsmVars, callVars

LEMMA CallEffect ==
  ASSUME TypeOK, NEW c \in Calls, NEW n \in Nodes, Call(c, n)
  PROVE  /\ pc[c] = "new" /\ pc'[c] = "queued" /\ node'[c] = n
         /\ \A d \in Calls : d # c => pc'[d] = pc[d] /\ node'[d] = node[d]
         /\ UNCHANGED <<log, inflight, term, leaderTerm, applied, snapshot, counter, mu,
                        blockVars, current, proposedIn, value>>
  BY DEF TypeOK, Call, raftVars, fsmVars

LEMMA IssueEffect ==
  ASSUME TypeOK, MutexInv, NEW c \in Calls, Issue(c)
  PROVE  /\ node[c] \in Nodes
         /\ pc[c] = "queued" /\ pc'[c] = "done" /\ mu[node[c]] = None
         /\ nextToIssue[node[c]] < reservedEnd[node[c]]
         /\ value'[c] = nextToIssue[node[c]]
         /\ nextToIssue'[node[c]] = nextToIssue[node[c]] + 1
         /\ \A m \in Nodes : m # node[c] => nextToIssue'[m] = nextToIssue[m]
         /\ \A d \in Calls : d # c => pc'[d] = pc[d] /\ value'[d] = value[d]
         /\ UNCHANGED <<log, inflight, term, leaderTerm, applied, snapshot, counter, mu,
                        reservedStart, reservedEnd, node, current, proposedIn>>
<1>1. node[c] \in Nodes
  BY DEF Issue, MutexInv
<1> QED BY <1>1 DEF TypeOK, Issue, raftVars, fsmVars

LEMMA ReadEffect ==
  ASSUME TypeOK, MutexInv, NEW c \in Calls, ReadCounter(c)
  PROVE  /\ node[c] \in Nodes
         /\ pc[c] = "queued" /\ pc'[c] = "read"
         /\ mu[node[c]] = None /\ mu'[node[c]] = c
         /\ current'[c] = counter[node[c]]
         /\ \A m \in Nodes : m # node[c] => mu'[m] = mu[m]
         /\ \A d \in Calls : d # c => pc'[d] = pc[d] /\ current'[d] = current[d]
         /\ UNCHANGED <<log, inflight, term, leaderTerm, applied, snapshot, counter,
                        blockVars, node, proposedIn, value>>
<1>1. node[c] \in Nodes
  BY DEF ReadCounter, MutexInv
<1> QED BY <1>1 DEF TypeOK, ReadCounter, raftVars, fsmVars

LEMMA ProposeEffect ==
  ASSUME TypeOK, MutexInv, NEW c \in Calls, Propose(c)
  PROVE  /\ node[c] \in Nodes /\ mu[node[c]] = c
         /\ pc[c] = "read" /\ pc'[c] = "waiting"
         /\ leaderTerm[node[c]] # 0 /\ proposedIn'[c] = leaderTerm[node[c]]
         /\ inflight' = IF leaderTerm[node[c]] = term
                        THEN inflight \cup {[term |-> leaderTerm[node[c]], base |-> current[c]]}
                        ELSE inflight
         /\ \A d \in Calls : d # c => pc'[d] = pc[d] /\ proposedIn'[d] = proposedIn[d]
         /\ UNCHANGED <<log, term, leaderTerm, applied, snapshot, counter, mu,
                        blockVars, node, current, value>>
<1>1. node[c] \in Nodes /\ mu[node[c]] = c
  BY DEF Propose, MutexInv, Reserving
<1> QED BY <1>1 DEF TypeOK, Propose, fsmVars

\* ProposeFails and ReserveFails: the call fails and lets go of mu.
LEMMA FailEffect ==
  ASSUME TypeOK, MutexInv, NEW c \in Calls, ProposeFails(c) \/ ReserveFails(c)
  PROVE  /\ node[c] \in Nodes /\ mu[node[c]] = c /\ mu'[node[c]] = None
         /\ Reserving(c) /\ pc'[c] = "failed"
         /\ \A m \in Nodes : m # node[c] => mu'[m] = mu[m]
         /\ \A d \in Calls : d # c => pc'[d] = pc[d]
         /\ UNCHANGED <<log, inflight, term, leaderTerm, applied, snapshot, counter,
                        blockVars, node, current, proposedIn, value>>
<1>1. node[c] \in Nodes /\ mu[node[c]] = c /\ Reserving(c)
  BY DEF ProposeFails, ReserveFails, MutexInv, Reserving
<1> QED BY <1>1 DEF TypeOK, ProposeFails, ReserveFails, raftVars, fsmVars

LEMMA ReservedEffect ==
  ASSUME TypeOK, MutexInv, NEW c \in Calls, Reserved(c)
  PROVE  /\ node[c] \in Nodes /\ mu[node[c]] = c /\ mu'[node[c]] = None
         /\ pc[c] = "answered" /\ pc'[c] = "done" /\ value'[c] = current[c]
         /\ reservedStart'[node[c]] = current[c]
         /\ reservedEnd'[node[c]] = current[c] + BlockSize
         /\ nextToIssue'[node[c]] = current[c] + 1
         /\ \A m \in Nodes : m # node[c] =>
              /\ mu'[m] = mu[m] /\ reservedStart'[m] = reservedStart[m]
              /\ reservedEnd'[m] = reservedEnd[m] /\ nextToIssue'[m] = nextToIssue[m]
         /\ \A d \in Calls : d # c => pc'[d] = pc[d] /\ value'[d] = value[d]
         /\ UNCHANGED <<log, inflight, term, leaderTerm, applied, snapshot, counter,
                        node, current, proposedIn>>
<1>1. node[c] \in Nodes /\ mu[node[c]] = c
  BY DEF Reserved, MutexInv, Reserving
<1> QED BY <1>1 DEF TypeOK, Reserved, raftVars, fsmVars

\* The variables the invariants below speak of.
core == <<log, inflight, term, leaderTerm, applied, snapshot, counter, mu, blockVars,
          pc, node, current, proposedIn, value>>

\* Every step is one of these.
LEMMA StepCases ==
  ASSUME [Next]_vars
  PROVE  \/ \E n \in Nodes : Elect(n)
         \/ \E n \in Nodes : StepDown(n)
         \/ \E e \in inflight : Commit(e)
         \/ \E n \in Nodes : ApplyReserveBlock(n)
         \/ \E n \in Nodes : TakeSnapshot(n)
         \/ \E n \in Nodes : Restart(n)
         \/ \E n \in Nodes : ResetBlock(n)
         \/ \E c \in Calls, n \in Nodes : Call(c, n)
         \/ \E c \in Calls : Issue(c)
         \/ \E c \in Calls : ReadCounter(c)
         \/ \E c \in Calls : Propose(c)
         \/ \E c \in Calls : ProposeFails(c) \/ ReserveFails(c)
         \/ \E c \in Calls : Reserved(c)
         \/ UNCHANGED core
<1>1. \A n \in Nodes : StartLabelLoop(n) \/ ReceiveLeaderCh(n) => UNCHANGED core
  BY DEF StartLabelLoop, ReceiveLeaderCh, core, raftVars, fsmVars, callVars
<1>2. UNCHANGED vars => UNCHANGED core
  BY DEF vars, core, raftVars, fsmVars, callVars
<1> QED BY <1>1, <1>2 DEF Next, RaftStep, NodeStep, CallStep

----------------------------------------------------------------------------
(***************************************************************************)
(* Terms, the FSM and the mutex                                            *)
(***************************************************************************)

LEMMA TermStep ==
  ASSUME TypeOK, TermInv, MutexInv, [Next]_vars
  PROVE  TermInv'
<1>0. /\ \A i \in 1..Len(log) : log[i].term <= term
      /\ \A e \in inflight : e.term <= term
      /\ \A n \in Nodes : leaderTerm[n] <= term
      /\ \A m, n \in Nodes : leaderTerm[m] = leaderTerm[n] /\ leaderTerm[n] # 0 => m = n
      /\ \A i, j \in 1..Len(log) : i <= j => log[i].term <= log[j].term
  BY DEF TermInv
<1>1. ASSUME NEW n \in Nodes, Elect(n) PROVE TermInv'
  <2>1. /\ UNCHANGED <<log, inflight>> /\ term' = term + 1 /\ leaderTerm'[n] = term + 1
        /\ \A m \in Nodes : m # n => leaderTerm'[m] = leaderTerm[m]
    BY <1>1, ElectEffect
  <2>2. \A i \in 1..Len(log') : log'[i].term <= term'
    BY <1>0, <2>1, LogTypes, NodeTypes
  <2>3. \A e \in inflight' : e.term <= term'
    BY <1>0, <2>1, LogTypes, NodeTypes
  <2>4. \A m \in Nodes : m # n => leaderTerm'[m] <= term /\ leaderTerm'[m] \in Nat
    BY <1>0, <2>1, NodeTypes
  <2>5. \A m \in Nodes : leaderTerm'[m] <= term'
    BY <2>1, <2>4, NodeTypes
  <2>6. ASSUME NEW m \in Nodes, NEW k \in Nodes,
               leaderTerm'[m] = leaderTerm'[k], leaderTerm'[k] # 0, m # k
        PROVE  FALSE
    <3>1. m # n /\ k # n
      BY <2>1, <2>4, <2>6, NodeTypes
    <3> QED BY <1>0, <2>1, <2>6, <3>1
  <2> QED BY <1>0, <2>1, <2>2, <2>3, <2>5, <2>6 DEF TermInv
<1>2. ASSUME NEW n \in Nodes, leaderTerm'[n] = 0,
             UNCHANGED <<log, inflight, term>>,
             \A m \in Nodes : m # n => leaderTerm'[m] = leaderTerm[m]
      PROVE  TermInv'
  <2>1. \A m \in Nodes : leaderTerm'[m] <= term'
    BY <1>0, <1>2, NodeTypes
  <2>2. ASSUME NEW m \in Nodes, NEW k \in Nodes,
               leaderTerm'[m] = leaderTerm'[k], leaderTerm'[k] # 0
        PROVE  m = k
    <3>1. m # n /\ k # n
      BY <1>2, <2>2
    <3>2. leaderTerm[m] = leaderTerm[k] /\ leaderTerm[k] # 0
      BY <1>2, <2>2, <3>1
    <3> QED BY <1>0, <3>2
  <2> QED BY <1>0, <1>2, <2>1, <2>2 DEF TermInv
<1>3. ASSUME NEW e \in inflight, Commit(e) PROVE TermInv'
  <2>1. /\ Len(log') = Len(log) + 1 /\ Len(log) \in Nat
        /\ \A i \in 1..Len(log) : log'[i] = log[i] /\ log[i].term <= e.term
        /\ log'[Len(log) + 1] = e /\ e.term \in Nat
        /\ inflight' \subseteq inflight /\ UNCHANGED <<term, leaderTerm>>
    BY <1>3, CommitEffect, LogTypes
  <2>2. \A i \in 1..Len(log') : i \in 1..Len(log) \/ i = Len(log) + 1
    BY <2>1
  <2>3. \A i \in 1..Len(log') : log'[i].term <= term
    BY <1>0, <2>1, <2>2
  <2>4. ASSUME NEW i \in 1..Len(log'), NEW j \in 1..Len(log'), i <= j
        PROVE  log'[i].term <= log'[j].term
    <3>1. CASE j = Len(log) + 1 /\ i = Len(log) + 1
      BY <2>1, <3>1
    <3>2. CASE j = Len(log) + 1 /\ i \in 1..Len(log)
      BY <2>1, <3>2
    <3>3. CASE j \in 1..Len(log)
      <4>1. i \in 1..Len(log)
        BY <2>1, <2>4, <3>3
      <4> QED BY <1>0, <2>1, <2>4, <3>3, <4>1
    <3> QED BY <2>2, <3>1, <3>2, <3>3
  <2> QED BY <1>0, <2>1, <2>3, <2>4 DEF TermInv
<1>4. ASSUME NEW c \in Calls, Propose(c) PROVE TermInv'
  <2>1. /\ node[c] \in Nodes /\ UNCHANGED <<log, term, leaderTerm>>
        /\ inflight' \subseteq
             inflight \cup {[term |-> leaderTerm[node[c]], base |-> current[c]]}
    BY <1>4, ProposeEffect
  <2>2. \A e \in inflight' : e.term <= term
    BY <1>0, <2>1
  <2> QED BY <1>0, <2>1, <2>2 DEF TermInv
<1>5. CASE UNCHANGED <<log, inflight, term, leaderTerm>>
  BY <1>0, <1>5 DEF TermInv
<1> QED
  BY <1>1, <1>2, <1>3, <1>4, <1>5, StepCases, StepDownEffect, ApplyEffect, SnapshotEffect,
     RestartEffect, ResetEffect, CallEffect, IssueEffect, ReadEffect, FailEffect,
     ReservedEffect DEF core

LEMMA FsmStep ==
  ASSUME TypeOK, TermInv, FsmInv, MutexInv, [Next]_vars
  PROVE  FsmInv'
<1> DEFINE Good(m) == /\ snapshot[m] <= applied[m]
                      /\ applied[m] <= Len(log)
                      /\ applied[m] > 0 => counter[m] = CounterAt(applied[m])
                      /\ leaderTerm[m] # 0 =>
                           \A i \in 1..applied[m] : log[i].term <= leaderTerm[m]
<1> SUFFICES ASSUME NEW m \in Nodes PROVE Good(m)'
  BY DEF FsmInv
<1>0. /\ Good(m) /\ applied[m] \in Nat /\ snapshot[m] \in Nat /\ Len(log) \in Nat
      /\ term \in Nat /\ leaderTerm[m] \in Nat
  BY NodeTypes, LogTypes DEF FsmInv
<1>1. ASSUME NEW n \in Nodes, Elect(n) PROVE Good(m)'
  <2>1. /\ UNCHANGED <<log, applied, snapshot, counter>>
        /\ leaderTerm'[m] = leaderTerm[m] \/ leaderTerm'[m] = term + 1
    BY <1>1, ElectEffect
  <2>2. \A i \in 1..applied[m] : log[i].term <= term + 1
    <3>1. \A i \in 1..applied[m] : i \in 1..Len(log)
      BY <1>0
    <3>2. \A i \in 1..Len(log) : log[i].term <= term /\ log[i].term \in Nat
      BY LogTypes DEF TermInv
    <3> QED BY <1>0, <3>1, <3>2
  <2> QED BY <1>0, <2>1, <2>2 DEF CounterAt, End
<1>2. ASSUME NEW n \in Nodes, StepDown(n) PROVE Good(m)'
  <2>1. /\ UNCHANGED <<log, applied, snapshot, counter>>
        /\ leaderTerm'[m] = leaderTerm[m] \/ leaderTerm'[m] = 0
    BY <1>2, StepDownEffect
  <2> QED BY <1>0, <2>1 DEF CounterAt, End
<1>3. ASSUME NEW e \in inflight, Commit(e) PROVE Good(m)'
  <2>1. /\ UNCHANGED <<leaderTerm, applied, snapshot, counter>>
        /\ Len(log') = Len(log) + 1
        /\ \A i \in 1..Len(log) : log'[i] = log[i]
    BY <1>3, CommitEffect
  <2>2. \A i \in 1..applied[m] : log'[i] = log[i]
    BY <1>0, <2>1
  <2>3. applied[m] > 0 => log'[applied[m]] = log[applied[m]]
    BY <1>0, <2>1
  <2> QED BY <1>0, <2>1, <2>2, <2>3 DEF CounterAt, End
<1>4. ASSUME NEW n \in Nodes, ApplyReserveBlock(n), m = n PROVE Good(m)'
  <2>1. /\ UNCHANGED <<log, leaderTerm, snapshot>>
        /\ applied'[m] = applied[m] + 1
        /\ counter'[m] = End(log[applied[m] + 1])
        /\ applied[m] < Len(log)
        /\ leaderTerm[m] # 0 => log[applied[m] + 1].term <= leaderTerm[m]
    BY <1>4, ApplyEffect
  <2>2. \A i \in 1..(applied[m] + 1) : i \in 1..applied[m] \/ i = applied[m] + 1
    BY <1>0
  <2>3. leaderTerm[m] # 0 => \A i \in 1..(applied[m] + 1) : log[i].term <= leaderTerm[m]
    BY <1>0, <2>1, <2>2
  <2>4. CounterAt(applied[m] + 1) = End(log[applied[m] + 1])
    BY <1>0 DEF CounterAt
  <2> QED BY <1>0, <2>1, <2>3, <2>4 DEF CounterAt, End
<1>5. ASSUME NEW n \in Nodes, TakeSnapshot(n), m = n PROVE Good(m)'
  <2>1. /\ UNCHANGED <<log, leaderTerm, applied, counter>> /\ snapshot'[m] = applied[m]
    BY <1>5, SnapshotEffect
  <2> QED BY <1>0, <2>1 DEF CounterAt, End
<1>6. ASSUME NEW n \in Nodes, Restart(n), m = n PROVE Good(m)'
  <2>1. /\ UNCHANGED <<log, snapshot>> /\ leaderTerm'[m] = 0 /\ applied'[m] = snapshot[m]
        /\ snapshot[m] # 0 => counter'[m] = CounterAt(snapshot[m])
    BY <1>6, RestartEffect
  <2> QED BY <1>0, <2>1 DEF CounterAt, End
<1>7. CASE UNCHANGED <<log, leaderTerm[m], applied[m], snapshot[m], counter[m]>>
  BY <1>0, <1>7 DEF CounterAt, End
<1> QED
  BY <1>1, <1>2, <1>3, <1>4, <1>5, <1>6, <1>7, StepCases, ApplyEffect, SnapshotEffect,
     RestartEffect, ResetEffect, CallEffect, IssueEffect, ReadEffect, ProposeEffect,
     FailEffect, ReservedEffect DEF core

LEMMA MutexStep ==
  ASSUME TypeOK, MutexInv, [Next]_vars
  PROVE  MutexInv'
<1>1. ASSUME NEW n \in Nodes, StepDown(n) PROVE MutexInv'
  BY <1>1, StepDownEffect, NodeTypes, CallTypes DEF MutexInv, Reserving
<1>2. ASSUME NEW n \in Nodes, ApplyReserveBlock(n) PROVE MutexInv'
  <2>1. UNCHANGED <<mu, node>>
    BY <1>2, ApplyEffect
  <2>2. ASSUME NEW c \in Calls
        PROVE  pc'[c] = pc[c] \/ (pc[c] = "waiting" /\ pc'[c] = "answered")
    BY <1>2, ApplyEffect
  <2> QED BY <2>1, <2>2, NodeTypes, CallTypes DEF MutexInv, Reserving
<1>3. ASSUME NEW n \in Nodes, Restart(n) PROVE MutexInv'
  BY <1>3, RestartEffect, NodeTypes, CallTypes DEF MutexInv, Reserving
<1>4. ASSUME NEW c \in Calls, NEW n \in Nodes, Call(c, n) PROVE MutexInv'
  BY <1>4, CallEffect, NodeTypes, CallTypes DEF MutexInv, Reserving
<1>5. ASSUME NEW c \in Calls, Issue(c) PROVE MutexInv'
  BY <1>5, IssueEffect, NodeTypes, CallTypes DEF MutexInv, Reserving
<1>6. ASSUME NEW c \in Calls, ReadCounter(c) PROVE MutexInv'
  BY <1>6, ReadEffect, NodeTypes, CallTypes DEF MutexInv, Reserving
<1>7. ASSUME NEW c \in Calls, Propose(c) PROVE MutexInv'
  BY <1>7, ProposeEffect, NodeTypes, CallTypes DEF MutexInv, Reserving
<1>8. ASSUME NEW c \in Calls, ProposeFails(c) \/ ReserveFails(c) PROVE MutexInv'
  BY <1>8, FailEffect, NodeTypes, CallTypes DEF MutexInv, Reserving
<1>9. ASSUME NEW c \in Calls, Reserved(c) PROVE MutexInv'
  BY <1>9, ReservedEffect, NodeTypes, CallTypes DEF MutexInv, Reserving
<1>10. CASE UNCHANGED <<pc, node, mu>>
  BY <1>10 DEF MutexInv, Reserving
<1> QED
  BY <1>1, <1>2, <1>3, <1>4, <1>5, <1>6, <1>7, <1>8, <1>9, <1>10, StepCases,
     ElectEffect, CommitEffect, SnapshotEffect, ResetEffect DEF core

----------------------------------------------------------------------------
(***************************************************************************)
(* A leader and its own entries                                            *)
(***************************************************************************)

\* A step that leaves a node's leadership, FSM and waiting call alone.
LEMMA OwnFrame ==
  ASSUME NEW m \in Nodes, OwnEntriesInv,
         UNCHANGED <<log, inflight>>,
         leaderTerm'[m] = leaderTerm[m], applied'[m] = applied[m], mu'[m] = mu[m],
         mu[m] # None => /\ pc'[mu[m]] = pc[mu[m]]
                         /\ proposedIn'[mu[m]] = proposedIn[mu[m]]
                         /\ current'[mu[m]] = current[mu[m]]
  PROVE  leaderTerm'[m] # 0 => OwnLog(m)' /\ OwnInflight(m)'
<1>1. \A b : WaitsFor(m, b)' <=> WaitsFor(m, b)
  BY DEF WaitsFor
<1>2. OwnLog(m)' <=> OwnLog(m)
  BY <1>1 DEF OwnLog
<1>3. OwnInflight(m)' <=> OwnInflight(m)
  BY <1>1 DEF OwnInflight
<1> QED BY <1>2, <1>3 DEF OwnEntriesInv

\* A leader without a waiting call has applied all of its entries.
LEMMA OwnIdle ==
  ASSUME NEW m \in Nodes, OwnEntriesInv, leaderTerm[m] # 0,
         mu[m] = None \/ pc[mu[m]] # "waiting"
  PROVE  /\ \A i \in 1..Len(log) : i > applied[m] => log[i].term # leaderTerm[m]
         /\ \A e \in inflight : e.term # leaderTerm[m]
  BY DEF OwnEntriesInv, OwnLog, OwnInflight, WaitsFor

LEMMA OwnEntriesStep ==
  ASSUME TypeOK, TermInv, FsmInv, MutexInv, OwnEntriesInv, InflightInv, [Next]_vars
  PROVE  OwnEntriesInv'
<1> SUFFICES ASSUME NEW m \in Nodes
             PROVE  leaderTerm'[m] # 0 => OwnLog(m)' /\ OwnInflight(m)'
  BY DEF OwnEntriesInv
<1>0. mu[m] # None => node[mu[m]] = m /\ Reserving(mu[m]) /\ mu[m] \in Calls
  BY NodeTypes DEF MutexInv
<1>1. ASSUME NEW n \in Nodes, Elect(n)
      PROVE  leaderTerm'[m] # 0 => OwnLog(m)' /\ OwnInflight(m)'
  <2>1. CASE m = n
    <3>1. UNCHANGED <<log, inflight>> /\ leaderTerm'[m] = term + 1 /\ term \in Nat
      BY <1>1, <2>1, ElectEffect, NodeTypes
    <3>2. /\ \A i \in 1..Len(log) : log[i].term \in Nat /\ log[i].term <= term
          /\ \A e \in inflight : e.term \in Nat /\ e.term <= term
      BY LogTypes DEF TermInv
    <3> QED BY <3>1, <3>2 DEF OwnLog, OwnInflight
  <2>2. CASE m # n
    BY <1>1, <2>2, ElectEffect, OwnFrame
  <2> QED BY <2>1, <2>2
<1>2. ASSUME NEW n \in Nodes, StepDown(n)
      PROVE  leaderTerm'[m] # 0 => OwnLog(m)' /\ OwnInflight(m)'
  <2>1. CASE m = n
    BY <1>2, <2>1, StepDownEffect
  <2>2. CASE m # n
    <3>1. mu[m] # None => pc'[mu[m]] = pc[mu[m]]
      BY <1>0, <1>2, <2>2, StepDownEffect, NodeTypes DEF MutexInv
    <3> QED BY <1>2, <2>2, <3>1, StepDownEffect, OwnFrame
  <2> QED BY <2>1, <2>2
<1>3. ASSUME NEW e \in inflight, Commit(e)
      PROVE  leaderTerm'[m] # 0 => OwnLog(m)' /\ OwnInflight(m)'
  <2> SUFFICES ASSUME leaderTerm[m] # 0
               PROVE  OwnLog(m)' /\ OwnInflight(m)'
    BY <1>3, CommitEffect
  <2>1. /\ Len(log') = Len(log) + 1 /\ Len(log) \in Nat
        /\ \A i \in 1..Len(log) : log'[i] = log[i]
        /\ log'[Len(log) + 1] = e
        /\ inflight' = inflight \ {e}
        /\ UNCHANGED <<leaderTerm, applied>>
    BY <1>3, CommitEffect, LogTypes
  <2>2. \A b : WaitsFor(m, b)' <=> WaitsFor(m, b)
    BY <1>3, CommitEffect DEF WaitsFor
  <2>3. OwnLog(m) /\ OwnInflight(m)
    BY DEF OwnEntriesInv
  <2>4. ASSUME NEW i \in 1..Len(log'), i > applied[m], log'[i].term = leaderTerm[m]
        PROVE  /\ WaitsFor(m, log'[i].base)
               /\ \A j \in 1..Len(log') : j > i => log'[j].term # leaderTerm[m]
    <3>1. CASE i = Len(log) + 1
      BY <2>1, <2>3, <2>4, <3>1 DEF OwnInflight
    <3>2. CASE i # Len(log) + 1
      <4>1. i \in 1..Len(log) /\ log'[i] = log[i]
        BY <2>1, <3>2
      <4>2. /\ WaitsFor(m, log'[i].base)
            /\ \A j \in 1..Len(log) : j > i => log[j].term # leaderTerm[m]
        BY <2>3, <2>4, <4>1 DEF OwnLog
      <4>3. e.term # leaderTerm[m]
        BY <2>3, <2>4, <4>1 DEF OwnInflight
      <4> QED BY <2>1, <4>2, <4>3
    <3> QED BY <3>1, <3>2
  <2>5. ASSUME NEW f \in inflight', f.term = leaderTerm[m]
        PROVE  /\ WaitsFor(m, f.base)
               /\ \A i \in 1..Len(log') : i > applied[m] => log'[i].term # leaderTerm[m]
    <3>1. f \in inflight /\ f # e
      BY <2>1
    <3>2. e.term # leaderTerm[m]
      BY <2>5, <3>1 DEF InflightInv
    <3>3. /\ WaitsFor(m, f.base)
          /\ \A i \in 1..Len(log) : i > applied[m] => log[i].term # leaderTerm[m]
      BY <2>3, <2>5, <3>1 DEF OwnInflight
    <3> QED BY <2>1, <3>2, <3>3
  <2> QED BY <2>1, <2>2, <2>4, <2>5 DEF OwnLog, OwnInflight
<1>4. ASSUME NEW n \in Nodes, ApplyReserveBlock(n)
      PROVE  leaderTerm'[m] # 0 => OwnLog(m)' /\ OwnInflight(m)'
  <2>1. CASE m = n
    <3> SUFFICES ASSUME leaderTerm[m] # 0
                 PROVE  OwnLog(m)' /\ OwnInflight(m)'
      BY <1>4, ApplyEffect
    <3> DEFINE k == applied[m] + 1
    <3>1. /\ k \in 1..Len(log) /\ k > applied[m] /\ applied[m] \in Nat
          /\ applied'[m] = k
          /\ UNCHANGED <<log, inflight, leaderTerm, mu, proposedIn, current>>
      <4>1. applied[m] \in Nat /\ Len(log) \in Nat
        BY LogTypes, NodeTypes
      <4> QED BY <1>4, <2>1, <4>1, ApplyEffect
    <3>11. mu[m] # None /\ pc[mu[m]] = "waiting" /\ proposedIn[mu[m]] # log[k].term
                => pc'[mu[m]] = "waiting"
      BY <1>0, <1>4, <2>1, ApplyEffect
    <3>2. OwnLog(m) /\ OwnInflight(m)
      BY DEF OwnEntriesInv
    <3>3. \A b : WaitsFor(m, b) /\ log[k].term # leaderTerm[m] => WaitsFor(m, b)'
      BY <3>1, <3>11 DEF WaitsFor
    <3>4. ASSUME NEW i \in 1..Len(log), i > k, log[i].term = leaderTerm[m]
          PROVE  /\ WaitsFor(m, log[i].base)'
                 /\ \A j \in 1..Len(log) : j > i => log[j].term # leaderTerm[m]
      <4>1. i > applied[m]
        BY <3>1, <3>4
      <4>2. log[k].term # leaderTerm[m]
        BY <3>1, <3>2, <3>4 DEF OwnLog
      <4> QED BY <3>1, <3>2, <3>3, <3>4, <4>1, <4>2 DEF OwnLog
    <3>5. ASSUME NEW e \in inflight, e.term = leaderTerm[m]
          PROVE  /\ WaitsFor(m, e.base)'
                 /\ \A i \in 1..Len(log) : i > k => log[i].term # leaderTerm[m]
      <4>1. \A i \in 1..Len(log) : i > applied[m] => log[i].term # leaderTerm[m]
        BY <3>2, <3>5 DEF OwnInflight
      <4>2. log[k].term # leaderTerm[m]
        BY <3>1, <4>1
      <4>3. \A i \in 1..Len(log) : i > k => log[i].term # leaderTerm[m]
        BY <3>1, <4>1
      <4> QED BY <3>2, <3>3, <3>5, <4>2, <4>3 DEF OwnInflight
    <3>6. OwnLog(m)'
      BY <3>1, <3>4 DEF OwnLog
    <3>7. OwnInflight(m)'
      BY <3>1, <3>5 DEF OwnInflight
    <3> QED BY <3>6, <3>7
  <2>2. CASE m # n
    <3>1. mu[m] # None => mu[n] # mu[m]
      BY <1>0, <2>2, NodeTypes DEF MutexInv
    <3>2. mu[m] # None => pc'[mu[m]] = pc[mu[m]]
      BY <1>0, <1>4, <3>1, ApplyEffect
    <3> QED BY <1>4, <2>2, <3>2, ApplyEffect, OwnFrame
  <2> QED BY <2>1, <2>2
<1>5. ASSUME NEW n \in Nodes, Restart(n)
      PROVE  leaderTerm'[m] # 0 => OwnLog(m)' /\ OwnInflight(m)'
  <2>1. CASE m = n
    BY <1>5, <2>1, RestartEffect
  <2>2. CASE m # n
    <3>1. mu[m] # None => pc'[mu[m]] = pc[mu[m]]
      BY <1>0, <1>5, <2>2, RestartEffect
    <3> QED BY <1>5, <2>2, <3>1, RestartEffect, OwnFrame
  <2> QED BY <2>1, <2>2
<1>6. ASSUME NEW c \in Calls, NEW n \in Nodes, Call(c, n)
      PROVE  leaderTerm'[m] # 0 => OwnLog(m)' /\ OwnInflight(m)'
  <2>1. mu[m] # c
    BY <1>0, <1>6, CallEffect, NoneAssumption DEF Reserving
  <2> QED BY <1>0, <1>6, <2>1, CallEffect, OwnFrame
<1>7. ASSUME NEW c \in Calls, Issue(c)
      PROVE  leaderTerm'[m] # 0 => OwnLog(m)' /\ OwnInflight(m)'
  <2>1. mu[m] # c
    BY <1>0, <1>7, IssueEffect, NoneAssumption DEF Reserving
  <2> QED BY <1>0, <1>7, <2>1, IssueEffect, OwnFrame
<1>8. ASSUME NEW c \in Calls, ReadCounter(c)
      PROVE  leaderTerm'[m] # 0 => OwnLog(m)' /\ OwnInflight(m)'
  <2>1. CASE m = node[c]
    BY <1>8, <2>1, ReadEffect, OwnIdle DEF OwnLog, OwnInflight
  <2>2. CASE m # node[c]
    <3>1. mu[m] # c
      BY <1>0, <1>8, ReadEffect, NoneAssumption DEF Reserving
    <3> QED BY <1>0, <1>8, <2>2, <3>1, ReadEffect, OwnFrame
  <2> QED BY <2>1, <2>2
<1>9. ASSUME NEW c \in Calls, Propose(c)
      PROVE  leaderTerm'[m] # 0 => OwnLog(m)' /\ OwnInflight(m)'
  <2> DEFINE t == leaderTerm[node[c]]
  <2>1. /\ node[c] \in Nodes /\ mu[node[c]] = c /\ pc[c] = "read"
        /\ t # 0 /\ UNCHANGED <<log, leaderTerm, applied, mu, current>>
        /\ pc'[c] = "waiting" /\ proposedIn'[c] = t
        /\ inflight' \subseteq inflight \cup {[term |-> t, base |-> current[c]]}
    BY <1>9, ProposeEffect
  <2>2. CASE m = node[c]
    <3>1. /\ \A i \in 1..Len(log) : i > applied[m] => log[i].term # t
          /\ \A e \in inflight : e.term # t
      BY <2>1, <2>2, OwnIdle
    <3>2. OwnLog(m)'
      BY <2>1, <2>2, <3>1 DEF OwnLog
    <3>3. WaitsFor(m, current[c])'
      BY <2>1, <2>2, NoneAssumption DEF WaitsFor
    <3>4. \A e \in inflight' : e.term = t => e.base = current[c]
      BY <2>1, <3>1
    <3>5. OwnInflight(m)'
      BY <2>1, <2>2, <3>1, <3>3, <3>4 DEF OwnInflight
    <3> QED BY <3>2, <3>5
  <2>3. CASE m # node[c]
    <3> SUFFICES ASSUME leaderTerm[m] # 0 PROVE OwnLog(m)' /\ OwnInflight(m)'
      BY <2>1
    <3>1. leaderTerm[m] # t
      BY <2>1, <2>3 DEF TermInv
    <3>2. mu[m] # c
      BY <1>0, <2>3, NoneAssumption
    <3>3. \A b : WaitsFor(m, b)' <=> WaitsFor(m, b)
      BY <1>0, <1>9, <2>1, <3>2, ProposeEffect DEF WaitsFor
    <3>4. \A e \in inflight' : e.term = leaderTerm[m] => e \in inflight
      BY <2>1, <3>1
    <3>5. OwnLog(m) /\ OwnInflight(m)
      BY DEF OwnEntriesInv
    <3>6. OwnLog(m)'
      BY <2>1, <3>3, <3>5 DEF OwnLog
    <3>7. OwnInflight(m)'
      BY <2>1, <3>3, <3>4, <3>5 DEF OwnInflight
    <3> QED BY <3>6, <3>7
  <2> QED BY <2>2, <2>3
<1>10. ASSUME NEW c \in Calls, ProposeFails(c) \/ ReserveFails(c)
       PROVE  leaderTerm'[m] # 0 => OwnLog(m)' /\ OwnInflight(m)'
  <2>0. pc[c] # "waiting"
    BY <1>10 DEF ProposeFails, ReserveFails
  <2>1. CASE m = node[c]
    BY <1>10, <2>0, <2>1, FailEffect, OwnIdle DEF OwnLog, OwnInflight
  <2>2. CASE m # node[c]
    <3>1. mu[m] # c
      BY <1>0, <2>2, NoneAssumption
    <3> QED BY <1>0, <1>10, <2>2, <3>1, FailEffect, OwnFrame
  <2> QED BY <2>1, <2>2
<1>11. ASSUME NEW c \in Calls, Reserved(c)
       PROVE  leaderTerm'[m] # 0 => OwnLog(m)' /\ OwnInflight(m)'
  <2>1. CASE m = node[c]
    BY <1>11, <2>1, ReservedEffect, OwnIdle DEF OwnLog, OwnInflight
  <2>2. CASE m # node[c]
    <3>1. mu[m] # c
      BY <1>0, <2>2, NoneAssumption
    <3> QED BY <1>0, <1>11, <2>2, <3>1, ReservedEffect, OwnFrame
  <2> QED BY <2>1, <2>2
<1>12. CASE UNCHANGED <<log, inflight, leaderTerm, applied, mu, pc, proposedIn, current>>
  BY <1>12, OwnFrame
<1> QED
  BY <1>1, <1>2, <1>3, <1>4, <1>5, <1>6, <1>7, <1>8, <1>9, <1>10, <1>11, <1>12,
     StepCases, SnapshotEffect, ResetEffect DEF core

----------------------------------------------------------------------------
(***************************************************************************)
(* Proposals and what a leader reads                                       *)
(***************************************************************************)

LEMMA InflightStep ==
  ASSUME TypeOK, TermInv, FsmInv, MutexInv, OwnEntriesInv, InflightInv, ReadInv, [Next]_vars
  PROVE  InflightInv'
<1>1. ASSUME NEW e \in inflight, Commit(e) PROVE InflightInv'
  BY <1>1, CommitEffect, LogTypes DEF InflightInv
<1>2. ASSUME NEW c \in Calls, Propose(c) PROVE InflightInv'
  <2> DEFINE n == node[c]
             t == leaderTerm[n]
             e == [term |-> t, base |-> current[c]]
  <2>1. /\ n \in Nodes /\ mu[n] = c /\ pc[c] = "read" /\ t # 0
        /\ inflight' \subseteq inflight \cup {e}
        /\ t # term => inflight' = inflight
        /\ log' = log
    BY <1>2, ProposeEffect
  <2>2. /\ \A i \in 1..Len(log) : i > applied[n] => log[i].term # t
        /\ \A f \in inflight : f.term # t
    BY <2>1, OwnIdle
  <2>3. e.term = t /\ e.base = current[c]
    OBVIOUS
  <2>4. \A f, g \in inflight' : f.term = g.term => f = g
    BY <2>1, <2>2, <2>3 DEF InflightInv
  <2>5. Len(log) > 0 /\ log[Len(log)].term = t => e.base = End(log[Len(log)])
    <3> SUFFICES ASSUME Len(log) > 0, log[Len(log)].term = t
                 PROVE  current[c] = End(log[Len(log)])
      OBVIOUS
    <3>1. Len(log) \in 1..Len(log) /\ applied[n] \in Nat /\ applied[n] <= Len(log)
      BY <2>1, LogTypes, NodeTypes DEF FsmInv
    <3>2. applied[n] = Len(log)
      BY <2>2, <3>1
    <3>3. current[c] = CounterAt(Len(log))
      BY <2>1, <3>1, <3>2 DEF ReadInv
    <3> QED BY <3>1, <3>3 DEF CounterAt
  <2>6. \A f \in inflight' : Len(log) > 0 /\ log[Len(log)].term = f.term =>
            f.base = End(log[Len(log)])
    BY <2>1, <2>3, <2>5 DEF InflightInv
  <2> QED BY <2>1, <2>4, <2>6 DEF InflightInv, End
<1>3. CASE UNCHANGED <<log, inflight>>
  BY <1>3 DEF InflightInv, End
<1> QED
  BY <1>1, <1>2, <1>3, StepCases, ElectEffect, StepDownEffect, ApplyEffect, SnapshotEffect,
     RestartEffect, ResetEffect, CallEffect, IssueEffect, ReadEffect, FailEffect,
     ReservedEffect DEF core

\* Consecutive entries of one term: only Commit adds an entry.
LEMMA ContiguousStep ==
  ASSUME TypeOK, InflightInv, TermBlocksContiguous, [Next]_vars
  PROVE  TermBlocksContiguous'
<1>1. ASSUME NEW e \in inflight, Commit(e) PROVE TermBlocksContiguous'
  <2> SUFFICES ASSUME NEW i \in 1..Len(log'), i > 1, log'[i].term = log'[i-1].term
               PROVE  log'[i].base = End(log'[i-1])
    BY DEF TermBlocksContiguous, End
  <2>1. /\ Len(log') = Len(log) + 1 /\ Len(log) \in Nat
        /\ \A j \in 1..Len(log) : log'[j] = log[j]
        /\ log'[Len(log) + 1] = e
    BY <1>1, CommitEffect, LogTypes
  <2>2. CASE i = Len(log) + 1
    BY <2>1, <2>2 DEF InflightInv
  <2>3. CASE i # Len(log) + 1
    <3>1. i \in 1..Len(log) /\ i - 1 \in 1..Len(log)
      BY <2>1, <2>3
    <3>2. log'[i] = log[i] /\ log'[i-1] = log[i-1]
      BY <2>1, <3>1
    <3> QED BY <3>1, <3>2 DEF TermBlocksContiguous
  <2> QED BY <2>2, <2>3
<1>2. CASE UNCHANGED log
  BY <1>2 DEF TermBlocksContiguous, End
<1> QED
  BY <1>1, <1>2 DEF Next, RaftStep, NodeStep, CallStep, vars, raftVars, Elect, StepDown,
     ApplyReserveBlock, TakeSnapshot, Restart, StartLabelLoop, ReceiveLeaderCh, ResetBlock,
     Call, Issue, ReadCounter, Propose, ProposeFails, Reserved, ReserveFails

LEMMA ReadStep ==
  ASSUME TypeOK, TermInv, FsmInv, MutexInv, OwnEntriesInv, ReadInv, [Next]_vars
  PROVE  ReadInv'
<1> SUFFICES ASSUME NEW c \in Calls, pc'[c] = "read",
                    leaderTerm'[node'[c]] # 0, applied'[node'[c]] > 0,
                    log'[applied'[node'[c]]].term = leaderTerm'[node'[c]]
             PROVE  current'[c] = CounterAt(applied[node[c]])'
  BY DEF ReadInv
<1> DEFINE n == node[c]
<1>0. pc[c] = "read" => n \in Nodes /\ mu[n] = c
  BY DEF MutexInv, Reserving
<1>1. ASSUME NEW m \in Nodes, Elect(m) PROVE current'[c] = CounterAt(applied[node[c]])'
  <2>1. n \in Nodes
    BY <1>0, <1>1, ElectEffect
  <2>2. CASE n = m
    <3>1. applied[n] \in 1..Len(log) /\ term \in Nat
      BY <1>1, <2>1, ElectEffect, NodeTypes, LogTypes DEF FsmInv
    <3>2. log[applied[n]].term <= term /\ log[applied[n]].term \in Nat
      BY <3>1, LogTypes DEF TermInv
    <3> QED BY <1>1, <2>2, <3>1, <3>2, ElectEffect
  <2>3. CASE n # m
    BY <1>1, <2>1, <2>3, ElectEffect DEF ReadInv, CounterAt, End
  <2> QED BY <2>2, <2>3
<1>2. ASSUME NEW m \in Nodes, StepDown(m) PROVE current'[c] = CounterAt(applied[node[c]])'
  <2>1. pc[c] = "read" /\ n \in Nodes /\ n # m
    BY <1>0, <1>2, StepDownEffect
  <2> QED BY <1>2, <2>1, StepDownEffect DEF ReadInv, CounterAt, End
<1>3. ASSUME NEW e \in inflight, Commit(e) PROVE current'[c] = CounterAt(applied[node[c]])'
  <2>1. n \in Nodes
    BY <1>0, <1>3, CommitEffect
  <2>2. applied[n] \in 1..Len(log)
    BY <1>3, <2>1, CommitEffect, NodeTypes, LogTypes DEF FsmInv
  <2>3. log'[applied[n]] = log[applied[n]] /\ applied'[n] = applied[n]
    BY <1>3, <2>2, CommitEffect
  <2> QED BY <1>3, <2>2, <2>3, CommitEffect DEF ReadInv, CounterAt, End
<1>4. ASSUME NEW m \in Nodes, ApplyReserveBlock(m)
      PROVE current'[c] = CounterAt(applied[node[c]])'
  <2>1. pc[c] = "read" /\ n \in Nodes /\ mu[n] = c
    BY <1>0, <1>4, ApplyEffect
  <2>2. CASE n = m
    <3>1. \A i \in 1..Len(log) : i > applied[n] => log[i].term # leaderTerm[n]
      BY <1>4, <2>1, ApplyEffect, OwnIdle
    <3>2. applied'[n] \in 1..Len(log) /\ applied'[n] > applied[n]
      BY <1>4, <2>2, ApplyEffect, NodeTypes, LogTypes
    <3> QED BY <1>4, <3>1, <3>2, ApplyEffect
  <2>3. CASE n # m
    BY <1>4, <2>1, <2>3, ApplyEffect DEF ReadInv, CounterAt, End
  <2> QED BY <2>2, <2>3
<1>5. ASSUME NEW m \in Nodes, Restart(m) PROVE current'[c] = CounterAt(applied[node[c]])'
  <2>1. pc[c] = "read" /\ n \in Nodes /\ n # m
    BY <1>0, <1>5, RestartEffect
  <2> QED BY <1>5, <2>1, RestartEffect DEF ReadInv, CounterAt, End
<1>6. ASSUME NEW d \in Calls, NEW m \in Nodes, Call(d, m)
      PROVE current'[c] = CounterAt(applied[node[c]])'
  <2>1. c # d
    BY <1>6, CallEffect
  <2> QED BY <1>6, <2>1, CallEffect DEF ReadInv, CounterAt, End
<1>7. ASSUME NEW d \in Calls, Issue(d) PROVE current'[c] = CounterAt(applied[node[c]])'
  <2>1. c # d
    BY <1>7, IssueEffect
  <2> QED BY <1>7, <2>1, IssueEffect DEF ReadInv, CounterAt, End
<1>8. ASSUME NEW d \in Calls, ReadCounter(d) PROVE current'[c] = CounterAt(applied[node[c]])'
  <2>1. CASE c = d
    BY <1>8, <2>1, ReadEffect DEF FsmInv, CounterAt, End
  <2>2. CASE c # d
    BY <1>8, <2>2, ReadEffect DEF ReadInv, CounterAt, End
  <2> QED BY <2>1, <2>2
<1>9. ASSUME NEW d \in Calls, Propose(d) PROVE current'[c] = CounterAt(applied[node[c]])'
  <2>1. c # d
    BY <1>9, ProposeEffect
  <2> QED BY <1>9, <2>1, ProposeEffect DEF ReadInv, CounterAt, End
<1>10. ASSUME NEW d \in Calls, ProposeFails(d) \/ ReserveFails(d)
       PROVE current'[c] = CounterAt(applied[node[c]])'
  <2>1. c # d
    BY <1>10, FailEffect
  <2> QED BY <1>10, <2>1, FailEffect DEF ReadInv, CounterAt, End
<1>11. ASSUME NEW d \in Calls, Reserved(d) PROVE current'[c] = CounterAt(applied[node[c]])'
  <2>1. c # d
    BY <1>11, ReservedEffect
  <2> QED BY <1>11, <2>1, ReservedEffect DEF ReadInv, CounterAt, End
<1>12. CASE UNCHANGED <<log, leaderTerm, applied, pc, node, current>>
  BY <1>12 DEF ReadInv, CounterAt, End
<1> QED
  BY <1>1, <1>2, <1>3, <1>4, <1>5, <1>6, <1>7, <1>8, <1>9, <1>10, <1>11, <1>12,
     StepCases, SnapshotEffect, ResetEffect DEF core

----------------------------------------------------------------------------
(***************************************************************************)
(* Claims: the reservations calls wait for or have been granted            *)
(***************************************************************************)

\* Only Propose makes a claim, and no step changes what a claim is for.
LEMMA ClaimFrame ==
  ASSUME TypeOK, MutexInv, [Next]_vars, NEW c \in Calls, Claiming(c)'
  PROVE  \/ Claiming(c) /\ UNCHANGED <<node[c], current[c], proposedIn[c]>>
         \/ Propose(c)
<1> USE DEF Claiming
<1>1. ASSUME NEW n \in Nodes, StepDown(n) PROVE Claiming(c)
  BY <1>1, StepDownEffect
<1>2. ASSUME NEW n \in Nodes, ApplyReserveBlock(n) PROVE Claiming(c)
  BY <1>2, ApplyEffect
<1>3. ASSUME NEW n \in Nodes, Restart(n) PROVE Claiming(c)
  BY <1>3, RestartEffect
<1>4. ASSUME NEW d \in Calls, NEW n \in Nodes, Call(d, n) PROVE Claiming(c) /\ c # d
  BY <1>4, CallEffect
<1>5. ASSUME NEW d \in Calls, Issue(d) PROVE Claiming(c)
  BY <1>5, IssueEffect
<1>6. ASSUME NEW d \in Calls, ReadCounter(d) PROVE Claiming(c) /\ c # d
  BY <1>6, ReadEffect
<1>7. ASSUME NEW d \in Calls, Propose(d), c # d PROVE Claiming(c)
  BY <1>7, ProposeEffect
<1>8. ASSUME NEW d \in Calls, ProposeFails(d) \/ ReserveFails(d) PROVE Claiming(c)
  BY <1>8, FailEffect
<1>9. ASSUME NEW d \in Calls, Reserved(d) PROVE Claiming(c)
  BY <1>9, ReservedEffect
<1> QED
  BY <1>1, <1>2, <1>3, <1>4, <1>5, <1>6, <1>7, <1>8, <1>9, StepCases, ElectEffect,
     StepDownEffect, CommitEffect, ApplyEffect, SnapshotEffect, RestartEffect, ResetEffect,
     CallEffect, IssueEffect, ReadEffect, ProposeEffect, FailEffect, ReservedEffect DEF core

LEMMA ClaimTermsStep ==
  ASSUME TypeOK, TermInv, MutexInv, ClaimTerms, [Next]_vars
  PROVE  ClaimTerms'
<1> SUFFICES ASSUME NEW c \in Calls, Claiming(c)'
             PROVE  /\ proposedIn'[c] <= term'
                    /\ \A n \in Nodes : leaderTerm'[n] # 0 /\ leaderTerm'[n] = proposedIn'[c]
                                            => node'[c] = n
  BY DEF ClaimTerms
<1>1. CASE Propose(c)
  <2>1. /\ node[c] \in Nodes /\ leaderTerm[node[c]] # 0
        /\ proposedIn'[c] = leaderTerm[node[c]]
        /\ UNCHANGED <<term, leaderTerm, node>>
    BY <1>1, ProposeEffect
  <2> QED BY <2>1 DEF TermInv
<1>2. CASE Claiming(c) /\ UNCHANGED <<node[c], current[c], proposedIn[c]>>
  <2>1. /\ proposedIn[c] \in Nat /\ term \in Nat /\ proposedIn[c] <= term
        /\ \A n \in Nodes : leaderTerm[n] # 0 /\ leaderTerm[n] = proposedIn[c] => node[c] = n
    BY <1>2, CallTypes, NodeTypes DEF ClaimTerms
  <2>2. ASSUME NEW n \in Nodes, Elect(n)
        PROVE  /\ proposedIn'[c] <= term'
               /\ \A m \in Nodes : leaderTerm'[m] # 0 /\ leaderTerm'[m] = proposedIn'[c]
                                       => node'[c] = m
    BY <1>2, <2>1, <2>2, ElectEffect
  <2>3. ASSUME term' = term,
               \A m \in Nodes : leaderTerm'[m] = leaderTerm[m] \/ leaderTerm'[m] = 0
        PROVE  /\ proposedIn'[c] <= term'
               /\ \A m \in Nodes : leaderTerm'[m] # 0 /\ leaderTerm'[m] = proposedIn'[c]
                                       => node'[c] = m
    BY <1>2, <2>1, <2>3
  <2> QED
    BY <2>2, <2>3, StepCases, StepDownEffect, CommitEffect, ApplyEffect, SnapshotEffect,
       RestartEffect, ResetEffect, CallEffect, IssueEffect, ReadEffect, ProposeEffect,
       FailEffect, ReservedEffect DEF core
<1> QED BY <1>1, <1>2, ClaimFrame

LEMMA ClaimUniqueStep ==
  ASSUME TypeOK, MutexInv, ClaimTerms, ClaimUnique, [Next]_vars
  PROVE  ClaimUnique'
<1>1. ASSUME NEW c \in Calls, NEW d \in Calls, Propose(c), Claiming(d), d # c
      PROVE  proposedIn'[c] # proposedIn'[d]
  <2>1. /\ node[c] \in Nodes /\ mu[node[c]] = c /\ leaderTerm[node[c]] # 0
        /\ proposedIn'[c] = leaderTerm[node[c]] /\ proposedIn'[d] = proposedIn[d]
    BY <1>1, ProposeEffect
  <2>2. mu[node[d]] = d
    BY <1>1 DEF MutexInv, Reserving, Claiming
  <2> QED BY <1>1, <2>1, <2>2 DEF ClaimTerms
<1> SUFFICES ASSUME NEW c \in Calls, NEW d \in Calls, Claiming(c)', Claiming(d)',
                    proposedIn'[c] = proposedIn'[d], c # d
             PROVE  FALSE
  BY DEF ClaimUnique
<1>2. CASE Propose(c)
  <2>1. Claiming(d)
    BY <1>2, ProposeEffect DEF Claiming
  <2> QED BY <1>1, <1>2, <2>1
<1>3. CASE Propose(d)
  <2>1. Claiming(c)
    BY <1>3, ProposeEffect DEF Claiming
  <2> QED BY <1>1, <1>3, <2>1
<1>4. CASE ~Propose(c) /\ ~Propose(d)
  BY <1>4, ClaimFrame DEF ClaimUnique
<1> QED BY <1>2, <1>3, <1>4

LEMMA ClaimEntriesStep ==
  ASSUME TypeOK, TermInv, FsmInv, MutexInv, OwnEntriesInv, ClaimTerms, ClaimEntries,
         [Next]_vars
  PROVE  ClaimEntries'
<1> SUFFICES ASSUME NEW c \in Calls, pc'[c] = "waiting"
             PROVE  /\ \A e \in inflight' : e.term = proposedIn'[c] => e.base = current'[c]
                    /\ \A i \in 1..Len(log') :
                         i > applied'[node'[c]] /\ log'[i].term = proposedIn'[c]
                             => log'[i].base = current'[c]
  BY DEF ClaimEntries
<1>1. CASE Propose(c)
  <2> DEFINE n == node[c]
             t == leaderTerm[n]
  <2>1. /\ n \in Nodes /\ mu[n] = c /\ pc[c] = "read" /\ t # 0
        /\ inflight' \subseteq inflight \cup {[term |-> t, base |-> current[c]]}
        /\ proposedIn'[c] = t /\ UNCHANGED <<log, applied, node, current>>
    BY <1>1, ProposeEffect
  <2>2. /\ \A i \in 1..Len(log) : i > applied[n] => log[i].term # t
        /\ \A f \in inflight : f.term # t
    BY <2>1, OwnIdle
  <2> QED BY <2>1, <2>2
<1>2. CASE ~Propose(c)
  <2>1. Claiming(c) /\ UNCHANGED <<node[c], current[c], proposedIn[c]>>
    BY <1>2, ClaimFrame DEF Claiming
  <2>2. pc[c] = "waiting"
    BY <1>2, <2>1, StepCases, ElectEffect, StepDownEffect, CommitEffect, ApplyEffect,
       SnapshotEffect, RestartEffect, ResetEffect, CallEffect, IssueEffect, ReadEffect,
       ProposeEffect, FailEffect, ReservedEffect DEF core, Claiming
  <2>3. node[c] \in Nodes /\ mu[node[c]] = c
    BY <2>2 DEF MutexInv, Reserving
  <2>4. /\ \A e \in inflight : e.term = proposedIn[c] => e.base = current[c]
        /\ \A i \in 1..Len(log) :
             i > applied[node[c]] /\ log[i].term = proposedIn[c] => log[i].base = current[c]
    BY <2>2 DEF ClaimEntries
  <2>5. CASE inflight' = inflight /\ log' = log /\ applied'[node[c]] = applied[node[c]]
    BY <2>1, <2>4, <2>5
  <2>6. ASSUME NEW e \in inflight, Commit(e)
        PROVE  /\ \A f \in inflight' : f.term = proposedIn'[c] => f.base = current'[c]
               /\ \A i \in 1..Len(log') :
                    i > applied'[node'[c]] /\ log'[i].term = proposedIn'[c]
                        => log'[i].base = current'[c]
    <3>1. /\ Len(log') = Len(log) + 1 /\ Len(log) \in Nat
          /\ \A i \in 1..Len(log) : log'[i] = log[i]
          /\ log'[Len(log) + 1] = e /\ inflight' = inflight \ {e} /\ applied' = applied
      BY <2>6, CommitEffect, LogTypes
    <3>2. \A i \in 1..Len(log') : i \in 1..Len(log) \/ i = Len(log) + 1
      BY <3>1
    <3> QED BY <2>1, <2>4, <3>1, <3>2
  <2>7. ASSUME NEW n \in Nodes, ApplyReserveBlock(n)
        PROVE  /\ \A f \in inflight' : f.term = proposedIn'[c] => f.base = current'[c]
               /\ \A i \in 1..Len(log') :
                    i > applied'[node'[c]] /\ log'[i].term = proposedIn'[c]
                        => log'[i].base = current'[c]
    <3>1. UNCHANGED <<inflight, log>>
      BY <2>7, ApplyEffect
    <3>2. applied'[node[c]] >= applied[node[c]] /\ applied'[node[c]] \in Nat
          /\ applied[node[c]] \in Nat
      BY <2>3, <2>7, ApplyEffect, NodeTypes
    <3> QED BY <2>1, <2>4, <3>1, <3>2
  <2>8. ASSUME NEW n \in Nodes, Restart(n)
        PROVE  inflight' = inflight /\ log' = log /\ applied'[node[c]] = applied[node[c]]
    BY <2>2, <2>3, <2>8, RestartEffect
  <2>9. ASSUME NEW d \in Calls, Propose(d)
        PROVE  /\ \A f \in inflight' : f.term = proposedIn'[c] => f.base = current'[c]
               /\ \A i \in 1..Len(log') :
                    i > applied'[node'[c]] /\ log'[i].term = proposedIn'[c]
                        => log'[i].base = current'[c]
    <3> DEFINE t == leaderTerm[node[d]]
    <3>1. /\ node[d] \in Nodes /\ mu[node[d]] = d /\ t # 0 /\ d # c
          /\ inflight' \subseteq inflight \cup {[term |-> t, base |-> current[d]]}
          /\ UNCHANGED <<log, applied>>
      BY <1>2, <2>9, ProposeEffect
    <3>2. t # proposedIn[c]
      BY <2>1, <2>3, <3>1 DEF ClaimTerms
    <3> QED BY <2>1, <2>4, <3>1, <3>2
  <2> QED
    BY <2>5, <2>6, <2>7, <2>8, <2>9, <2>3, StepCases, ElectEffect, StepDownEffect,
       SnapshotEffect, ResetEffect, CallEffect, IssueEffect, ReadEffect, FailEffect,
       ReservedEffect DEF core
<1> QED BY <1>1, <1>2

LEMMA ClaimCommittedStep ==
  ASSUME TypeOK, MutexInv, ClaimEntries, ClaimCommitted, [Next]_vars
  PROVE  ClaimCommitted'
<1> SUFFICES ASSUME NEW c \in Calls, pc'[c] = "answered"
             PROVE  Committed(c)'
  BY DEF ClaimCommitted
<1>1. ~Propose(c)
  BY ProposeEffect
<1>2. Claiming(c) /\ UNCHANGED <<node[c], current[c], proposedIn[c]>>
  BY <1>1, ClaimFrame DEF Claiming
<1>3. \A i \in 1..Len(log) : i \in 1..Len(log') /\ log'[i] = log[i]
  BY StepCases, LogTypes, ElectEffect, StepDownEffect, CommitEffect, ApplyEffect,
     SnapshotEffect, RestartEffect, ResetEffect, CallEffect, IssueEffect, ReadEffect,
     ProposeEffect, FailEffect, ReservedEffect DEF core
<1>4. CASE pc[c] = "answered"
  <2>1. PICK i \in 1..Len(log) : log[i] = [term |-> proposedIn[c], base |-> current[c]]
    BY <1>4 DEF ClaimCommitted, Committed
  <2> QED BY <1>2, <1>3, <2>1 DEF Committed
<1>5. CASE pc[c] = "waiting"
  <2>1. PICK n \in Nodes : ApplyReserveBlock(n)
    BY <1>1, <1>5, StepCases, ElectEffect, StepDownEffect, CommitEffect, ApplyEffect,
       SnapshotEffect, RestartEffect, ResetEffect, CallEffect, IssueEffect, ReadEffect,
       ProposeEffect, FailEffect, ReservedEffect DEF core
  <2> DEFINE k == applied[n] + 1
  <2>2. mu[n] = c /\ proposedIn[c] = log[k].term /\ k \in 1..Len(log)
    BY <1>5, <2>1, ApplyEffect, NodeTypes, LogTypes
  <2>3. node[c] = n
    BY <2>2, NoneAssumption DEF MutexInv
  <2>4. log[k].base = current[c]
    BY <1>5, <2>2, <2>3, NodeTypes, SMTT(30) DEF ClaimEntries
  <2>5. log[k] = [term |-> proposedIn[c], base |-> current[c]]
    BY <2>2, <2>4, LogTypes DEF Entry
  <2> QED BY <1>2, <1>3, <2>2, <2>5 DEF Committed
<1> QED BY <1>2, <1>4, <1>5 DEF Claiming

----------------------------------------------------------------------------
(***************************************************************************)
(* The blocks nodes hand out from                                          *)
(***************************************************************************)

\* The committed log only grows.
LEMMA LogGrows ==
  ASSUME TypeOK, MutexInv, [Next]_vars
  PROVE  \A i \in 1..Len(log) : i \in 1..Len(log') /\ log'[i] = log[i]
BY StepCases, LogTypes, ElectEffect, StepDownEffect, CommitEffect, ApplyEffect,
   SnapshotEffect, RestartEffect, ResetEffect, CallEffect, IssueEffect, ReadEffect,
   ProposeEffect, FailEffect, ReservedEffect DEF core

LEMMA IssuedStep ==
  ASSUME TypeOK, MutexInv, ClaimCommitted, IssuedFromCommittedBlock, [Next]_vars
  PROVE  IssuedFromCommittedBlock'
<1> DEFINE Backed(s, e, x) == \E i \in 1..Len(log) : /\ s = log[i].base
                                                     /\ e = log[i].base + BlockSize
                                                     /\ x > log[i].base
<1> SUFFICES ASSUME NEW m \in Nodes, nextToIssue'[m] < reservedEnd'[m]
             PROVE  Backed(reservedStart'[m], reservedEnd'[m], nextToIssue'[m])
  BY LogGrows DEF IssuedFromCommittedBlock, End
<1>1. CASE UNCHANGED <<reservedStart[m], reservedEnd[m], nextToIssue[m]>>
  BY <1>1 DEF IssuedFromCommittedBlock, End
<1>2. ASSUME NEW c \in Calls, Issue(c), node[c] = m
      PROVE  Backed(reservedStart'[m], reservedEnd'[m], nextToIssue'[m])
  <2>1. /\ nextToIssue[m] < reservedEnd[m] /\ nextToIssue'[m] = nextToIssue[m] + 1
        /\ UNCHANGED <<reservedStart, reservedEnd>>
    BY <1>2, IssueEffect
  <2>2. PICK i \in 1..Len(log) : /\ reservedStart[m] = log[i].base
                                 /\ reservedEnd[m] = log[i].base + BlockSize
                                 /\ nextToIssue[m] > log[i].base
    BY <2>1 DEF IssuedFromCommittedBlock, End
  <2>3. nextToIssue'[m] > log[i].base
    BY <2>1, <2>2, NodeTypes, LogTypes
  <2> QED BY <2>1, <2>2, <2>3
<1>3. ASSUME NEW c \in Calls, Reserved(c), node[c] = m
      PROVE  Backed(reservedStart'[m], reservedEnd'[m], nextToIssue'[m])
  <2>1. /\ pc[c] = "answered" /\ reservedStart'[m] = current[c]
        /\ reservedEnd'[m] = current[c] + BlockSize /\ nextToIssue'[m] = current[c] + 1
    BY <1>3, ReservedEffect
  <2>2. PICK i \in 1..Len(log) : log[i] = [term |-> proposedIn[c], base |-> current[c]]
    BY <2>1 DEF ClaimCommitted, Committed
  <2>3. log[i].base = current[c] /\ current[c] \in Nat
    BY <2>2, CallTypes
  <2> QED BY <2>1, <2>2, <2>3
<1>4. ASSUME NEW n \in Nodes, Restart(n), n = m
      PROVE  FALSE
  BY <1>4, RestartEffect
<1>5. ASSUME NEW n \in Nodes, ResetBlock(n), n = m
      PROVE  FALSE
  BY <1>5, ResetEffect
<1> QED
  BY <1>1, <1>2, <1>3, <1>4, <1>5, StepCases, ElectEffect, StepDownEffect, CommitEffect,
     ApplyEffect, SnapshotEffect, RestartEffect, ResetEffect, CallEffect, IssueEffect,
     ReadEffect, ProposeEffect, FailEffect, ReservedEffect DEF core, blockVars

----------------------------------------------------------------------------
(***************************************************************************)
(* The first theorems                                                      *)
(***************************************************************************)

LEMMA SafeInit == Init => SafeInv
<1> SUFFICES ASSUME Init PROVE SafeInv
  OBVIOUS
<1> USE DEF Init
<1>1. TypeOK
  BY DEF TypeOK, CallStates, Entry
<1>2. Len(log) = 0
  OBVIOUS
<1>3. TermInv
  BY <1>2 DEF TermInv
<1>4. FsmInv
  BY <1>2 DEF FsmInv
<1>5. MutexInv
  BY DEF MutexInv, Reserving
<1>6. OwnEntriesInv
  BY DEF OwnEntriesInv
<1>7. InflightInv
  BY DEF InflightInv
<1>8. ReadInv /\ ClaimTerms /\ ClaimUnique /\ ClaimEntries /\ ClaimCommitted
  BY DEF ReadInv, ClaimTerms, ClaimUnique, ClaimEntries, ClaimCommitted, Claiming
<1>9. TermBlocksContiguous
  BY <1>2 DEF TermBlocksContiguous
<1>10. IssuedFromCommittedBlock
  BY DEF IssuedFromCommittedBlock
<1> QED BY <1>1, <1>3, <1>4, <1>5, <1>6, <1>7, <1>8, <1>9, <1>10 DEF SafeInv

LEMMA SafeStep == SafeInv /\ [Next]_vars => SafeInv'
BY TypeStep, TermStep, FsmStep, MutexStep, OwnEntriesStep, InflightStep, ReadStep,
   ClaimTermsStep, ClaimUniqueStep, ClaimEntriesStep, ClaimCommittedStep,
   ContiguousStep, IssuedStep DEF SafeInv

LEMMA SafeAlways == Spec => []SafeInv
  BY SafeInit, SafeStep, PTL DEF Spec

\* Type correctness of the reservation protocol.
THEOREM TypeCorrect == Spec => []TypeOK
<1>1. SafeInv => TypeOK
  BY DEF SafeInv
<1> QED BY <1>1, SafeAlways, PTL

\* Within a term the committed blocks follow each other without overlap or gap,
\* for any number of nodes, calls and elections and any block size: a leader
\* cannot read the counter for its next block (cluster.go:228) before its FSM
\* applied the block before.
THEOREM TermBlocksTheorem == Spec => []TermBlocksContiguous
<1>1. SafeInv => TermBlocksContiguous
  BY DEF SafeInv
<1> QED BY <1>1, SafeAlways, PTL

\* A node only hands out values of a block whose reservation is committed
\* (cluster.go:235-241).
THEOREM IssuedTheorem == Spec => []IssuedFromCommittedBlock
<1>1. SafeInv => IssuedFromCommittedBlock
  BY DEF SafeInv
<1> QED BY <1>1, SafeAlways, PTL

----------------------------------------------------------------------------
(***************************************************************************)
(* The order of the blocks                                                 *)
(***************************************************************************)

\* An entry that commits lies beyond all blocks of its term.
LEMMA TermTop ==
  ASSUME SafeInv, TermOrdered, NEW e \in inflight, Commit(e),
         NEW i \in 1..Len(log), log[i].term = e.term
  PROVE  End(log[i]) <= e.base
<1>1. TypeOK /\ TermInv /\ InflightInv
  BY DEF SafeInv
<1> DEFINE l == Len(log)
<1>2. l \in Nat /\ l > 0 /\ l \in 1..l /\ i <= l
  BY <1>1, LogTypes
<1>3. log[l].term = e.term
  <2>1. log[i].term <= log[l].term
    BY <1>1, <1>2 DEF TermInv
  <2>2. log[l].term <= e.term
    BY <1>1, <1>2, CommitEffect
  <2> QED BY <1>1, <1>2, <2>1, <2>2, LogTypes
<1>4. e.base = End(log[l])
  BY <1>1, <1>2, <1>3 DEF InflightInv
<1>5. CASE i = l
  BY <1>1, <1>4, <1>5, LogTypes
<1>6. CASE i < l
  <2>1. End(log[i]) <= log[l].base
    BY <1>2, <1>3, <1>6 DEF TermOrdered
  <2> QED BY <1>1, <1>2, <1>4, <2>1, LogTypes
<1> QED BY <1>2, <1>5, <1>6

LEMMA TermOrderedStep ==
  ASSUME SafeInv, TermOrdered, [Next]_vars
  PROVE  TermOrdered'
<1>1. TypeOK /\ MutexInv
  BY DEF SafeInv
<1>2. ASSUME NEW e \in inflight, Commit(e) PROVE TermOrdered'
  <2>1. /\ Len(log') = Len(log) + 1 /\ Len(log) \in Nat
        /\ \A i \in 1..Len(log) : log'[i] = log[i]
        /\ log'[Len(log) + 1] = e
    BY <1>1, <1>2, CommitEffect, LogTypes
  <2>2. ASSUME NEW i \in 1..Len(log'), NEW j \in 1..Len(log'), i < j,
               log'[i].term = log'[j].term
        PROVE  End(log'[i]) <= log'[j].base
    <3>1. i \in 1..Len(log) /\ log'[i] = log[i]
      BY <2>1, <2>2
    <3>2. CASE j = Len(log) + 1
      BY <1>2, <2>1, <2>2, <3>1, <3>2, TermTop
    <3>3. CASE j # Len(log) + 1
      BY <2>1, <2>2, <3>1, <3>3 DEF TermOrdered
    <3> QED BY <3>2, <3>3
  <2> QED BY <2>2 DEF TermOrdered, End
<1>3. CASE UNCHANGED log
  BY <1>3 DEF TermOrdered, End
<1> QED
  BY <1>1, <1>2, <1>3, StepCases, ElectEffect, StepDownEffect, ApplyEffect, SnapshotEffect,
     RestartEffect, ResetEffect, CallEffect, IssueEffect, ReadEffect, ProposeEffect,
     FailEffect, ReservedEffect DEF core

\* A stale reservation stays in the log: what is fresh now was fresh before.
LEMMA FreshBefore ==
  ASSUME TypeOK, MutexInv, [Next]_vars, AllFresh'
  PROVE  AllFresh
<1> SUFFICES ASSUME NEW i \in 1..Len(log) PROVE log[i].base = CounterAt(i-1)
  BY DEF AllFresh, Fresh
<1>1. i \in 1..Len(log') /\ log'[i] = log[i]
  BY LogGrows
<1>2. i # 1 => i - 1 \in 1..Len(log) /\ log'[i-1] = log[i-1]
  BY LogGrows, LogTypes
<1>3. log'[i].base = CounterAt(i-1)'
  BY <1>1 DEF AllFresh, Fresh
<1> QED BY <1>1, <1>2, <1>3 DEF CounterAt, End

\* Every committed block ends at or below the committed counter.
LEMMA OrderedTop ==
  ASSUME TypeOK, Ordered
  PROVE  /\ CounterAt(Len(log)) \in Nat
         /\ \A i \in 1..Len(log) : log[i].base + BlockSize <= CounterAt(Len(log))
<1>1. CounterAt(Len(log)) \in Nat
  BY LogTypes, CounterAtType
<1>2. ASSUME NEW i \in 1..Len(log) PROVE log[i].base + BlockSize <= CounterAt(Len(log))
  <2>1. Len(log) \in 1..Len(log) /\ CounterAt(Len(log)) = log[Len(log)].base + BlockSize
    BY <1>2, LogTypes DEF CounterAt, End
  <2>2. CASE i = Len(log)
    BY <2>1, <2>2, LogTypes
  <2>3. CASE i < Len(log)
    BY <2>1, <2>3, LogTypes DEF Ordered, End
  <2> QED BY <2>1, <2>2, <2>3, LogTypes
<1> QED BY <1>1, <1>2

LEMMA OrderedStep ==
  ASSUME TypeOK, MutexInv, AllFresh', Ordered, [Next]_vars
  PROVE  Ordered'
<1>1. ASSUME NEW e \in inflight, Commit(e)
      PROVE  Ordered'
  <2>1. /\ Len(log') = Len(log) + 1 /\ Len(log) \in Nat
        /\ \A i \in 1..Len(log) : log'[i] = log[i]
        /\ log'[Len(log) + 1] = e
        /\ e.base \in Nat
    BY <1>1, CommitEffect, LogTypes
  <2>3. e.base = CounterAt(Len(log))
    <3>1. Len(log) + 1 \in 1..Len(log') /\ (Len(log) + 1) - 1 = Len(log)
      BY <2>1
    <3>2. \A i \in 1..Len(log') :
             log'[i].base = IF i - 1 = 0 THEN 0 ELSE log'[i-1].base + BlockSize
      BY DEF AllFresh, Fresh, CounterAt, End
    <3>3. log'[Len(log) + 1].base =
             IF Len(log) = 0 THEN 0 ELSE log'[Len(log)].base + BlockSize
      BY <3>1, <3>2
    <3>4. Len(log) # 0 => log'[Len(log)] = log[Len(log)]
      BY <2>1
    <3> QED BY <2>1, <3>3, <3>4 DEF CounterAt, End
  <2>4. ASSUME NEW i \in 1..Len(log'), NEW j \in 1..Len(log'), i < j
        PROVE  End(log'[i]) <= log'[j].base
    <3>1. CASE j = Len(log) + 1
      BY <2>1, <2>3, <2>4, <3>1, OrderedTop DEF End
    <3>2. CASE j # Len(log) + 1
      BY <2>1, <2>4, <3>2 DEF Ordered
    <3> QED BY <3>1, <3>2
  <2>5. Ordered'
    BY <2>4 DEF Ordered, End
  <2> QED BY <2>5
<1>2. CASE UNCHANGED log
  BY <1>2 DEF Ordered, End
<1> QED
  BY <1>1, <1>2, StepCases, ElectEffect, StepDownEffect, ApplyEffect, SnapshotEffect,
     RestartEffect, ResetEffect, CallEffect, IssueEffect, ReadEffect, ProposeEffect,
     FailEffect, ReservedEffect DEF core

\* As long as all blocks are fresh they follow each other.
LEMMA FreshOrderedStep ==
  ASSUME SafeInv, FreshOrdered, [Next]_vars
  PROVE  FreshOrdered'
<1>1. TypeOK /\ MutexInv
  BY DEF SafeInv
<1> SUFFICES ASSUME AllFresh' PROVE Ordered'
  BY DEF FreshOrdered
<1>2. Ordered
  BY <1>1, FreshBefore DEF FreshOrdered
<1> QED BY <1>1, <1>2, OrderedStep

\* Known, of the log after the step.
KnownNext(v) == \E i \in 0..Len(log') : v = IF i = 0 THEN 0 ELSE End(log'[i])

\* What was a counter of the log remains one.
LEMMA KnownKept ==
  ASSUME TypeOK, MutexInv, [Next]_vars, NEW v, Known(v), Len(log') \in Nat
  PROVE  KnownNext(v)
<1>1. PICK i \in 0..Len(log) : v = CounterAt(i)
  BY DEF Known
<1>2. CASE i = 0
  BY <1>1, <1>2 DEF KnownNext, CounterAt
<1>3. CASE i # 0
  <2>1. i \in 1..Len(log)
    BY <1>3, LogTypes
  <2>2. i \in 1..Len(log') /\ log'[i] = log[i]
    BY <2>1, LogGrows
  <2> QED BY <1>1, <1>3, <2>2 DEF KnownNext, CounterAt
<1> QED BY <1>2, <1>3

LEMMA CountersKnownStep ==
  ASSUME SafeInv, CountersKnown, [Next]_vars
  PROVE  CountersKnown'
<1>1. TypeOK /\ MutexInv /\ FsmInv
  BY DEF SafeInv
<1>2. Len(log') \in Nat
  <2>1. TypeOK'
    BY TypeStep DEF SafeInv
  <2> QED BY <2>1 DEF TypeOK
<1>3. \A v : Known(v) => KnownNext(v)
  BY <1>1, <1>2, KnownKept
<1>4. ASSUME NEW n \in Nodes PROVE KnownNext(counter'[n])
  <2>1. Known(counter[n])
    BY DEF CountersKnown
  <2>2. ASSUME ApplyReserveBlock(n) PROVE Known(counter'[n])
    <3>1. /\ applied[n] + 1 \in 0..Len(log) /\ applied[n] + 1 # 0
          /\ counter'[n] = End(log[applied[n] + 1])
      BY <1>1, <2>2, ApplyEffect, NodeTypes, LogTypes
    <3> QED BY <3>1 DEF Known, CounterAt
  <2>3. ASSUME Restart(n) PROVE Known(counter'[n])
    <3>1. counter'[n] = IF snapshot[n] = 0 THEN counter[n] ELSE CounterAt(snapshot[n])
      BY <1>1, <2>3, RestartEffect
    <3>2. snapshot[n] \in 0..Len(log)
      BY <1>1, NodeTypes, LogTypes DEF FsmInv
    <3> QED BY <2>1, <3>1, <3>2 DEF Known
  <2>4. \/ counter'[n] = counter[n] \/ ApplyReserveBlock(n) \/ Restart(n)
    BY <1>1, StepCases, ElectEffect, StepDownEffect, CommitEffect, ApplyEffect,
       SnapshotEffect, RestartEffect, ResetEffect, CallEffect, IssueEffect, ReadEffect,
       ProposeEffect, FailEffect, ReservedEffect DEF core
  <2> QED BY <1>3, <2>1, <2>2, <2>3, <2>4
<1>5. ASSUME NEW c \in Calls, pc'[c] = "read" PROVE KnownNext(current'[c])
  <2>1. CASE ReadCounter(c)
    <3>1. node[c] \in Nodes /\ current'[c] = counter[node[c]]
      BY <1>1, <2>1, ReadEffect
    <3> QED BY <1>3, <3>1 DEF CountersKnown
  <2>2. CASE ~ReadCounter(c)
    <3>1. pc[c] = "read" /\ current'[c] = current[c]
      BY <1>1, <1>5, <2>2, StepCases, ElectEffect, StepDownEffect, CommitEffect, ApplyEffect,
         SnapshotEffect, RestartEffect, ResetEffect, CallEffect, IssueEffect, ReadEffect,
         ProposeEffect, FailEffect, ReservedEffect DEF core
    <3> QED BY <1>3, <3>1 DEF CountersKnown
  <2> QED BY <2>1, <2>2
<1>6. ASSUME NEW e \in inflight' PROVE KnownNext(e.base)
  <2>1. CASE e \in inflight
    BY <1>3, <2>1 DEF CountersKnown
  <2>2. CASE e \notin inflight
    <3>1. PICK c \in Calls : Propose(c)
      BY <1>1, <1>6, <2>2, StepCases, ElectEffect, StepDownEffect, CommitEffect, ApplyEffect,
         SnapshotEffect, RestartEffect, ResetEffect, CallEffect, IssueEffect, ReadEffect,
         FailEffect, ReservedEffect DEF core
    <3>2. pc[c] = "read" /\ e = [term |-> leaderTerm[node[c]], base |-> current[c]]
      BY <1>1, <1>6, <2>2, <3>1, ProposeEffect
    <3> QED BY <1>3, <3>2 DEF CountersKnown
  <2> QED BY <2>1, <2>2
<1> QED BY <1>4, <1>5, <1>6 DEF CountersKnown, KnownNext, Known, CounterAt, End

----------------------------------------------------------------------------
(***************************************************************************)
(* Where the values are from                                               *)
(***************************************************************************)

\* The conjuncts of OnceInv.
Once(given, left) ==
  /\ GivenInBlock(given) /\ GivenOnce(given)
  /\ LeftInBlock(left) /\ LeftNotGiven(given, left)
  /\ LeftDisjoint(left) /\ ClaimedUnused(given, left)

\* What a leader proposes is not what an entry already holds.
LEMMA NewProposal ==
  ASSUME SafeInv, TermOrdered, NEW c \in Calls, Propose(c)
  PROVE  ~Committed(c)'
<1> DEFINE n == node[c]
           t == leaderTerm[n]
<1>1. TypeOK /\ TermInv /\ FsmInv /\ MutexInv /\ OwnEntriesInv /\ ReadInv
  BY DEF SafeInv
<1>2. /\ n \in Nodes /\ mu[n] = c /\ pc[c] = "read" /\ t # 0
      /\ proposedIn'[c] = t /\ UNCHANGED <<log, current>>
  BY <1>1, ProposeEffect
<1> SUFFICES ASSUME NEW i \in 1..Len(log), log[i].term = t, log[i].base = current[c]
             PROVE  FALSE
  BY <1>2 DEF Committed
<1>3. \A j \in 1..Len(log) : j > applied[n] => log[j].term # t
  BY <1>1, <1>2, OwnIdle
<1>4. /\ applied[n] \in Nat /\ applied[n] <= Len(log) /\ Len(log) \in Nat
      /\ \A j \in 1..applied[n] : log[j].term <= t
  BY <1>1, <1>2, NodeTypes, LogTypes DEF FsmInv
<1>5. i <= applied[n] /\ applied[n] \in 1..Len(log) /\ applied[n] > 0
  BY <1>3, <1>4
<1>6. log[applied[n]].term = t
  <2>1. log[i].term <= log[applied[n]].term
    BY <1>1, <1>5 DEF TermInv
  <2>2. log[applied[n]].term <= t
    BY <1>4, <1>5
  <2> QED BY <1>1, <1>5, <2>1, <2>2, LogTypes
<1>7. current[c] = End(log[applied[n]])
  BY <1>1, <1>2, <1>5, <1>6 DEF ReadInv, CounterAt
<1>8. End(log[i]) <= End(log[applied[n]])
  <2>1. CASE i = applied[n]
    BY <1>1, <1>5, <2>1, LogTypes
  <2>2. CASE i < applied[n]
    <3>1. End(log[i]) <= log[applied[n]].base
      BY <1>5, <1>6, <2>2 DEF TermOrdered
    <3> QED BY <1>1, <1>5, <3>1, LogTypes
  <2> QED BY <1>4, <1>5, <2>1, <2>2
<1> QED BY <1>1, <1>5, <1>7, <1>8, LogTypes

\* A claim whose reservation a step commits is for values beyond all blocks of
\* its term.
LEMMA NewlyCommitted ==
  ASSUME SafeInv, TermOrdered, [Next]_vars, NEW c \in Calls, Claiming(c)', Committed(c)'
  PROVE  /\ Claiming(c) /\ UNCHANGED <<current[c], proposedIn[c]>>
         /\ \/ Committed(c)
            \/ /\ \A i \in 1..Len(log) :
                    log[i].term = proposedIn[c] => End(log[i]) <= current[c]
               /\ UNCHANGED <<pc, value, nextToIssue, reservedEnd>>
<1>1. TypeOK /\ MutexInv
  BY DEF SafeInv
<1>2. Claiming(c) /\ UNCHANGED <<current[c], proposedIn[c]>>
  BY <1>1, NewProposal, ClaimFrame
<1>3. ASSUME ~Committed(c)
      PROVE  /\ \A i \in 1..Len(log) :
                  log[i].term = proposedIn[c] => End(log[i]) <= current[c]
             /\ UNCHANGED <<pc, value, nextToIssue, reservedEnd>>
  <2>1. PICK e \in inflight : Commit(e)
    BY <1>1, <1>2, <1>3, StepCases, ElectEffect, StepDownEffect, CommitEffect, ApplyEffect,
       SnapshotEffect, RestartEffect, ResetEffect, CallEffect, IssueEffect, ReadEffect,
       ProposeEffect, FailEffect, ReservedEffect DEF core, Committed
  <2>2. /\ Len(log') = Len(log) + 1 /\ Len(log) \in Nat
        /\ \A i \in 1..Len(log) : log'[i] = log[i]
        /\ log'[Len(log) + 1] = e
        /\ UNCHANGED <<pc, value, nextToIssue, reservedEnd>>
    BY <1>1, <2>1, CommitEffect, LogTypes DEF blockVars
  <2>3. PICK i \in 1..Len(log') : log'[i] = [term |-> proposedIn[c], base |-> current[c]]
    BY <1>2 DEF Committed
  <2>4. i = Len(log) + 1
    BY <1>3, <2>2, <2>3 DEF Committed
  <2>5. e.term = proposedIn[c] /\ e.base = current[c]
    BY <2>2, <2>3, <2>4
  <2> QED BY <2>1, <2>2, <2>5, TermTop
<1> QED BY <1>2, <1>3

\* A step that gives nothing and installs nothing leaves the values where they
\* were, whatever it commits and whichever block it drops.
LEMMA OnceFrame ==
  ASSUME SafeInv, TermOrdered, [Next]_vars, NEW g, NEW l, Once(g, l),
         \A n \in Nodes : \/ UNCHANGED <<nextToIssue[n], reservedEnd[n]>>
                          \/ nextToIssue'[n] = 0 /\ reservedEnd'[n] = 0,
         value' = value, \A c \in Calls : pc'[c] = "done" => pc[c] = "done"
  PROVE  Once(g, l)'
<1>1. TypeOK /\ MutexInv
  BY DEF SafeInv
<1>2. \A n \in Nodes : Left(n)' => Left(n) /\ UNCHANGED <<nextToIssue[n], reservedEnd[n]>>
  BY DEF Left
<1>3. \A i \in 1..Len(log) : i \in 1..Len(log') /\ log'[i] = log[i]
  BY <1>1, LogGrows
<1>4. GivenInBlock(g)' /\ GivenOnce(g)'
  <2>1. GivenInBlock(g)'
    BY <1>3 DEF Once, GivenInBlock, End
  <2>2. GivenOnce(g)'
    BY DEF Once, GivenOnce
  <2> QED BY <2>1, <2>2
<1>5. LeftInBlock(l)'
  BY <1>2, <1>3 DEF Once, LeftInBlock, End
<1>6. LeftNotGiven(g, l)'
  BY <1>2 DEF Once, LeftNotGiven
<1>7. LeftDisjoint(l)'
  BY <1>2 DEF Once, LeftDisjoint
<1>8. ClaimedUnused(g, l)'
  <2> SUFFICES ASSUME NEW c \in Calls, Claiming(c)', Committed(c)'
               PROVE  /\ \A d \in Calls : pc'[d] = "done" /\ g[d] = proposedIn'[c] =>
                           value'[d] < current'[c] \/ value'[d] >= current'[c] + BlockSize
                      /\ \A n \in Nodes : Left(n)' /\ l[n] = proposedIn'[c] =>
                           \/ reservedEnd'[n] <= current'[c]
                           \/ nextToIssue'[n] >= current'[c] + BlockSize
    BY DEF ClaimedUnused
  <2>1. Claiming(c) /\ UNCHANGED <<current[c], proposedIn[c]>>
    BY NewlyCommitted
  <2>2. CASE Committed(c)
    BY <1>2, <2>1, <2>2 DEF Once, ClaimedUnused
  <2>3. CASE \A i \in 1..Len(log) :
               log[i].term = proposedIn[c] => End(log[i]) <= current[c]
    <3>1. ASSUME NEW d \in Calls, pc[d] = "done", g[d] = proposedIn[c]
          PROVE  value[d] < current[c]
      <4>1. PICK i \in 1..Len(log) : log[i].term = g[d] /\ value[d] < End(log[i])
        BY <3>1 DEF Once, GivenInBlock
      <4>2. End(log[i]) <= current[c]
        BY <2>3, <3>1, <4>1
      <4> QED BY <1>1, <4>1, <4>2, LogTypes, CallTypes
    <3>2. ASSUME NEW n \in Nodes, Left(n), l[n] = proposedIn[c]
          PROVE  reservedEnd[n] <= current[c]
      BY <2>3, <3>2 DEF Once, LeftInBlock
    <3> QED BY <1>2, <2>1, <3>1, <3>2
  <2> QED BY <2>2, <2>3, NewlyCommitted
<1> QED BY <1>4, <1>5, <1>6, <1>7, <1>8 DEF Once

\* Issue: the value is from the block left on the node.
LEMMA OnceIssue ==
  ASSUME SafeInv, TermOrdered, [Next]_vars, NEW g, NEW l, Once(g, l),
         NEW d \in Calls, Issue(d),
         NEW h, h[d] = l[node[d]], \A c \in Calls : c # d => h[c] = g[c]
  PROVE  Once(h, l)'
<1> DEFINE n == node[d]
<1>0. TypeOK /\ MutexInv
  BY DEF SafeInv
<1>1. /\ n \in Nodes /\ pc[d] = "queued" /\ pc'[d] = "done"
      /\ nextToIssue[n] < reservedEnd[n]
      /\ value'[d] = nextToIssue[n] /\ nextToIssue'[n] = nextToIssue[n] + 1
      /\ \A m \in Nodes : m # n => nextToIssue'[m] = nextToIssue[m]
      /\ \A c \in Calls : c # d => pc'[c] = pc[c] /\ value'[c] = value[c]
      /\ UNCHANGED <<log, reservedEnd>>
  BY <1>0, IssueEffect
<1>2. /\ \A m \in Nodes : nextToIssue[m] \in Nat /\ reservedEnd[m] \in Nat
      /\ \A c \in Calls : value[c] \in Nat /\ current[c] \in Nat
  BY <1>0, NodeTypes, CallTypes
<1>3. \A m \in Nodes : /\ Left(m)' => Left(m)
                       /\ nextToIssue'[m] >= nextToIssue[m] /\ nextToIssue'[m] \in Nat
  BY <1>1, <1>2 DEF Left
<1>4. Left(n)
  BY <1>1 DEF Left
<1>5. GivenInBlock(h)'
  <2> SUFFICES ASSUME NEW c \in Calls, pc'[c] = "done"
               PROVE  \E i \in 1..Len(log) : /\ log[i].term = h[c]
                                             /\ log[i].base <= value'[c]
                                             /\ value'[c] < End(log[i])
    BY <1>1 DEF GivenInBlock, End
  <2>1. CASE c = d
    <3>1. PICK i \in 1..Len(log) : /\ log[i].term = l[n] /\ log[i].base < nextToIssue[n]
                                   /\ reservedEnd[n] = End(log[i])
      BY <1>1, <1>4 DEF Once, LeftInBlock
    <3>2. log[i].base <= nextToIssue[n] /\ nextToIssue[n] < End(log[i])
      BY <1>0, <1>1, <1>2, <3>1, LogTypes
    <3> QED BY <1>1, <2>1, <3>1, <3>2
  <2>2. CASE c # d
    BY <1>1, <2>2 DEF Once, GivenInBlock
  <2> QED BY <2>1, <2>2
<1>6. GivenOnce(h)'
  <2>1. \A c \in Calls : pc[c] = "done" /\ g[c] = l[n] => value[c] # nextToIssue[n]
    BY <1>1, <1>2, <1>4 DEF Once, LeftNotGiven
  <2>2. \A b, c \in Calls :
          pc[b] = "done" /\ pc[c] = "done" /\ g[b] = g[c] /\ value[b] = value[c] => b = c
    BY DEF Once, GivenOnce
  <2> QED BY <1>1, <2>1, <2>2 DEF GivenOnce
<1>7. LeftInBlock(l)'
  <2> SUFFICES ASSUME NEW m \in Nodes, Left(m)'
               PROVE  \E i \in 1..Len(log) : /\ log[i].term = l[m]
                                             /\ log[i].base < nextToIssue'[m]
                                             /\ reservedEnd[m] = End(log[i])
    BY <1>1 DEF LeftInBlock, End
  <2>1. PICK i \in 1..Len(log) : /\ log[i].term = l[m] /\ log[i].base < nextToIssue[m]
                                 /\ reservedEnd[m] = End(log[i])
    BY <1>3 DEF Once, LeftInBlock
  <2>2. log[i].base < nextToIssue'[m]
    BY <1>0, <1>2, <1>3, <2>1, LogTypes
  <2> QED BY <2>1, <2>2
<1>8. LeftNotGiven(h, l)'
  <2> SUFFICES ASSUME NEW m \in Nodes, NEW c \in Calls, Left(m), pc'[c] = "done", h[c] = l[m]
               PROVE  value'[c] < nextToIssue'[m] \/ value'[c] >= reservedEnd[m]
    BY <1>1, <1>3 DEF LeftNotGiven
  <2>1. CASE c = d /\ m = n
    BY <1>1, <1>2, <2>1
  <2>2. CASE c = d /\ m # n
    <3>1. reservedEnd[m] <= nextToIssue[n] \/ reservedEnd[n] <= nextToIssue[m]
      BY <1>1, <1>4, <2>2 DEF Once, LeftDisjoint
    <3> QED BY <1>1, <1>2, <2>2, <3>1
  <2>3. CASE c # d
    <3>1. value[c] < nextToIssue[m] \/ value[c] >= reservedEnd[m]
      BY <1>1, <2>3 DEF Once, LeftNotGiven
    <3> QED BY <1>1, <1>2, <1>3, <2>3, <3>1
  <2> QED BY <2>1, <2>2, <2>3
<1>9. LeftDisjoint(l)'
  <2> SUFFICES ASSUME NEW m \in Nodes, NEW k \in Nodes, m # k, Left(m), Left(k), l[m] = l[k]
               PROVE  reservedEnd[m] <= nextToIssue'[k] \/ reservedEnd[k] <= nextToIssue'[m]
    BY <1>1, <1>3 DEF LeftDisjoint
  <2>1. reservedEnd[m] <= nextToIssue[k] \/ reservedEnd[k] <= nextToIssue[m]
    BY DEF Once, LeftDisjoint
  <2> QED BY <1>2, <1>3, <2>1
<1>10. ClaimedUnused(h, l)'
  <2> SUFFICES ASSUME NEW c \in Calls, Claiming(c)', Committed(c)'
               PROVE  /\ \A b \in Calls : pc'[b] = "done" /\ h[b] = proposedIn'[c] =>
                           value'[b] < current'[c] \/ value'[b] >= current'[c] + BlockSize
                      /\ \A m \in Nodes : Left(m)' /\ l[m] = proposedIn'[c] =>
                           \/ reservedEnd'[m] <= current'[c]
                           \/ nextToIssue'[m] >= current'[c] + BlockSize
    BY DEF ClaimedUnused
  <2> DEFINE v == current[c]
             w == current[c] + BlockSize
  <2>1. Claiming(c) /\ UNCHANGED <<current[c], proposedIn[c]>>
    BY NewlyCommitted
  <2>2. Committed(c)
    BY <1>1, <2>1 DEF Committed
  <2>3. /\ \A b \in Calls : pc[b] = "done" /\ g[b] = proposedIn[c] => value[b] < v \/ value[b] >= w
        /\ \A m \in Nodes : Left(m) /\ l[m] = proposedIn[c] =>
             reservedEnd[m] <= v \/ nextToIssue[m] >= w
    BY <2>1, <2>2 DEF Once, ClaimedUnused
  <2>4. v \in Nat /\ w \in Nat
    BY <1>2
  <2>5. ASSUME NEW b \in Calls, pc'[b] = "done", h[b] = proposedIn[c]
        PROVE  value'[b] < v \/ value'[b] >= w
    <3>1. CASE b = d
      BY <1>1, <1>2, <1>4, <2>3, <2>4, <2>5, <3>1
    <3>2. CASE b # d
      BY <1>1, <2>3, <2>5, <3>2
    <3> QED BY <3>1, <3>2
  <2>6. ASSUME NEW m \in Nodes, Left(m), l[m] = proposedIn[c]
        PROVE  reservedEnd[m] <= v \/ nextToIssue'[m] >= w
    BY <1>2, <1>3, <2>3, <2>4, <2>6
  <2> QED BY <1>1, <1>3, <2>1, <2>5, <2>6
<1> QED BY <1>5, <1>6, <1>7, <1>8, <1>9, <1>10 DEF Once

\* Reserved: the value and what is left are from the block of the call's claim.
LEMMA OnceReserved ==
  ASSUME SafeInv, TermOrdered, [Next]_vars, NEW g, NEW l, Once(g, l),
         NEW d \in Calls, Reserved(d),
         NEW h, h[d] = proposedIn[d], \A c \in Calls : c # d => h[c] = g[c],
         NEW r, r[node[d]] = proposedIn[d], \A m \in Nodes : m # node[d] => r[m] = l[m]
  PROVE  Once(h, r)'
<1> DEFINE n == node[d]
           v == current[d]
           w == current[d] + BlockSize
<1>0. TypeOK /\ MutexInv /\ ClaimUnique /\ ClaimCommitted
  BY DEF SafeInv
<1>1. /\ n \in Nodes /\ pc[d] = "answered" /\ pc'[d] = "done" /\ value'[d] = v
      /\ reservedEnd'[n] = w /\ nextToIssue'[n] = v + 1
      /\ \A m \in Nodes : m # n =>
           nextToIssue'[m] = nextToIssue[m] /\ reservedEnd'[m] = reservedEnd[m]
      /\ \A c \in Calls : c # d => pc'[c] = pc[c] /\ value'[c] = value[c]
      /\ UNCHANGED <<log, current, proposedIn>>
  BY <1>0, ReservedEffect
<1>2. /\ \A m \in Nodes : nextToIssue[m] \in Nat /\ reservedEnd[m] \in Nat
      /\ \A c \in Calls : value[c] \in Nat /\ current[c] \in Nat
      /\ v \in Nat /\ w \in Nat /\ v < w
  BY <1>0, NodeTypes, CallTypes
<1>3. Claiming(d) /\ Committed(d)
  BY <1>0, <1>1 DEF Claiming, ClaimCommitted
<1>4. PICK i \in 1..Len(log) : log[i].term = proposedIn[d] /\ log[i].base = v
  BY <1>3 DEF Committed
<1>5. End(log[i]) = w
  BY <1>4 DEF End
<1>6. /\ \A c \in Calls : pc[c] = "done" /\ g[c] = proposedIn[d] => value[c] < v \/ value[c] >= w
      /\ \A m \in Nodes : Left(m) /\ l[m] = proposedIn[d] =>
           reservedEnd[m] <= v \/ nextToIssue[m] >= w
  BY <1>3 DEF Once, ClaimedUnused
<1>7. \A m \in Nodes : m # n => (Left(m)' <=> Left(m))
  BY <1>1 DEF Left
<1>8. GivenInBlock(h)'
  <2> SUFFICES ASSUME NEW c \in Calls, pc'[c] = "done"
               PROVE  \E j \in 1..Len(log) : /\ log[j].term = h[c]
                                             /\ log[j].base <= value'[c]
                                             /\ value'[c] < End(log[j])
    BY <1>1 DEF GivenInBlock, End
  <2>1. CASE c = d
    BY <1>1, <1>2, <1>4, <1>5, <2>1
  <2>2. CASE c # d
    BY <1>1, <2>2 DEF Once, GivenInBlock
  <2> QED BY <2>1, <2>2
<1>9. GivenOnce(h)'
  <2>1. \A c \in Calls : pc[c] = "done" /\ g[c] = proposedIn[d] => value[c] # v
    BY <1>2, <1>6
  <2>2. \A b, c \in Calls :
          pc[b] = "done" /\ pc[c] = "done" /\ g[b] = g[c] /\ value[b] = value[c] => b = c
    BY DEF Once, GivenOnce
  <2> QED BY <1>1, <2>1, <2>2 DEF GivenOnce
<1>10. LeftInBlock(r)'
  <2> SUFFICES ASSUME NEW m \in Nodes, Left(m)'
               PROVE  \E j \in 1..Len(log) : /\ log[j].term = r[m]
                                             /\ log[j].base < nextToIssue'[m]
                                             /\ reservedEnd'[m] = End(log[j])
    BY <1>1 DEF LeftInBlock, End
  <2>1. CASE m = n
    <3>1. log[i].base < v + 1
      BY <1>2, <1>4
    <3> QED BY <1>1, <1>4, <1>5, <2>1, <3>1
  <2>2. CASE m # n
    BY <1>1, <1>7, <2>2 DEF Once, LeftInBlock
  <2> QED BY <2>1, <2>2
<1>11. LeftNotGiven(h, r)'
  <2> SUFFICES ASSUME NEW m \in Nodes, NEW c \in Calls, Left(m)', pc'[c] = "done", h[c] = r[m]
               PROVE  value'[c] < nextToIssue'[m] \/ value'[c] >= reservedEnd'[m]
    BY DEF LeftNotGiven
  <2>1. CASE c = d /\ m = n
    BY <1>1, <1>2, <2>1
  <2>2. CASE c # d /\ m = n
    <3>1. value[c] < v \/ value[c] >= w
      BY <1>1, <1>6, <2>2
    <3> QED BY <1>1, <1>2, <2>2, <3>1
  <2>3. CASE c = d /\ m # n
    <3>1. reservedEnd[m] <= v \/ nextToIssue[m] >= w
      BY <1>1, <1>6, <1>7, <2>3
    <3> QED BY <1>1, <1>2, <2>3, <3>1
  <2>4. CASE c # d /\ m # n
    BY <1>1, <1>7, <2>4 DEF Once, LeftNotGiven
  <2> QED BY <2>1, <2>2, <2>3, <2>4
<1>12. LeftDisjoint(r)'
  <2>1. ASSUME NEW m \in Nodes, m # n, Left(m), l[m] = proposedIn[d]
        PROVE  reservedEnd[m] <= v + 1 \/ w <= nextToIssue[m]
    BY <1>2, <1>6, <2>1
  <2>2. \A m, k \in Nodes :
          m # k /\ Left(m) /\ Left(k) /\ l[m] = l[k] =>
            reservedEnd[m] <= nextToIssue[k] \/ reservedEnd[k] <= nextToIssue[m]
    BY DEF Once, LeftDisjoint
  <2> QED BY <1>1, <1>7, <2>1, <2>2 DEF LeftDisjoint
<1>13. ClaimedUnused(h, r)'
  <2> SUFFICES ASSUME NEW c \in Calls, Claiming(c)', Committed(c)'
               PROVE  /\ \A b \in Calls : pc'[b] = "done" /\ h[b] = proposedIn[c] =>
                           value'[b] < current[c] \/ value'[b] >= current[c] + BlockSize
                      /\ \A m \in Nodes : Left(m)' /\ r[m] = proposedIn[c] =>
                           \/ reservedEnd'[m] <= current[c]
                           \/ nextToIssue'[m] >= current[c] + BlockSize
    BY <1>1 DEF ClaimedUnused
  <2>1. Claiming(c) /\ Committed(c)
    BY <1>1, NewlyCommitted DEF Committed
  <2>2. c # d
    BY <1>1 DEF Claiming
  <2>3. proposedIn[c] # proposedIn[d]
    BY <1>0, <1>3, <2>1, <2>2 DEF ClaimUnique
  <2>4. /\ \A b \in Calls : pc[b] = "done" /\ g[b] = proposedIn[c] =>
             value[b] < current[c] \/ value[b] >= current[c] + BlockSize
        /\ \A m \in Nodes : Left(m) /\ l[m] = proposedIn[c] =>
             reservedEnd[m] <= current[c] \/ nextToIssue[m] >= current[c] + BlockSize
    BY <2>1 DEF Once, ClaimedUnused
  <2> QED BY <1>1, <1>7, <2>3, <2>4
<1> QED BY <1>8, <1>9, <1>10, <1>11, <1>12, <1>13 DEF Once

LEMMA OnceStep ==
  ASSUME SafeInv, TermOrdered, OnceInv, [Next]_vars
  PROVE  OnceInv'
<1>0. TypeOK /\ MutexInv
  BY DEF SafeInv
<1>1. PICK g \in [Calls -> 0..MaxTerm], l \in [Nodes -> 0..MaxTerm] : Once(g, l)
  BY DEF OnceInv, Once
<1>2. ASSUME NEW h \in [Calls -> 0..MaxTerm], NEW r \in [Nodes -> 0..MaxTerm], Once(h, r)'
      PROVE  OnceInv'
  BY <1>2 DEF OnceInv, Once
<1>3. ASSUME NEW d \in Calls, Issue(d) PROVE OnceInv'
  <2>1. node[d] \in Nodes
    BY <1>0, <1>3, IssueEffect
  <2>2. PICK h \in [Calls -> 0..MaxTerm] :
          h[d] = l[node[d]] /\ \A c \in Calls : c # d => h[c] = g[c]
    <3> DEFINE x == [g EXCEPT ![d] = l[node[d]]]
    <3>1. /\ x \in [Calls -> 0..MaxTerm] /\ x[d] = l[node[d]]
          /\ \A c \in Calls : c # d => x[c] = g[c]
      BY <1>1, <2>1
    <3> QED BY <3>1
  <2> QED BY <1>1, <1>2, <1>3, <2>2, OnceIssue
<1>4. ASSUME NEW d \in Calls, Reserved(d) PROVE OnceInv'
  <2>1. node[d] \in Nodes /\ proposedIn[d] \in 0..MaxTerm
    BY <1>0, <1>4, ReservedEffect DEF TypeOK
  <2>2. PICK h \in [Calls -> 0..MaxTerm] :
          h[d] = proposedIn[d] /\ \A c \in Calls : c # d => h[c] = g[c]
    <3> DEFINE x == [g EXCEPT ![d] = proposedIn[d]]
    <3>1. /\ x \in [Calls -> 0..MaxTerm] /\ x[d] = proposedIn[d]
          /\ \A c \in Calls : c # d => x[c] = g[c]
      BY <1>1, <2>1
    <3> QED BY <3>1
  <2>3. PICK r \in [Nodes -> 0..MaxTerm] :
          r[node[d]] = proposedIn[d] /\ \A m \in Nodes : m # node[d] => r[m] = l[m]
    <3> DEFINE x == [l EXCEPT ![node[d]] = proposedIn[d]]
    <3>1. /\ x \in [Nodes -> 0..MaxTerm] /\ x[node[d]] = proposedIn[d]
          /\ \A c \in Nodes : c # node[d] => x[c] = l[c]
      BY <1>1, <2>1
    <3> QED BY <3>1
  <2> QED BY <1>1, <1>2, <1>4, <2>2, <2>3, OnceReserved
<1>5. ASSUME \A n \in Nodes : \/ UNCHANGED <<nextToIssue[n], reservedEnd[n]>>
                              \/ nextToIssue'[n] = 0 /\ reservedEnd'[n] = 0,
             value' = value, \A c \in Calls : pc'[c] = "done" => pc[c] = "done"
      PROVE  OnceInv'
  BY <1>1, <1>2, <1>5, OnceFrame
<1>6. ASSUME NEW n \in Nodes, Restart(n) PROVE OnceInv'
  BY <1>0, <1>5, <1>6, RestartEffect
<1>7. ASSUME NEW n \in Nodes, ResetBlock(n) PROVE OnceInv'
  BY <1>0, <1>5, <1>7, ResetEffect
<1> QED
  BY <1>0, <1>3, <1>4, <1>5, <1>6, <1>7, StepCases, ElectEffect, StepDownEffect,
     CommitEffect, ApplyEffect, SnapshotEffect, CallEffect, ReadEffect, ProposeEffect,
     FailEffect DEF core, blockVars

\* The inductive invariant of the protocol.
THEOREM Inductive == Spec => []IInv
<1>1. ASSUME Init PROVE IInv
  <2>1. Len(log) = 0 /\ MaxTerm \in Nat
    BY <1>1 DEF Init
  <2>2. TermOrdered /\ FreshOrdered
    BY <2>1 DEF TermOrdered, FreshOrdered, Ordered
  <2>3. CountersKnown
    <3>1. Known(0)
      BY <2>1 DEF Known, CounterAt
    <3> QED BY <1>1, <3>1 DEF Init, CountersKnown
  <2>4. OnceInv
    <3>1. \A n \in Nodes : ~Left(n)
      BY <1>1 DEF Init, Left
    <3>2. \A c \in Calls : pc[c] = "new"
      BY <1>1 DEF Init
    <3>3. \A g, l : /\ GivenInBlock(g) /\ GivenOnce(g) /\ LeftInBlock(l)
                    /\ LeftNotGiven(g, l) /\ LeftDisjoint(l) /\ ClaimedUnused(g, l)
      BY <3>1, <3>2 DEF GivenInBlock, GivenOnce, LeftInBlock, LeftNotGiven, LeftDisjoint,
                        ClaimedUnused, Claiming
    <3>4. /\ [c \in Calls |-> 0] \in [Calls -> 0..MaxTerm]
          /\ [n \in Nodes |-> 0] \in [Nodes -> 0..MaxTerm]
      BY <2>1
    <3> QED BY <3>3, <3>4 DEF OnceInv
  <2> QED BY <1>1, <2>2, <2>3, <2>4, SafeInit DEF IInv
<1>2. IInv /\ [Next]_vars => IInv'
  BY SafeStep, TermOrderedStep, FreshOrderedStep, CountersKnownStep, OnceStep DEF IInv
<1> QED BY <1>1, <1>2, PTL DEF Spec

\* For any number of nodes, calls and elections and any block size, NextCounter
\* returns no value twice unless some reservation was computed from a counter
\* the reading node's FSM had not caught up with (cluster.go:228-232).
THEOREM UniqueTheorem == Spec => []UniqueUnlessStale
<1>1. ASSUME IInv PROVE UniqueUnlessStale
  <2>1. TypeOK
    BY <1>1 DEF IInv, SafeInv
  <2> SUFFICES ASSUME AllFresh, NEW c \in Calls, NEW d \in Calls, c # d,
                      pc[c] = "done", pc[d] = "done", value[c] = value[d]
               PROVE  FALSE
    BY DEF UniqueUnlessStale
  <2>2. Ordered
    BY <1>1 DEF IInv, FreshOrdered
  <2>3. PICK g \in [Calls -> 0..MaxTerm] : GivenInBlock(g) /\ GivenOnce(g)
    BY <1>1 DEF IInv, OnceInv
  <2>4. PICK i \in 1..Len(log) :
          log[i].term = g[c] /\ log[i].base <= value[c] /\ value[c] < End(log[i])
    BY <2>3 DEF GivenInBlock
  <2>5. PICK j \in 1..Len(log) :
          log[j].term = g[d] /\ log[j].base <= value[d] /\ value[d] < End(log[j])
    BY <2>3 DEF GivenInBlock
  <2>6. i # j
    BY <2>3, <2>4, <2>5 DEF GivenOnce
  <2>7. End(log[i]) <= log[j].base \/ End(log[j]) <= log[i].base
    BY <2>1, <2>2, <2>6, LogTypes DEF Ordered
  <2>8. /\ log[i].base \in Nat /\ End(log[i]) \in Nat
        /\ log[j].base \in Nat /\ End(log[j]) \in Nat
    BY <2>1, LogTypes
  <2>9. value[c] \in Nat /\ value[d] = value[c]
    BY <2>1, CallTypes
  <2> QED BY <2>4, <2>5, <2>7, <2>8, <2>9
<1> QED BY <1>1, Inductive, PTL

----------------------------------------------------------------------------
(***************************************************************************)
(* CounterReservation implements CounterDispenser                          *)
(***************************************************************************)

\* What maps into a finite set one to one is not larger.
LEMMA NotLarger ==
  ASSUME NEW S, NEW T, IsFiniteSet(T), NEW f \in [S -> T],
         \A a, b \in S : f[a] = f[b] => a = b
  PROVE  IsFiniteSet(S) /\ Cardinality(S) <= Cardinality(T)
<1>1. f \in Injection(S, T)
  BY DEF Injection, IsInjective
<1> QED BY <1>1, FS_Injection

\* A call that returns gets a value that was given less often than reserved:
\* after the step, each call that has it can be assigned a block of its own.
LEMMA GiveStep ==
  ASSUME TypeOK, OnceInv', log' = log,
         NEW d \in Calls, pc[d] # "done", pc'[d] = "done", value'[d] \in Nat,
         \A c \in Calls : c # d => pc'[c] = pc[c] /\ value'[c] = value[c]
  PROVE  Promised!Next
<1> DEFINE v == value'[d]
           new == [call |-> d, value |-> v]
           taken == Promised!Takers(v) \cup {new}
           held == Promised!Holders(v)
<1>1. Given' = Given \cup {new}
  BY DEF Given
<1>2. \A x \in Given : x.call # d
  BY DEF Given
<1>3. PICK g \in [Calls -> 0..MaxTerm] : GivenInBlock(g)' /\ GivenOnce(g)'
  BY DEF OnceInv
<1>4. ASSUME NEW x \in taken
      PROVE  x.call \in Calls /\ pc'[x.call] = "done" /\ value'[x.call] = v
             /\ x = [call |-> x.call, value |-> v]
  BY <1>4 DEF Promised!Takers, Given
<1>5. ASSUME NEW c \in Calls, pc'[c] = "done", value'[c] = v
      PROVE  \E i \in held : log[i].term = g[c]
  <2>1. PICK i \in 1..Len(log) :
          log[i].term = g[c] /\ log[i].base <= v /\ v < End(log[i])
    BY <1>3, <1>5 DEF GivenInBlock, End
  <2>2. v \in Promised!Values(log[i])
    BY <2>1, LogTypes DEF Promised!Values, Promised!End, End
  <2> QED BY <2>1, <2>2 DEF Promised!Holders
<1> DEFINE f == [x \in taken |-> CHOOSE i \in held : log[i].term = g[x.call]]
<1>6. f \in [taken -> held] /\ \A x \in taken : log[f[x]].term = g[x.call]
  BY <1>4, <1>5
<1>7. ASSUME NEW x \in taken, NEW y \in taken, f[x] = f[y] PROVE x = y
  <2>1. g[x.call] = g[y.call]
    BY <1>6, <1>7
  <2>2. x.call = y.call
    BY <1>3, <1>4, <2>1 DEF GivenOnce
  <2> QED BY <1>4, <2>2
<1>8. IsFiniteSet(held)
  <2>1. held \in SUBSET (1..Len(log))
    BY DEF Promised!Holders
  <2>2. IsFiniteSet(1..Len(log))
    BY LogTypes, FS_Interval
  <2> HIDE DEF held
  <2> QED BY <2>1, <2>2, FS_Subset
<1>9. IsFiniteSet(taken) /\ Cardinality(taken) <= Cardinality(held)
  <2> HIDE DEF f, taken, held
  <2> QED BY <1>6, <1>7, <1>8, NotLarger
<1>10. Cardinality(Promised!Takers(v)) < Cardinality(held)
  <2>1. IsFiniteSet(Promised!Takers(v))
    <3>1. Promised!Takers(v) \in SUBSET taken
      OBVIOUS
    <3> QED BY <1>9, <3>1, FS_Subset
  <2>2. new \notin Promised!Takers(v)
    BY <1>2 DEF Promised!Takers
  <2>3. Cardinality(taken) = Cardinality(Promised!Takers(v)) + 1
    BY <2>1, <2>2, FS_AddElement
  <2>4. Cardinality(Promised!Takers(v)) \in Nat /\ Cardinality(held) \in Nat
    BY <1>8, <2>1, FS_CardinalityType
  <2> QED BY <1>9, <2>3, <2>4
<1>11. Promised!Give(new)
  <2>1. \A S : Promised!Cardinality(S) = Cardinality(S)
    BY DEF Promised!Cardinality, Cardinality
  <2>2. new.call = d /\ new.value = v /\ new \in [call : Calls, value : Nat]
    OBVIOUS
  <2>3. Given' = Given \cup {new} /\ UNCHANGED log /\ \A x \in Given : x.call # new.call
    BY <1>1, <1>2, <2>2
  <2> HIDE DEF new, taken, held, f
  <2> QED BY <1>10, <2>1, <2>2, <2>3 DEF Promised!Give, held
<1>12. new \in Given' \ Given
  BY <1>1, <1>2
<1> QED BY <1>11, <1>12 DEF Promised!Next

\* An entry that commits is a reservation after some earlier block.
LEMMA ReserveStep ==
  ASSUME SafeInv, CountersKnown, NEW e \in inflight, Commit(e)
  PROVE  Promised!Next
<1>1. TypeOK /\ TermInv /\ InflightInv
  BY DEF SafeInv
<1>2. /\ e \in Entry /\ Len(log) \in Nat /\ e.term \in 1..MaxTerm
      /\ \A j \in 1..Len(log) : log[j].term <= e.term
  <2>1. e.term <= term /\ term \in 0..MaxTerm
    BY <1>1 DEF TermInv, TypeOK
  <2> QED BY <1>1, <2>1, LogTypes, CommitEffect
<1>3. PICK i \in 0..Len(log) :
        /\ e.base = CounterAt(i)
        /\ Len(log) > 0 /\ log[Len(log)].term = e.term => i = Len(log)
  <2>1. CASE Len(log) > 0 /\ log[Len(log)].term = e.term
    <3>1. e.base = CounterAt(Len(log))
      BY <1>1, <2>1 DEF InflightInv, CounterAt
    <3> QED BY <1>2, <3>1
  <2>2. CASE ~(Len(log) > 0 /\ log[Len(log)].term = e.term)
    BY <2>2 DEF CountersKnown, Known
  <2> QED BY <2>1, <2>2
<1>4. Promised!CounterAt(i) = CounterAt(i)
  BY DEF Promised!CounterAt, Promised!End, CounterAt, End
<1>5. log' = Append(log, e) /\ Given' = Given
  BY DEF Commit, Given, callVars
<1>6. e \in [term : 1..MaxTerm, base : Nat]
  BY <1>2 DEF Entry
<1>7. Promised!Reserve(e)
  BY <1>2, <1>3, <1>4, <1>5, <1>6 DEF Promised!Reserve
<1>8. Len(log) + 1 \in (Len(log) + 1)..Len(log') /\ log'[Len(log) + 1] = e
  BY <1>1, <1>2, CommitEffect
<1> QED BY <1>7, <1>8 DEF Promised!Next

\* Every step is one of the dispenser's, or none that it can tell.
LEMMA DispenserStep ==
  ASSUME IInv, IInv', [Next]_vars
  PROVE  [Promised!Next]_(Promised!vars)
<1>1. TypeOK /\ MutexInv /\ TypeOK'
  BY DEF IInv, SafeInv
<1>2. ASSUME NEW e \in inflight, Commit(e) PROVE Promised!Next
  BY <1>2, ReserveStep DEF IInv
<1>3. ASSUME NEW d \in Calls, Issue(d) \/ Reserved(d) PROVE Promised!Next
  <2>1. /\ pc[d] # "done" /\ pc'[d] = "done" /\ log' = log
        /\ \A c \in Calls : c # d => pc'[c] = pc[c] /\ value'[c] = value[c]
    BY <1>1, <1>3, IssueEffect, ReservedEffect
  <2>2. value'[d] \in Nat
    BY <1>1 DEF TypeOK
  <2> QED BY <1>1, <2>1, <2>2, GiveStep DEF IInv
<1>4. ASSUME log' = log, value' = value,
             \A c \in Calls : pc'[c] = "done" <=> pc[c] = "done"
      PROVE  UNCHANGED Promised!vars
  BY <1>4 DEF Promised!vars, Given
<1>5. ASSUME NEW n \in Nodes, Restart(n) PROVE UNCHANGED Promised!vars
  BY <1>1, <1>4, <1>5, RestartEffect
<1>6. ASSUME NEW n \in Nodes, StepDown(n) \/ ApplyReserveBlock(n)
      PROVE  UNCHANGED Promised!vars
  BY <1>1, <1>4, <1>6, StepDownEffect, ApplyEffect
<1>7. ASSUME NEW c \in Calls,
             \/ \E n \in Nodes : Call(c, n)
             \/ ReadCounter(c) \/ Propose(c) \/ ProposeFails(c) \/ ReserveFails(c)
      PROVE  UNCHANGED Promised!vars
  BY <1>1, <1>4, <1>7, CallEffect, ReadEffect, ProposeEffect, FailEffect DEF Reserving
<1> QED
  BY <1>1, <1>2, <1>3, <1>4, <1>5, <1>6, <1>7, StepCases, ElectEffect, SnapshotEffect,
     ResetEffect DEF core

\* Seen from outside, for any number of nodes, calls and elections and any block
\* size, the cluster is a dispenser: each committed block starts where an earlier
\* one ended, directly before it if both are of one term, and NextCounter returns
\* no value more often than committed blocks have it, stale reservations included
\* (cluster.go:213-247).
THEOREM ImplementsDispenserTheorem == Spec => ImplementsDispenser
<1>1. Init => Promised!Init
  BY DEF Init, Promised!Init, Given
<1>2. IInv /\ IInv' /\ [Next]_vars => [Promised!Next]_(Promised!vars)
  BY DispenserStep
<1> QED BY <1>1, <1>2, Inductive, PTL DEF Spec, ImplementsDispenser, Promised!Spec

===========================================================================
