-------------------------- MODULE AdminCallsProofs --------------------------
(***************************************************************************)
(* Proofs about AdminCalls, for any number of pods, calls, attempts and    *)
(* elections.  AdminInv is inductive; one lemma per part of it.            *)
(***************************************************************************)
EXTENDS AdminCalls, TLAPS

LEMMA InitAdmin == Init => AdminInv
<1> SUFFICES ASSUME Init PROVE AdminInv
  OBVIOUS
<1> USE BoundsAssumption DEF Init
<1>1. TypeOK
  BY DEF TypeOK
<1>2. BeliefsTrue
  <2> Len(leaderOf) = 0 /\ 1..Len(leaderOf) = {}
    OBVIOUS
  <2> QED
    BY NoneAssumption DEF BeliefsTrue
<1>3. EndsKnowMore /\ ForwardingClimbs
  <2> \A c \in Calls : path[c] = <<>> /\ Len(path[c]) = 0 /\ phase[c] = "new"
    OBVIOUS
  <2> QED
    BY DEF EndsKnowMore, ForwardingClimbs, Running
<1>4. ProposedOnce /\ OneCommitPerAttempt /\ AcknowledgedCommitted
  <2>1. Len(log) = 0 /\ 1..Len(log) = {} /\ inflight = {}
    OBVIOUS
  <2>2. \A c \in Calls : phase[c] = "new" /\ answer[c] = None
    OBVIOUS
  <2>3. Deletes \cup Follows \subseteq Calls /\ None # "ok"
    BY NoneAssumption DEF Calls
  <2> HIDE DEF Init
  <2> QED
    BY <2>1, <2>2, <2>3 DEF ProposedOnce, OneCommitPerAttempt, AcknowledgedCommitted
<1> QED
  BY <1>1, <1>2, <1>3, <1>4 DEF AdminInv

\* The end of a path that is not empty is one of its hops.
LEMMA LastHop ==
    ASSUME TypeOK, NEW c \in Calls, path[c] # <<>>
    PROVE  /\ Len(path[c]) \in 1..Len(path[c])
           /\ Len(path[c]) = 1 \/ Len(path[c]) \in 2..Len(path[c])
           /\ path[c][Len(path[c])] \in Hop
           /\ Last(c) \in Pods
<1>1. path[c] \in Seq(Hop)
  BY DEF TypeOK
<1>2. Len(path[c]) \in Nat \ {0}
  BY <1>1
<1>3. path[c][Len(path[c])] \in Hop
  BY <1>1, <1>2
<1>4. /\ Len(path[c]) \in 1..Len(path[c])
      /\ Len(path[c]) = 1 \/ Len(path[c]) \in 2..Len(path[c])
  <2> \A n \in Nat \ {0} : n \in 1..n /\ (n = 1 \/ n \in 2..n)
    OBVIOUS
  <2> QED
    BY <1>2
<1> QED
  BY <1>3, <1>4 DEF Hop, Last

\* What the loss of a leadership does to the attempts.
LEMMA ReleasedPhases ==
    ASSUME TypeOK, NEW p \in Pods, Released(p)
    PROVE  /\ phase' \in [Calls -> {"new"} \cup Running \cup Ended]
           /\ \A c \in Calls :
                \/ phase'[c] = phase[c]
                \/ phase[c] = "transferring" /\ phase'[c] = "ok"
                \/ phase[c] = "waiting" /\ phase'[c] = "failed"
  BY DEF TypeOK, Released, Running, Ended

\* What a crash does to the attempts.
LEMMA CrashPhases ==
    ASSUME TypeOK, NEW p \in Pods, Crash(p)
    PROVE  /\ phase' \in [Calls -> {"new"} \cup Running \cup Ended]
           /\ \A c \in Calls : phase'[c] = phase[c] \/ phase'[c] = "unavailable"
           /\ \A c \in Calls : phase[c] \notin Running => phase'[c] = phase[c]
           /\ \E cs \in SUBSET Calls :
                /\ inflight' = inflight \cup {Proposes(c) : c \in cs}
                /\ \A c \in cs : /\ phase[c] \in {"arriving", "asking", "checked"}
                                 /\ phase'[c] = "unavailable"
<1> DEFINE broken == {c \in Calls : phase[c] \in Running
                                     /\ \E i \in 1..Len(path[c]) : path[c][i].pod = p}
           goingOn == {c \in broken : Last(c) # p /\ c \notin Transfers
                                       /\ phase[c] \in {"arriving", "asking", "checked"}}
<1>1. phase' = [c \in Calls |-> IF c \in broken THEN "unavailable" ELSE phase[c]]
  BY DEF Crash
<1>2. PICK cs \in SUBSET goingOn : inflight' = inflight \cup {Proposes(c) : c \in cs}
  BY DEF Crash
<1>3. \A c \in goingOn : /\ c \in Calls
                         /\ phase[c] \in {"arriving", "asking", "checked"}
                         /\ phase'[c] = "unavailable"
  BY <1>1
<1>4. \A c \in Calls : phase'[c] = IF c \in broken THEN "unavailable" ELSE phase[c]
  BY <1>1
<1>5. phase' \in [Calls -> {"new"} \cup Running \cup Ended]
  BY <1>1 DEF TypeOK, Running, Ended
<1> HIDE DEF goingOn
<1> QED
  BY <1>2, <1>3, <1>4, <1>5

\* A proposal made by an attempt is one.
LEMMA ProposesType == ASSUME TypeOK, NEW c \in Calls PROVE Proposes(c) \in Proposal
  BY BoundsAssumption DEF TypeOK, Proposes, Proposal

-----------------------------------------------------------------------------
LEMMA TypeStep == TypeOK /\ EndsKnowMore /\ [Next]_vars => TypeOK'
<1> SUFFICES ASSUME TypeOK, EndsKnowMore, [Next]_vars PROVE TypeOK'
  OBVIOUS
<1> USE BoundsAssumption DEF TypeOK, raftVars, commandVars, callVars
<1>1. CASE UNCHANGED vars
  BY <1>1 DEF vars
<1>2. ASSUME NEW c \in Calls, CallStep(c) PROVE TypeOK'
  <2> Proposes(c) \in Proposal
    BY ProposesType
  <2> USE DEF Running, Ended, Goto
  <2>1. CASE \E p \in Pods : Send(c, p)
    <3> PICK p \in Pods : Send(c, p)
      BY <2>1
    <3>1. tries' \in [Calls -> 0..MaxTries]
      BY DEF Send, MayTry
    <3>2. <<[pod |-> p, term |-> 0]>> \in Seq(Hop)
      BY DEF Hop
    <3>3. path' \in [Calls -> Seq(Hop)]
      BY <3>2 DEF Send
    <3> QED
      BY <3>1, <3>3 DEF Send, Abandon
  <2>2. CASE Answer(c)
    BY <2>2 DEF Answer
  <2>3. CASE GiveUp(c)
    BY <2>3 DEF GiveUp, Abandon
  <2>4. CASE Disconnect(c)
    BY <2>4 DEF Disconnect, Abandon
  <2>5. CASE Receive(c)
    BY <2>5 DEF Receive
  <2>6. CASE ForwardNobody(c)
    BY <2>6 DEF ForwardNobody
  <2>7. CASE Forward(c)
    <3> DEFINE p == Last(c)
               hop == [pod |-> LeaderAdminAddr(p), term |-> term[p]]
    <3>1. p \in Pods
      BY <2>7, LastHop DEF Forward, EndsKnowMore
    <3>2. hop \in Hop
      BY <2>7, <3>1 DEF Forward, LeaderAdminAddr, Hop
    <3>3. path' = [path EXCEPT ![c] = Append(path[c], hop)]
      BY <2>7 DEF Forward
    <3>4. path' \in [Calls -> Seq(Hop)]
      BY <3>2, <3>3
    <3> QED
      BY <2>7, <3>4 DEF Forward
  <2>8. CASE Execute(c)
    BY <2>8 DEF Execute
  <2>9. CASE ExecuteFails(c)
    BY <2>9 DEF ExecuteFails
  <2>10. CASE ApplyReturns(c)
    BY <2>10 DEF ApplyReturns
  <2> QED
    BY <1>2, <2>1, <2>2, <2>3, <2>4, <2>5, <2>6, <2>7, <2>8, <2>9, <2>10 DEF CallStep
<1>3. ASSUME NEW p \in Pods, PodStep(p) PROVE TypeOK'
  <2>1. CASE Elect(p)
    BY <2>1 DEF Elect
  <2>2. CASE KnowItself(p)
    BY <2>2 DEF KnowItself
  <2>3. CASE StepDown(p)
    BY <2>3, ReleasedPhases DEF StepDown
  <2>4. CASE Crash(p)
    <3>1. inflight' \subseteq Proposal
      BY <2>4, CrashPhases, ProposesType, SMTT(30)
    <3>2. /\ crashes' \in 0..MaxCrashes
          /\ knows' \in [Pods -> Pods \cup {None}]
          /\ leading' \subseteq Pods
          /\ UNCHANGED <<leaderOf, term, log, tries, path, answer>>
      BY <2>4 DEF Crash
    <3> QED
      BY <2>4, <3>1, <3>2, CrashPhases
  <2>5. CASE \E t \in 1..Len(leaderOf) : Hear(p, t)
    BY <2>5, ReleasedPhases, SMTT(30) DEF Hear
  <2> QED
    BY <1>3, <2>1, <2>2, <2>3, <2>4, <2>5 DEF PodStep
<1>4. ASSUME NEW e \in inflight, Commit(e) PROVE TypeOK'
  BY <1>4 DEF Commit
<1> QED
  BY <1>1, <1>2, <1>3, <1>4 DEF Next

\* Beliefs change only by what raft does.
LEMMA BeliefsStep == TypeOK /\ BeliefsTrue /\ [Next]_vars => BeliefsTrue'
<1> SUFFICES ASSUME TypeOK, BeliefsTrue, [Next]_vars PROVE BeliefsTrue'
  OBVIOUS
<1> USE DEF BeliefsTrue
<1>1. CASE UNCHANGED raftVars
  BY <1>1 DEF raftVars
<1>2. ASSUME NEW c \in Calls, CallStep(c) PROVE UNCHANGED raftVars
  BY <1>2 DEF CallStep, Send, Answer, GiveUp, Disconnect, Receive, ForwardNobody, Forward,
              Execute, ExecuteFails, ApplyReturns
<1>3. ASSUME NEW p \in Pods, PodStep(p) PROVE BeliefsTrue'
  <2> USE DEF TypeOK
  <2>1. CASE Elect(p)
    BY <2>1, NoneAssumption DEF Elect
  <2>2. CASE KnowItself(p)
    BY <2>2, NoneAssumption DEF KnowItself
  <2>3. CASE StepDown(p)
    BY <2>3, NoneAssumption DEF StepDown
  <2>4. CASE Crash(p)
    BY <2>4, NoneAssumption DEF Crash
  <2>5. CASE \E t \in 1..Len(leaderOf) : Hear(p, t)
    BY <2>5, NoneAssumption, SMTT(30) DEF Hear
  <2> QED
    BY <1>3, <2>1, <2>2, <2>3, <2>4, <2>5 DEF PodStep
<1>4. ASSUME NEW e \in inflight, Commit(e) PROVE UNCHANGED raftVars
  BY <1>4 DEF Commit
<1> QED
  BY <1>1, <1>2, <1>3, <1>4 DEF Next, vars, raftVars

\* The terms of pods and the list of leaders only grow.
LEMMA RaftGrows ==
    ASSUME TypeOK, [Next]_vars
    PROVE  /\ \A p \in Pods : term[p] <= term'[p]
           /\ \A i \in 1..Len(leaderOf) : leaderOf'[i] = leaderOf[i]
           /\ Len(leaderOf) <= Len(leaderOf')
<1> USE DEF TypeOK
<1>1. CASE UNCHANGED raftVars
  BY <1>1 DEF raftVars
<1>2. ASSUME NEW c \in Calls, CallStep(c) PROVE UNCHANGED raftVars
  BY <1>2 DEF CallStep, Send, Answer, GiveUp, Disconnect, Receive, ForwardNobody, Forward,
              Execute, ExecuteFails, ApplyReturns
<1>3. ASSUME NEW p \in Pods, Elect(p)
      PROVE  /\ \A q \in Pods : term[q] <= term'[q]
             /\ \A i \in 1..Len(leaderOf) : leaderOf'[i] = leaderOf[i]
             /\ Len(leaderOf) <= Len(leaderOf')
  BY <1>3 DEF Elect
<1>4. ASSUME NEW p \in Pods, PodStep(p), ~Elect(p)
      PROVE  /\ \A q \in Pods : term[q] <= term'[q]
             /\ leaderOf' = leaderOf
  BY <1>4, SMTT(30) DEF PodStep, KnowItself, StepDown, Crash, Hear
<1>5. ASSUME NEW e \in inflight, Commit(e) PROVE UNCHANGED raftVars
  BY <1>5 DEF Commit
<1> QED
  BY <1>1, <1>2, <1>3, <1>4, <1>5 DEF Next, vars, raftVars

-----------------------------------------------------------------------------
\* A step that leaves the paths alone keeps what is said of their hops.
LEMMA SamePaths ==
    ASSUME TypeOK, TypeOK', EndsKnowMore, ForwardingClimbs, [Next]_vars, path' = path
    PROVE  /\ ForwardingClimbs'
           /\ \A c \in Calls :
                /\ \A i \in 1..Len(path[c]) : path[c][i].term <= term'[path[c][i].pod]
                /\ path[c] # <<>> => path[c][1].term = 0
<1>1. /\ \A p \in Pods : term[p] <= term'[p]
      /\ \A i \in 1..Len(leaderOf) : leaderOf'[i] = leaderOf[i]
  BY RaftGrows
<1>2. ASSUME NEW c \in Calls, NEW i \in 1..Len(path[c])
      PROVE  /\ path[c][i] \in Hop
             /\ path[c][i].term <= term'[path[c][i].pod]
             /\ path[c][i].term \in 0..Len(leaderOf)
  <2>1. path[c][i] \in Hop
    BY DEF TypeOK
  <2>2. path[c][i].pod \in Pods /\ path[c][i].term \in Nat
    BY <2>1 DEF Hop
  <2>3. path[c][i].term <= term[path[c][i].pod]
    BY DEF EndsKnowMore
  <2>4. /\ term[path[c][i].pod] \in 0..Len(leaderOf)
        /\ term'[path[c][i].pod] \in 0..Len(leaderOf') /\ Len(leaderOf) \in Nat
        /\ Len(leaderOf') \in Nat
    BY <2>2 DEF TypeOK
  <2> QED
    BY <1>1, <2>1, <2>2, <2>3, <2>4
<1>3. ASSUME NEW c \in Calls, NEW i \in 2..Len(path[c])
      PROVE  /\ path[c][i].term > path[c][i - 1].term
             /\ path[c][i].pod = leaderOf'[path[c][i].term]
  <2>1. Len(path[c]) \in Nat
    BY DEF TypeOK
  <2>2. i \in 1..Len(path[c]) /\ i - 1 \in 1..Len(path[c])
    BY <2>1
  <2>3. path[c][i].term > path[c][i - 1].term /\ path[c][i].pod = leaderOf[path[c][i].term]
    BY DEF ForwardingClimbs
  <2>4. path[c][i - 1].term \in Nat /\ path[c][i].term \in 0..Len(leaderOf)
    BY <1>2, <2>2 DEF Hop
  <2>5. path[c][i].term \in 1..Len(leaderOf)
    BY <2>3, <2>4
  <2> QED
    BY <1>1, <2>3, <2>5
<1> QED
  BY <1>2, <1>3 DEF ForwardingClimbs, EndsKnowMore

\* Each step keeps both: a pod is only ever asked in a term it has seen.
LEMMA PathStep == AdminInv /\ [Next]_vars => EndsKnowMore' /\ ForwardingClimbs'
<1> SUFFICES ASSUME AdminInv, [Next]_vars PROVE EndsKnowMore' /\ ForwardingClimbs'
  OBVIOUS
<1>1. TypeOK /\ BeliefsTrue /\ EndsKnowMore /\ ForwardingClimbs
  BY DEF AdminInv
<1>2. TypeOK'
  BY <1>1, TypeStep
<1> USE <1>1, <1>2 DEF Goto
<1>3. ASSUME path' = path, \A c \in Calls : phase'[c] \in Running => phase[c] \in Running,
             \A c \in Calls :
                /\ phase'[c] = "asking"
                /\ knows'[Last(c)] # None \/ Last(c) \in leading'
                => term'[Last(c)] > path[c][Len(path[c])].term
      PROVE EndsKnowMore' /\ ForwardingClimbs'
  BY <1>3, SamePaths DEF EndsKnowMore, Last
<1>4. ASSUME path' = path, UNCHANGED raftVars,
             \A c \in Calls : phase'[c] \in Running => phase[c] \in Running,
             \A c \in Calls : phase'[c] = "asking" => phase[c] = "asking"
      PROVE EndsKnowMore' /\ ForwardingClimbs'
  BY <1>3, <1>4 DEF EndsKnowMore, raftVars
<1>5. CASE UNCHANGED vars
  BY <1>4, <1>5 DEF vars, callVars
<1>6. ASSUME NEW c \in Calls, CallStep(c) PROVE EndsKnowMore' /\ ForwardingClimbs'
  <2> phase \in [Calls -> {"new"} \cup Running \cup Ended]
    BY DEF TypeOK
  <2>1. ASSUME NEW p \in Pods, Send(c, p) PROVE EndsKnowMore' /\ ForwardingClimbs'
    <3>1. /\ UNCHANGED raftVars
          /\ path'[c] = <<[pod |-> p, term |-> 0]>> /\ phase'[c] = "arriving"
          /\ \A d \in Calls : d # c => path'[d] = path[d] /\ phase'[d] = phase[d]
      BY <2>1 DEF Send, TypeOK
    <3>2. term[p] >= 0
      BY DEF TypeOK
    <3>3. /\ Len(path'[c]) = 1 /\ path'[c] # <<>>
          /\ path'[c][1].pod = p /\ path'[c][1].term = 0
      BY <3>1
    <3>4. EndsKnowMore'
      <4>1. ASSUME NEW d \in Calls, d # c
            PROVE  /\ path'[d] = path[d] /\ phase'[d] = phase[d]
                   /\ \A i \in 1..Len(path[d]) : path[d][i].term <= term[path[d][i].pod]
                   /\ phase[d] \in Running => path[d] # <<>>
                   /\ path[d] # <<>> => path[d][1].term = 0
        BY <3>1, <4>1 DEF EndsKnowMore
      <4>2. \A i \in 1..Len(path'[c]) : path'[c][i].term <= term'[path'[c][i].pod]
        BY <3>1, <3>2, <3>3 DEF raftVars
      <4>3. \A d \in Calls :
              /\ phase'[d] = "asking"
              /\ knows'[Last(d)'] # None \/ Last(d)' \in leading'
              => term'[Last(d)'] > path'[d][Len(path'[d])].term
        BY <3>1 DEF EndsKnowMore, raftVars, Last
      <4> QED
        BY <3>1, <3>3, <4>1, <4>2, <4>3 DEF EndsKnowMore, raftVars
    <3>5. ForwardingClimbs'
      BY <3>1, <3>3 DEF ForwardingClimbs, raftVars
    <3> QED
      BY <3>4, <3>5
  <2>2. CASE Answer(c)
    BY <1>4, <2>2 DEF Answer
  <2>3. CASE GiveUp(c)
    BY <1>4, <2>3 DEF GiveUp, Running
  <2>4. CASE Disconnect(c)
    BY <1>4, <2>4 DEF Disconnect, Running
  <2>5. CASE Receive(c)
    <3>1. Last(c) \in Pods /\ Len(path[c]) \in 1..Len(path[c])
      BY <2>5, LastHop DEF Receive, EndsKnowMore, Running
    <3>2. Last(c) \notin leading /\ knows[Last(c)] # None =>
             term[Last(c)] > path[c][Len(path[c])].term
      <4> SUFFICES ASSUME Last(c) \notin leading, knows[Last(c)] # None
                   PROVE  term[Last(c)] > path[c][Len(path[c])].term
        OBVIOUS
      <4>1. term[Last(c)] > 0 /\ leaderOf[term[Last(c)]] # Last(c)
        BY <3>1 DEF BeliefsTrue
      <4>2. path[c][Len(path[c])].term <= term[Last(c)]
        BY <3>1 DEF EndsKnowMore, Last
      <4>3. Len(path[c]) = 1 => path[c][Len(path[c])].term = 0
        BY <3>1 DEF EndsKnowMore
      <4>4. Len(path[c]) \in 2..Len(path[c]) =>
               leaderOf[path[c][Len(path[c])].term] = Last(c)
        BY DEF ForwardingClimbs, Last
      <4>5. path[c] # <<>> /\ path[c][Len(path[c])].term \in Nat
        BY <2>5, LastHop DEF Receive, EndsKnowMore, Running, Hop
      <4>6. term[Last(c)] \in Nat
        BY <3>1 DEF TypeOK
      <4>7. Len(path[c]) = 1 \/ Len(path[c]) \in 2..Len(path[c])
        BY <4>5, LastHop
      <4>8. path[c][Len(path[c])].term # term[Last(c)]
        BY <4>1, <4>3, <4>4, <4>7
      <4> QED
        BY <4>2, <4>5, <4>6, <4>8
    <3>3. /\ path' = path /\ UNCHANGED raftVars
          /\ phase[c] = "arriving" /\ \A d \in Calls : d # c => phase'[d] = phase[d]
          /\ phase'[c] = "asking" => Last(c) \notin leading
      BY <2>5 DEF Receive, TypeOK
    <3> QED
      BY <1>3, <3>2, <3>3 DEF EndsKnowMore, raftVars, Running
  <2>6. CASE ForwardNobody(c)
    BY <1>4, <2>6 DEF ForwardNobody, Running
  <2>7. CASE Forward(c)
    <3> DEFINE p == Last(c)
               hop == [pod |-> knows[p], term |-> term[p]]
               n == Len(path[c])
    <3>1. /\ UNCHANGED raftVars /\ phase[c] = "asking" /\ knows[p] # None
          /\ path' = [path EXCEPT ![c] = Append(path[c], hop)]
          /\ phase' = [phase EXCEPT ![c] = "arriving"]
      BY <2>7 DEF Forward, LeaderAdminAddr
    <3>2. p \in Pods /\ n \in 1..n /\ path[c] \in Seq(Hop) /\ n \in Nat
      BY <3>1, LastHop DEF EndsKnowMore, Running, TypeOK
    <3>3. term[p] > 0 /\ leaderOf[term[p]] = knows[p]
      BY <3>1, <3>2 DEF BeliefsTrue
    <3>4. term[p] > path[c][n].term
      BY <3>1 DEF EndsKnowMore
    <3>5. knows[p] \in Pods /\ term[knows[p]] >= term[p] /\ term[p] \in Nat
      <4> knows[p] \in Pods /\ term[p] \in 1..Len(leaderOf)
        BY <3>1, <3>2, <3>3 DEF TypeOK
      <4> QED
        BY <3>3 DEF BeliefsTrue
    <3>6. /\ path'[c] = Append(path[c], hop) /\ phase'[c] = "arriving"
          /\ Len(path'[c]) = n + 1 /\ path'[c][n + 1] = hop
          /\ \A i \in 1..n : path'[c][i] = path[c][i]
          /\ \A d \in Calls : d # c => path'[d] = path[d] /\ phase'[d] = phase[d]
      BY <3>1, <3>2 DEF TypeOK
    <3>7. \A i \in 1..n : path[c][i] \in Hop
      BY <3>2
    <3>8. EndsKnowMore'
      <4>1. ASSUME NEW i \in 1..Len(path'[c]) PROVE path'[c][i].term <= term'[path'[c][i].pod]
        <5>1. CASE i = n + 1
          BY <3>1, <3>5, <3>6, <5>1 DEF raftVars
        <5>2. CASE i \in 1..n
          BY <3>1, <3>6, <5>2 DEF raftVars, EndsKnowMore
        <5> QED
          BY <3>2, <3>6, <5>1, <5>2
      <4>2. path'[c][1].term = 0
        BY <3>2, <3>6 DEF EndsKnowMore
      <4> HIDE DEF hop, p, n
      <4> QED
        BY <3>1, <3>6, <4>1, <4>2 DEF EndsKnowMore, raftVars, Last
    <3>9. ForwardingClimbs'
      <4>1. ASSUME NEW i \in 2..Len(path'[c])
            PROVE /\ path'[c][i].term > path'[c][i - 1].term
                  /\ path'[c][i].pod = leaderOf'[path'[c][i].term]
        <5>1. CASE i = n + 1
          BY <3>1, <3>2, <3>3, <3>4, <3>6, <5>1 DEF raftVars
        <5>2. CASE i \in 2..n
          <6> i - 1 \in 1..n /\ i \in 1..n
            BY <3>2, <5>2
          <6> QED
            BY <3>1, <3>6, <5>2 DEF raftVars, ForwardingClimbs
        <5> QED
          BY <3>2, <3>6, <5>1, <5>2
      <4>2. ASSUME NEW d \in Calls, d # c, NEW i \in 2..Len(path'[d])
            PROVE /\ path'[d][i].term > path'[d][i - 1].term
                  /\ path'[d][i].pod = leaderOf'[path'[d][i].term]
        BY <3>1, <3>6, <4>2 DEF ForwardingClimbs, raftVars
      <4> QED
        BY <4>1, <4>2 DEF ForwardingClimbs
    <3> QED
      BY <3>8, <3>9
  <2>8. CASE Execute(c)
    BY <1>4, <2>8 DEF Execute, Running
  <2>9. CASE ExecuteFails(c)
    BY <1>4, <2>9 DEF ExecuteFails, Running
  <2>10. CASE ApplyReturns(c)
    BY <1>4, <2>10 DEF ApplyReturns, Running
  <2> QED
    BY <1>6, <2>1, <2>2, <2>3, <2>4, <2>5, <2>6, <2>7, <2>8, <2>9, <2>10 DEF CallStep
<1>7. ASSUME NEW p \in Pods, PodStep(p) PROVE EndsKnowMore' /\ ForwardingClimbs'
  \* An attempt that asks on p before the step asked there, and p did not lead.
  <2>1. ASSUME path' = path, \A c \in Calls : phase'[c] \in Running => phase[c] = phase'[c],
               \A q \in Pods \ {p} : knows'[q] = knows[q] /\ term'[q] = term[q],
               leading' \ {p} = leading \ {p},
               \A c \in Calls :
                  /\ phase[c] = "asking" /\ Last(c) = p
                  /\ knows'[p] # None \/ p \in leading'
                  => term'[p] > path[c][Len(path[c])].term
        PROVE EndsKnowMore' /\ ForwardingClimbs'
    <3>1. ASSUME NEW c \in Calls, phase'[c] = "asking",
                 knows'[Last(c)] # None \/ Last(c) \in leading'
          PROVE  term'[Last(c)] > path[c][Len(path[c])].term
      <4>1. phase[c] = "asking" /\ Last(c) \in Pods
        BY <2>1, <3>1, LastHop DEF EndsKnowMore, Running
      <4>2. CASE Last(c) = p
        BY <2>1, <3>1, <4>1, <4>2
      <4>3. CASE Last(c) # p
        BY <2>1, <3>1, <4>1, <4>3 DEF EndsKnowMore
      <4> QED
        BY <4>2, <4>3
    <3> QED
      BY <1>3, <2>1, <3>1
  <2>2. ASSUME NEW c \in Calls, phase[c] = "asking", Last(c) = p
        PROVE  /\ path[c][Len(path[c])] \in Hop
               /\ path[c][Len(path[c])].term <= term[p]
               /\ path[c][Len(path[c])].term = 0 \/ leaderOf[path[c][Len(path[c])].term] = p
               /\ term[p] \in 0..Len(leaderOf)
    <3>1. Len(path[c]) \in 1..Len(path[c]) /\ path[c][Len(path[c])] \in Hop
      BY <2>2, LastHop DEF EndsKnowMore, Running
    <3>2. path[c][Len(path[c])].term <= term[p]
      BY <2>2, <3>1 DEF EndsKnowMore, Last
    <3>3. path[c] # <<>> /\ (Len(path[c]) = 1 \/ Len(path[c]) \in 2..Len(path[c]))
      BY <2>2, LastHop DEF EndsKnowMore, Running
    <3>4. term[p] \in 0..Len(leaderOf)
      BY DEF TypeOK
    <3> QED
      BY <2>2, <3>1, <3>2, <3>3, <3>4 DEF EndsKnowMore, ForwardingClimbs, Last
  <2>3. CASE Elect(p)
    <3>1. \A c \in Calls : (phase[c] = "asking" /\ Last(c) = p) =>
             term'[p] > path[c][Len(path[c])].term
      BY <2>2, <2>3 DEF Elect, TypeOK, Hop
    <3> QED
      BY <2>1, <2>3, <3>1 DEF Elect, callVars, TypeOK
  <2>4. CASE KnowItself(p)
    <3>1. \A c \in Calls : (phase[c] = "asking" /\ Last(c) = p) =>
             term'[p] > path[c][Len(path[c])].term
      BY <2>4 DEF KnowItself, EndsKnowMore
    <3> QED
      BY <2>1, <2>4, <3>1 DEF KnowItself, callVars, TypeOK
  <2>5. CASE StepDown(p)
    <3>1. knows'[p] = None /\ p \notin leading'
      BY <2>5 DEF StepDown, TypeOK
    <3>2. \A c \in Calls : phase'[c] \in Running => phase[c] = phase'[c]
      BY <2>5, ReleasedPhases DEF StepDown, Running
    <3> QED
      BY <2>1, <2>5, <3>1, <3>2 DEF StepDown, TypeOK
  <2>6. CASE Crash(p)
    <3>1. knows'[p] = None /\ p \notin leading'
      BY <2>6 DEF Crash, TypeOK
    <3>2. \A c \in Calls : phase'[c] \in Running => phase[c] = phase'[c]
      BY <2>6, CrashPhases DEF Running
    <3>3. /\ path' = path /\ term' = term /\ leading' = leading \ {p}
          /\ knows' = [knows EXCEPT ![p] = None]
      BY <2>6 DEF Crash
    <3> QED
      BY <2>1, <3>1, <3>2, <3>3 DEF TypeOK
  <2>7. ASSUME NEW t \in 1..Len(leaderOf), Hear(p, t) PROVE EndsKnowMore' /\ ForwardingClimbs'
    <3>1. \A c \in Calls : (phase[c] = "asking" /\ Last(c) = p) =>
             term'[p] > path[c][Len(path[c])].term
      <4> SUFFICES ASSUME NEW c \in Calls, phase[c] = "asking", Last(c) = p
                   PROVE  t > path[c][Len(path[c])].term
        BY <2>7 DEF Hear, TypeOK
      <4>1. t > term[p] \/ t = term[p]
        BY <2>7 DEF Hear
      <4>2. leaderOf[t] # p
        BY <2>7 DEF Hear
      <4>3. path[c][Len(path[c])].term \in Nat /\ t \in Nat /\ t > 0
        BY <2>2 DEF Hop
      <4> QED
        BY <2>2, <4>1, <4>2, <4>3
    <3>2. \A c \in Calls : phase'[c] \in Running => phase[c] = phase'[c]
      BY <2>7, ReleasedPhases DEF Hear, Running
    <3> QED
      BY <2>1, <2>7, <3>1, <3>2 DEF Hear, TypeOK
  <2> QED
    BY <1>7, <2>3, <2>4, <2>5, <2>6, <2>7 DEF PodStep
<1>8. ASSUME NEW e \in inflight, Commit(e) PROVE EndsKnowMore' /\ ForwardingClimbs'
  BY <1>4, <1>8 DEF Commit, callVars
<1> QED
  BY <1>5, <1>6, <1>7, <1>8 DEF Next

-----------------------------------------------------------------------------
\* What ProposedOnce, OneCommitPerAttempt and AcknowledgedCommitted say together.
Commits == ProposedOnce /\ OneCommitPerAttempt /\ AcknowledgedCommitted

\* The phases in which an attempt has yet to propose.
Before == {"arriving", "asking", "checked", "transferring"}

\* A step that proposes and commits nothing, and moves attempts only forward.
LEMMA QuietCommits ==
    ASSUME TypeOK, Commits, inflight' = inflight, log' = log, tries' = tries,
           \A c \in Calls : phase'[c] \in Before => phase[c] \in Before,
           \A c \in Calls : phase'[c] = "transferring" => c \in Transfers,
           \A c \in Calls : (phase'[c] = "ok" /\ c \notin Transfers) =>
                \E i \in 1..Len(log) : log[i].call = c,
           \A c \in Calls : answer'[c] = "ok" => answer[c] = "ok" \/ phase[c] = "ok"
    PROVE  Commits'
<1> USE DEF Commits
<1>1. \A c \in Calls : Proposes(c)' = Proposes(c)
  BY DEF Proposes
<1>2. ProposedOnce'
  BY <1>1 DEF ProposedOnce, Before
<1>3. \A c \in Deletes \cup Follows : c \in Calls /\ c \notin Transfers
  BY CallsAssumption DEF Calls
<1>4. AcknowledgedCommitted'
  BY <1>3 DEF ProposedOnce, AcknowledgedCommitted
<1> QED
  BY <1>2, <1>4 DEF OneCommitPerAttempt

\* A step in which the attempts in cs, which have yet to propose, do so.
LEMMA ProposingCommits ==
    ASSUME TypeOK, Commits, log' = log, tries' = tries, NEW cs \in SUBSET Calls,
           inflight' = inflight \cup {Proposes(c) : c \in cs},
           \A c \in cs : phase[c] \in Before /\ phase'[c] \notin Before,
           \A c \in Calls : phase'[c] \in Before => phase[c] \in Before,
           \A c \in Calls : phase'[c] = "transferring" => c \in Transfers,
           \A c \in Calls : phase'[c] = "ok" => phase[c] = "ok" \/ c \in Transfers,
           \A c \in Calls : answer'[c] = "ok" => answer[c] = "ok"
    PROVE  Commits'
<1> USE DEF Commits
<1>1. \A c \in Calls : Proposes(c)' = Proposes(c) /\ Proposes(c) \in Proposal
                        /\ Proposes(c).try = tries[c] /\ Proposes(c).call = c
  BY ProposesType DEF Proposes
<1>2. \A c \in cs : \A i \in 1..Len(log) : log[i] # Proposes(c)
  BY DEF ProposedOnce, Before
<1>3. \A c, d \in Calls : c # d => Proposes(c) # Proposes(d)
  BY <1>1
<1>4. \A i \in 1..Len(log) : log[i] \notin inflight' /\ log[i].try <= tries[log[i].call]
  BY <1>2 DEF ProposedOnce
<1>5. \A e \in inflight' : e.try <= tries[e.call]
  <2>1. \A c \in cs : tries[c] <= tries[c]
    BY DEF TypeOK
  <2> QED
    BY <1>1, <2>1 DEF ProposedOnce
<1>6. ASSUME NEW c \in Calls, phase'[c] \in Before
      PROVE  /\ Proposes(c) \notin inflight'
             /\ \A i \in 1..Len(log) : log[i] # Proposes(c)
  <2>1. c \notin cs /\ phase[c] \in Before
    BY <1>6
  <2> QED
    BY <1>3, <2>1 DEF ProposedOnce, Before
<1>7. ProposedOnce'
  BY <1>1, <1>4, <1>5, <1>6 DEF ProposedOnce, Before
<1>8. \A c \in Deletes \cup Follows : c \in Calls
  BY DEF Calls
<1>9. AcknowledgedCommitted'
  BY <1>8 DEF AcknowledgedCommitted
<1> QED
  BY <1>7, <1>9 DEF OneCommitPerAttempt

\* A step in which one attempt does.
LEMMA ProposingOne ==
    ASSUME TypeOK, Commits, log' = log, tries' = tries, NEW c \in Calls,
           inflight' = inflight \cup {Proposes(c)},
           phase[c] \in Before, phase'[c] \notin Before,
           \A d \in Calls : phase'[d] \in Before => phase[d] \in Before,
           \A d \in Calls : phase'[d] = "transferring" => d \in Transfers,
           \A d \in Calls : phase'[d] = "ok" => phase[d] = "ok" \/ d \in Transfers,
           \A d \in Calls : answer'[d] = "ok" => answer[d] = "ok"
    PROVE  Commits'
<1>1. PICK cs \in SUBSET Calls : cs = {c}
  OBVIOUS
<1>2. {Proposes(d) : d \in cs} = {Proposes(c)}
  BY <1>1
<1>3. /\ inflight' = inflight \cup {Proposes(d) : d \in cs}
      /\ \A d \in cs : phase[d] \in Before /\ phase'[d] \notin Before
  BY <1>1, <1>2
<1> QED
  BY <1>3, ProposingCommits

LEMMA CommitsStep == AdminInv /\ [Next]_vars => Commits'
<1> SUFFICES ASSUME AdminInv, [Next]_vars PROVE Commits'
  OBVIOUS
<1> USE DEF Goto
<1>1. TypeOK /\ Commits /\ TypeOK'
  BY TypeStep DEF AdminInv, Commits
<1>2. phase \in [Calls -> {"new"} \cup Running \cup Ended]
  BY <1>1 DEF TypeOK
<1>3. /\ \A c \in Calls : phase[c] = "transferring" => c \in Transfers
      /\ \A c \in Calls : (phase[c] = "ok" /\ c \notin Transfers) =>
            \E i \in 1..Len(log) : log[i].call = c
  BY <1>1 DEF Commits, ProposedOnce
<1>4. CASE UNCHANGED vars
  BY <1>1, <1>3, <1>4, QuietCommits DEF vars, commandVars, callVars
<1>5. ASSUME NEW c \in Calls, CallStep(c) PROVE Commits'
  <2>1. ASSUME Abandon(c), tries' = tries, log' = log, phase[c] \notin {"new", "ok", "failed"},
               phase' = [phase EXCEPT ![c] = "failed"] \/ phase' = [phase EXCEPT ![c] = "unavailable"],
               \A d \in Calls : answer'[d] = "ok" => answer[d] = "ok"
        PROVE Commits'
    <3>1. CASE inflight' = inflight
      BY <1>1, <1>2, <1>3, <2>1, <3>1, QuietCommits DEF Before
    <3>2. CASE /\ phase[c] \in {"arriving", "asking", "checked"}
               /\ inflight' = inflight \cup {Proposes(c)}
      BY <1>1, <1>2, <1>3, <2>1, <3>2, ProposingOne DEF Before
    <3> QED
      BY <2>1, <3>1, <3>2 DEF Abandon
  <2>2. ASSUME NEW p \in Pods, Send(c, p) PROVE Commits'
    <3>1. /\ tries' = [tries EXCEPT ![c] = @ + 1] /\ phase' = [phase EXCEPT ![c] = "arriving"]
          /\ log' = log /\ answer' = answer /\ Abandon(c)
      BY <2>2 DEF Send
    <3>2. /\ tries'[c] = tries[c] + 1 /\ tries[c] \in Nat /\ phase'[c] = "arriving"
          /\ \A d \in Calls : d # c => tries'[d] = tries[d] /\ phase'[d] = phase[d]
          /\ \A d \in Calls : tries[d] <= tries'[d] /\ tries[d] \in Nat /\ tries'[d] \in Nat
      BY <1>1, <3>1 DEF TypeOK
    <3>3. /\ \A d \in Calls : Proposes(d) \in Proposal
          /\ \A d \in Calls : Proposes(d).try = tries[d] /\ Proposes(d).call = d
          /\ \A d \in Calls : d # c => Proposes(d)' = Proposes(d)
          /\ Proposes(c)'.try = tries[c] + 1 /\ Proposes(c)'.call = c
      BY <1>1, <3>2, ProposesType DEF Proposes
    <3>4. /\ inflight \subseteq Proposal /\ inflight' \subseteq Proposal
          /\ \A i \in 1..Len(log) : log[i] \in Proposal
      BY <1>1 DEF TypeOK
    <3>5. \A i \in 1..Len(log) : log[i] \notin inflight'
      BY <1>1, <3>1 DEF Abandon, Commits, ProposedOnce
    <3>6. \A i \in 1..Len(log) : log[i].try <= tries[log[i].call]
      BY <1>1 DEF Commits, ProposedOnce
    <3>7. \A e \in inflight' : e.try <= tries[e.call]
      BY <1>1, <3>1, <3>2, <3>3 DEF Abandon, Commits, ProposedOnce
    <3>8. /\ Proposes(c)' \notin inflight'
          /\ \A i \in 1..Len(log) : log[i] # Proposes(c)'
      BY <3>2, <3>3, <3>4, <3>6, <3>7 DEF Proposal
    <3>9. ASSUME NEW d \in Calls, d # c, phase'[d] \in Before
          PROVE  /\ Proposes(d)' \notin inflight'
                 /\ \A i \in 1..Len(log) : log[i] # Proposes(d)'
      <4>1. Proposes(d) \notin inflight /\ \A i \in 1..Len(log) : log[i] # Proposes(d)
        BY <1>1, <3>2, <3>9 DEF Commits, ProposedOnce, Before
      <4>2. Proposes(d) # Proposes(c)
        BY <3>3, <3>9
      <4> QED
        BY <3>1, <3>3, <3>9, <4>1, <4>2 DEF Abandon
    <3>10. \A e \in Proposal : e.call \in Calls /\ e.try \in Nat
      BY DEF Proposal
    <3>11. /\ \A i \in 1..Len(log) : log[i].try <= tries'[log[i].call]
           /\ \A e \in inflight' : e.try <= tries'[e.call]
      BY <3>2, <3>4, <3>6, <3>7, <3>10
    <3>12. ProposedOnce'
      BY <1>3, <3>1, <3>2, <3>5, <3>8, <3>9, <3>11 DEF ProposedOnce, Before
    <3> QED
      BY <1>1, <3>1, <3>12 DEF Commits, OneCommitPerAttempt, AcknowledgedCommitted
  <2>3. CASE Answer(c)
    BY <1>1, <1>2, <1>3, <2>3, QuietCommits DEF Answer, commandVars, Before, TypeOK
  <2>4. CASE GiveUp(c)
    BY <1>1, <2>1, <2>4 DEF GiveUp, Running, TypeOK
  <2>5. CASE Disconnect(c)
    BY <2>1, <2>5 DEF Disconnect, Running
  <2>6. CASE Receive(c)
    BY <1>1, <1>2, <1>3, <2>6, QuietCommits DEF Receive, commandVars, Before
  <2>7. CASE ForwardNobody(c)
    BY <1>1, <1>2, <1>3, <2>7, QuietCommits DEF ForwardNobody, commandVars, Before
  <2>8. CASE Forward(c)
    BY <1>1, <1>2, <1>3, <2>8, QuietCommits DEF Forward, commandVars, Before
  <2>9. CASE Execute(c)
    <3>1. CASE c \in Transfers
      BY <1>1, <1>2, <1>3, <2>9, <3>1, QuietCommits DEF Execute, Before
    <3>2. CASE c \notin Transfers
      BY <1>1, <1>2, <1>3, <2>9, <3>2, ProposingOne DEF Execute, Before
    <3> QED
      BY <3>1, <3>2
  <2>10. CASE ExecuteFails(c)
    BY <1>1, <1>2, <1>3, <2>10, QuietCommits DEF ExecuteFails, commandVars, Before
  <2>11. CASE ApplyReturns(c)
    <3>1. \E i \in 1..Len(log) : log[i].call = c
      BY <2>11 DEF ApplyReturns, Proposes
    <3> QED
      BY <1>1, <1>2, <1>3, <2>11, <3>1, QuietCommits DEF ApplyReturns, commandVars, Before
  <2> QED
    BY <1>5, <2>2, <2>3, <2>4, <2>5, <2>6, <2>7, <2>8, <2>9, <2>10, <2>11 DEF CallStep
<1>6. ASSUME NEW p \in Pods, PodStep(p) PROVE Commits'
  <2>1. CASE Elect(p)
    BY <1>1, <1>3, <2>1, QuietCommits DEF Elect, commandVars, callVars
  <2>2. CASE KnowItself(p)
    BY <1>1, <1>3, <2>2, QuietCommits DEF KnowItself, commandVars, callVars
  <2>3. CASE StepDown(p)
    BY <1>1, <1>3, <2>3, ReleasedPhases, QuietCommits DEF StepDown, commandVars, Before
  <2>4. CASE Crash(p)
    <3>1. log' = log /\ tries' = tries /\ answer' = answer
      BY <2>4 DEF Crash
    <3>2. PICK cs \in SUBSET Calls :
            /\ inflight' = inflight \cup {Proposes(c) : c \in cs}
            /\ \A c \in cs : /\ phase[c] \in {"arriving", "asking", "checked"}
                             /\ phase'[c] = "unavailable"
      BY <1>1, <2>4, CrashPhases
    <3>3. \A c \in Calls : phase'[c] = phase[c] \/ phase'[c] = "unavailable"
      BY <1>1, <2>4, CrashPhases
    <3> QED
      BY <1>1, <1>3, <3>1, <3>2, <3>3, ProposingCommits DEF Before
  <2>5. ASSUME NEW t \in 1..Len(leaderOf), Hear(p, t) PROVE Commits'
    BY <1>1, <1>3, <2>5, ReleasedPhases, QuietCommits DEF Hear, commandVars, Before
  <2> QED
    BY <1>6, <2>1, <2>2, <2>3, <2>4, <2>5 DEF PodStep
<1>7. ASSUME NEW e \in inflight, Commit(e) PROVE Commits'
  <2>1. /\ log' = Append(log, e) /\ inflight' = inflight \ {e}
        /\ tries' = tries /\ phase' = phase /\ answer' = answer
    BY <1>7 DEF Commit, callVars
  <2>2. /\ Len(log') = Len(log) + 1 /\ Len(log) \in Nat /\ log'[Len(log) + 1] = e
        /\ \A i \in 1..Len(log) : log'[i] = log[i]
    BY <1>1, <2>1 DEF TypeOK
  <2>3. /\ \A i \in 1..Len(log) : log[i] # e /\ log[i] \notin inflight
        /\ e.try <= tries[e.call]
    BY <1>1 DEF Commits, ProposedOnce
  <2>4. \A i \in 1..Len(log') : i \in 1..Len(log) \/ i = Len(log) + 1
    BY <2>2
  <2>5. \A i \in 1..Len(log) : i \in 1..Len(log')
    BY <2>2
  <2>6. \A c \in Calls : Proposes(c)' = Proposes(c)
    BY <2>1 DEF Proposes
  <2>7. ProposedOnce'
    <3>1. ASSUME NEW i \in 1..Len(log')
          PROVE log'[i] \notin inflight' /\ log'[i].try <= tries'[log'[i].call]
      BY <1>1, <2>1, <2>2, <2>3, <2>4 DEF Commits, ProposedOnce
    <3>2. ASSUME NEW c \in Calls, phase'[c] \in Before
          PROVE  Proposes(c) \notin inflight' /\ \A i \in 1..Len(log') : log'[i] # Proposes(c)
      BY <1>1, <2>1, <2>2, <2>4, <3>2 DEF Commits, ProposedOnce, Before
    <3>3. ASSUME NEW c \in Calls, phase'[c] = "ok", c \notin Transfers
          PROVE  \E i \in 1..Len(log') : log'[i].call = c
      BY <1>3, <2>1, <2>2, <2>5, <3>3
    <3> QED
      BY <1>1, <1>3, <2>1, <2>6, <3>1, <3>2, <3>3 DEF Commits, ProposedOnce, Before
  <2>8. OneCommitPerAttempt'
    BY <1>1, <2>2, <2>3, <2>4 DEF Commits, OneCommitPerAttempt
  <2>9. AcknowledgedCommitted'
    BY <1>1, <2>1, <2>2, <2>5 DEF Commits, AcknowledgedCommitted
  <2> QED
    BY <2>7, <2>8, <2>9 DEF Commits
<1> QED
  BY <1>4, <1>5, <1>6, <1>7 DEF Next

-----------------------------------------------------------------------------
\* The invariant holds in every state the calls and raft can get to.
THEOREM AdminInvariant == Spec => []AdminInv
<1>1. AdminInv /\ [Next]_vars => AdminInv'
  BY TypeStep, BeliefsStep, PathStep, CommitsStep DEF AdminInv, Commits
<1> QED
  BY InitAdmin, <1>1, PTL DEF Spec

\* The variables of the admin calls keep their types.
THEOREM AdminTypeCorrect == Spec => []TypeOK
<1> AdminInv => TypeOK
  BY DEF AdminInv
<1> QED
  BY AdminInvariant, PTL

\* A forwarded DeleteURL or TriggerElection never goes round in a loop.
THEOREM ForwardingTheorem == Spec => []ForwardingClimbs
<1> AdminInv => ForwardingClimbs
  BY DEF AdminInv
<1> QED
  BY AdminInvariant, PTL

\* An attempt of DeleteURL or RecordFollow commits its command at most once.
THEOREM OneCommitTheorem == Spec => []OneCommitPerAttempt
<1> AdminInv => OneCommitPerAttempt
  BY DEF AdminInv
<1> QED
  BY AdminInvariant, PTL

\* A delete or follow that was answered ok is committed.
THEOREM AcknowledgedTheorem == Spec => []AcknowledgedCommitted
<1> AdminInv => AcknowledgedCommitted
  BY DEF AdminInv
<1> QED
  BY AdminInvariant, PTL
=============================================================================
