----------------------------- MODULE AdminCalls -----------------------------
(***************************************************************************)
(* The calls of AdminService that go through the leader: DeleteURL and     *)
(* TriggerElection, which a pod that does not lead forwards to the one it  *)
(* believes to, and RecordFollow, which it refuses.  A call is seen from   *)
(* its caller to the answer: Envoy's attempts, the handlers on the pods an *)
(* attempt is passed along, raft.Apply or LeadershipTransfer at its end.   *)
(*                                                                         *)
(* hashicorp/raft is external: elections, what a pod believes about the    *)
(* leader (every change of its state clears that), commitment.  Envoy and  *)
(* the network are external: labels lag, so that an attempt reaches any    *)
(* pod, and connections break.                                             *)
(***************************************************************************)
EXTENDS Naturals, Sequences, FiniteSets

CONSTANTS
    Pods,
    Deletes,    \* the calls of DeleteURL
    Follows,    \* the calls of RecordFollow
    Transfers,  \* the calls of TriggerElection
    None,       \* no pod, no answer
    MaxCalls,   \* bound: calls that are made
    MaxTries,   \* bound: attempts of a call (virtual service: 1 + attempts)
    MaxTerm,    \* bound: elections
    MaxCrashes  \* bound: crashes of pods

Calls == Deletes \cup Follows \cup Transfers

ASSUME CallsAssumption ==
    /\ Deletes \cap Follows = {} /\ Deletes \cap Transfers = {}
    /\ Follows \cap Transfers = {}
ASSUME NoneAssumption == None \notin Pods \cup {"ok"}
ASSUME BoundsAssumption ==
    /\ MaxCalls \in Nat /\ MaxTries \in Nat
    /\ MaxTerm \in Nat /\ MaxCrashes \in Nat

VARIABLES
    leaderOf,   \* for each term with a leader, who that was
    term,       \* the term a pod is in
    leading,    \* the pods whose IsLeader is true
    knows,      \* the leader a pod knows of in its term, or None
    crashes,    \* counts the crashes
    inflight,   \* proposals not yet committed
    log,        \* the committed proposals
    tries,      \* how many attempts Envoy made for a call
    path,       \* the pods the latest attempt was passed along, and for each
                \* the term in which its sender believed it to lead
    phase,      \* where the handler on the last of them is
    answer      \* what the caller got

raftVars == <<leaderOf, term, leading, knows>>
commandVars == <<inflight, log>>
callVars == <<tries, path, phase, answer>>
vars == <<raftVars, crashes, commandVars, callVars>>

Hop == [pod : Pods, term : Nat]
Proposal == [call : Calls, try : Nat]

\* The phases of an attempt that has a handler running, or on its way to one.
Running == {"arriving", "asking", "checked", "waiting", "transferring"}
Ended == {"ok", "failed", "unavailable"}

Init ==
    /\ leaderOf = <<>> /\ leading = {} /\ crashes = 0
    /\ term = [p \in Pods |-> 0]
    /\ knows = [p \in Pods |-> None]
    /\ inflight = {} /\ log = <<>>
    /\ tries = [c \in Calls |-> 0]
    /\ path = [c \in Calls |-> <<>>]
    /\ phase = [c \in Calls |-> "new"]
    /\ answer = [c \in Calls |-> None]

Last(c) == path[c][Len(path[c])].pod

\* The latest attempt of call c has a handler on pod p, at the end of its path.
At(c, p) == path[c] # <<>> /\ Last(c) = p

\* The latest attempt of c as a proposal.
Proposes(c) == [call |-> c, try |-> tries[c]]

Goto(c, ph) == phase' = [phase EXCEPT ![c] = ph]

-----------------------------------------------------------------------------
(***************************************************************************)
(* Envoy                                                                   *)
(***************************************************************************)

\* Mutant: one attempt more than the virtual service allows.
MayTryOnceMore(c) ==
    /\ answer[c] = None /\ tries[c] <= MaxTries
    /\ phase[c] \in {"new", "unavailable"} \/ (c \notin Follows /\ phase[c] \in Running)

\* retryOn names a broken connection and the status UNAVAILABLE; perTryTimeout
\* (10 s) also ends an attempt, but not one of a follow, whose caller waits 5 s.
MayTry(c) ==
    /\ answer[c] = None /\ tries[c] < MaxTries
    /\ phase[c] \in {"new", "unavailable"} \/ (c \notin Follows /\ phase[c] \in Running)

\* What nobody listens to any more goes on, and may get to its proposal.
Abandon(c) ==
    \/ UNCHANGED inflight
    \/ /\ c \notin Transfers /\ phase[c] \in {"arriving", "asking", "checked"}
       /\ inflight' = inflight \cup {Proposes(c)}

Send(c, p) ==
    /\ MayTry(c)
    /\ Cardinality({c} \cup {d \in Calls : tries[d] > 0}) <= MaxCalls
    /\ Abandon(c)
    /\ tries' = [tries EXCEPT ![c] = @ + 1]
    /\ path' = [path EXCEPT ![c] = <<[pod |-> p, term |-> 0]>>]
    /\ Goto(c, "arriving")
    /\ UNCHANGED <<raftVars, crashes, log, answer>>

\* An answer of the last attempt goes to the caller.  UNAVAILABLE does only
\* when there is no further attempt.
Answer(c) ==
    /\ answer[c] = None
    /\ phase[c] \in {"ok", "failed"} \/ (phase[c] = "unavailable" /\ tries[c] = MaxTries)
    /\ answer' = [answer EXCEPT ![c] = IF phase[c] = "ok" THEN "ok" ELSE "error"]
    /\ UNCHANGED <<raftVars, crashes, commandVars, tries, path, phase>>

\* The timeout of the route (30 s), or of the pod that records a follow.
GiveUp(c) ==
    /\ answer[c] = None
    /\ phase[c] \in Running \cup {"unavailable"}
    /\ Abandon(c)
    /\ answer' = [answer EXCEPT ![c] = "error"]
    /\ Goto(c, "failed")
    /\ UNCHANGED <<raftVars, crashes, log, tries, path>>

\* A connection on the way breaks, or its end does not listen: what is left of
\* the path gives UNAVAILABLE back to Envoy.
Disconnect(c) ==
    /\ phase[c] \in Running
    /\ Abandon(c)
    /\ Goto(c, "unavailable")
    /\ UNCHANGED <<raftVars, crashes, log, tries, path, answer>>

-----------------------------------------------------------------------------
(***************************************************************************)
(* The handlers                                                            *)
(***************************************************************************)

\* A handler asks IsLeader.  RecordFollow refuses with FailedPrecondition.
Receive(c) ==
    /\ phase[c] = "arriving"
    /\ Goto(c, IF Last(c) \in leading THEN "checked"
               ELSE IF c \in Follows THEN "failed" ELSE "asking")
    /\ UNCHANGED <<raftVars, crashes, commandVars, tries, path, answer>>

\* Mutant: a pod that knows of no leader takes the last one of its term.
LastLeaderAdminAddr(p) ==
    IF knows[p] = None /\ term[p] > 0 THEN leaderOf[term[p]] ELSE knows[p]

\* The address of the leader, None for the empty string.
LeaderAdminAddr(p) == knows[p]

\* Mutant: the call waits until there is an address.
ForwardNobodyWaits(c) ==
    /\ phase[c] = "asking" /\ LeaderAdminAddr(Last(c)) = None
    /\ UNCHANGED vars

\* With no leader to forward to TriggerElection answers UNAVAILABLE; DeleteURL
\* dials the empty address, and gRPC may give its failure that status or not.
ForwardNobody(c) ==
    /\ phase[c] = "asking" /\ LeaderAdminAddr(Last(c)) = None
    /\ \/ Goto(c, "unavailable")
       \/ c \in Deletes /\ Goto(c, "failed")
    /\ UNCHANGED <<raftVars, crashes, commandVars, tries, path, answer>>

\* The call is forwarded, maybe long after IsLeader was asked.
Forward(c) ==
    LET p == Last(c)
    IN  /\ phase[c] = "asking" /\ LeaderAdminAddr(p) # None
        /\ path' = [path EXCEPT ![c] =
                      Append(@, [pod |-> LeaderAdminAddr(p), term |-> term[p]])]
        /\ Goto(c, "arriving")
        /\ UNCHANGED <<raftVars, crashes, commandVars, tries, answer>>

\* Cluster.Apply or LeadershipTransfer; raft refuses a pod that does not lead
\* any more.
Execute(c) ==
    /\ phase[c] = "checked" /\ Last(c) \in leading
    /\ IF c \in Transfers
       THEN Goto(c, "transferring") /\ UNCHANGED inflight
       ELSE Goto(c, "waiting") /\ inflight' = inflight \cup {Proposes(c)}
    /\ UNCHANGED <<raftVars, crashes, log, tries, path, answer>>

\* Mutant: the handler applies again when raft.Apply gave an error.
ExecuteFailsAgain(c) ==
    /\ phase[c] \in {"checked", "waiting", "transferring"}
    /\ IF c \in Transfers
       THEN Goto(c, "failed") /\ UNCHANGED inflight
       ELSE Goto(c, "waiting") /\ inflight' = inflight \cup {Proposes(c)}
    /\ UNCHANGED <<raftVars, crashes, log, tries, path, answer>>

\* raft returns an error: the pod does not lead, its queue is full, it is
\* busy with a transfer, the transfer timed out.
ExecuteFails(c) ==
    /\ phase[c] = "checked" \/ phase[c] = "transferring"
    /\ Goto(c, "failed")
    /\ UNCHANGED <<raftVars, crashes, commandVars, tries, path, answer>>

\* Mutant: the future is not waited for.
ApplyReturnsEarly(c) ==
    /\ phase[c] = "waiting"
    /\ Goto(c, "ok")
    /\ UNCHANGED <<raftVars, crashes, commandVars, tries, path, answer>>

\* raft.Apply returns after the FSM of the pod applied the command.
ApplyReturns(c) ==
    /\ phase[c] = "waiting"
    /\ \E i \in 1..Len(log) : log[i] = Proposes(c)
    /\ Goto(c, "ok")
    /\ UNCHANGED <<raftVars, crashes, commandVars, tries, path, answer>>

-----------------------------------------------------------------------------
(***************************************************************************)
(* raft                                                                    *)
(***************************************************************************)

\* Attempts that wait on pod p as it stops to lead: Apply fails, except that
\* what is committed may already be on its way to the FSM; a transfer is done.
Released(p) ==
    \E spared \in SUBSET {c \in Calls : \E i \in 1..Len(log) : log[i] = Proposes(c)} :
        phase' = [c \in Calls |->
                    IF ~At(c, p) THEN phase[c]
                    ELSE IF phase[c] = "transferring" THEN "ok"
                    ELSE IF phase[c] = "waiting" /\ c \notin spared THEN "failed"
                    ELSE phase[c]]

Elect(p) ==
    /\ Len(leaderOf) < MaxTerm
    /\ p \notin leading
    /\ leaderOf' = Append(leaderOf, p)
    /\ term' = [term EXCEPT ![p] = Len(leaderOf) + 1]
    /\ leading' = leading \cup {p}
    /\ knows' = [knows EXCEPT ![p] = None]
    /\ UNCHANGED <<crashes, commandVars, callVars>>

\* runLeader sets the leader only after the state.
KnowItself(p) ==
    /\ p \in leading /\ knows[p] = None
    /\ knows' = [knows EXCEPT ![p] = p]
    /\ UNCHANGED <<leaderOf, term, leading, crashes, commandVars, callVars>>

\* p gets AppendEntries of the leader of term t, which may be delayed.
Hear(p, t) ==
    /\ leaderOf[t] # p
    /\ t > term[p] \/ (t = term[p] /\ knows[p] = None)
    /\ term' = [term EXCEPT ![p] = t]
    /\ knows' = [knows EXCEPT ![p] = leaderOf[t]]
    /\ leading' = leading \ {p}
    /\ IF p \in leading THEN Released(p) ELSE UNCHANGED phase
    /\ UNCHANGED <<leaderOf, crashes, commandVars, tries, path, answer>>

\* A leader's lease runs out, or a follower's heartbeat timeout.
StepDown(p) ==
    /\ p \in leading \/ knows[p] # None
    /\ knows' = [knows EXCEPT ![p] = None]
    /\ leading' = leading \ {p}
    /\ IF p \in leading THEN Released(p) ELSE UNCHANGED phase
    /\ UNCHANGED <<leaderOf, term, crashes, commandVars, tries, path, answer>>

Commit(e) ==
    /\ e \in inflight
    /\ log' = Append(log, e)
    /\ inflight' = inflight \ {e}
    /\ UNCHANGED <<raftVars, crashes, callVars>>

\* A pod dies and starts again.  An attempt whose path it is on breaks; what
\* runs at the end of that path goes on when that is another pod.
Crash(p) ==
    /\ crashes < MaxCrashes
    /\ crashes' = crashes + 1
    /\ knows' = [knows EXCEPT ![p] = None]
    /\ leading' = leading \ {p}
    /\ LET broken == {c \in Calls : phase[c] \in Running
                                     /\ \E i \in 1..Len(path[c]) : path[c][i].pod = p}
           goingOn == {c \in broken : Last(c) # p /\ c \notin Transfers
                                       /\ phase[c] \in {"arriving", "asking", "checked"}}
       IN  /\ phase' = [c \in Calls |-> IF c \in broken THEN "unavailable" ELSE phase[c]]
           /\ \E cs \in SUBSET goingOn :
                inflight' = inflight \cup {Proposes(c) : c \in cs}
    /\ UNCHANGED <<leaderOf, term, log, tries, path, answer>>

-----------------------------------------------------------------------------
CallStep(c) ==
    \/ \E p \in Pods : Send(c, p)
    \/ Answer(c) \/ GiveUp(c) \/ Disconnect(c) \/ Receive(c)
    \/ ForwardNobody(c) \/ Forward(c)
    \/ Execute(c) \/ ExecuteFails(c) \/ ApplyReturns(c)

PodStep(p) ==
    \/ Elect(p) \/ KnowItself(p) \/ StepDown(p) \/ Crash(p)
    \/ \E t \in 1..Len(leaderOf) : Hear(p, t)

Next ==
    \/ \E c \in Calls : CallStep(c)
    \/ \E p \in Pods : PodStep(p)
    \/ \E e \in inflight : Commit(e)

Spec == Init /\ [][Next]_vars

\* Handlers run, a transfer ends or times out, the FSM of a leader answers.
HandlerStep(c) ==
    \/ Receive(c) \/ ForwardNobody(c) \/ Forward(c)
    \/ Execute(c) \/ ExecuteFails(c) \/ ApplyReturns(c)

\* A leader commits what it was given or, without a majority, steps down.
LeaderStep(p) ==
    /\ p \in leading
    /\ \/ StepDown(p)
       \/ \E c \in Calls : At(c, p) /\ phase[c] = "waiting" /\ Commit(Proposes(c))

Fairness ==
    /\ \A c \in Calls : WF_vars(HandlerStep(c))
    /\ \A p \in Pods : WF_vars(LeaderStep(p))

FairSpec == Spec /\ Fairness

(***************************************************************************)
(* Properties                                                              *)
(***************************************************************************)

\* Every variable has its type.
TypeOK ==
    /\ leaderOf \in Seq(Pods)
    /\ term \in [Pods -> 0..Len(leaderOf)]
    /\ leading \subseteq Pods
    /\ knows \in [Pods -> Pods \cup {None}]
    /\ crashes \in 0..MaxCrashes
    /\ inflight \subseteq Proposal
    /\ log \in Seq(Proposal)
    /\ tries \in [Calls -> 0..MaxTries]
    /\ path \in [Calls -> Seq(Hop)]
    /\ phase \in [Calls -> {"new"} \cup Running \cup Ended]
    /\ answer \in [Calls -> {None, "ok", "error"}]

\* A call that pods forward to each other (admin.go:83-93, 215-227) goes to the
\* leader of a later term with every hop, so that it never goes round in a loop,
\* although each pod acts on what it believes by then, even about itself.
ForwardingClimbs ==
    \A c \in Calls : \A i \in 2..Len(path[c]) :
        /\ path[c][i].term > path[c][i - 1].term
        /\ path[c][i].pod = leaderOf[path[c][i].term]

\* However far it was forwarded and whatever broke on the way, an attempt puts
\* its command into the log at most once (admin.go:227, 311): a follow is counted
\* no more often than Envoy tried.
OneCommitPerAttempt ==
    \A i, j \in 1..Len(log) : log[i] = log[j] => i = j

\* A delete or a follow that is answered ok (admin.go:238, 321) is committed.
AcknowledgedCommitted ==
    \A c \in Deletes \cup Follows :
        answer[c] = "ok" => \E i \in 1..Len(log) : log[i].call = c

\* What a pod knows of the leader is true of its term, and of itself only while
\* it leads (raft.setState and setLeader, which IsLeader and LeaderAddr read).
BeliefsTrue ==
    /\ \A p \in Pods :
        /\ p \in leading => term[p] > 0 /\ leaderOf[term[p]] = p
        /\ knows[p] # None => term[p] > 0 /\ leaderOf[term[p]] = knows[p]
        /\ knows[p] = p => p \in leading
    /\ \A t \in 1..Len(leaderOf) : term[leaderOf[t]] >= t

\* The pod at the end of a path has seen the term in which it was addressed,
\* and when it did not lead at the check it can only name a leader of a later one.
EndsKnowMore ==
    \A c \in Calls :
        /\ phase[c] \in Running => path[c] # <<>>
        /\ \A i \in 1..Len(path[c]) : path[c][i].term <= term[path[c][i].pod]
        /\ path[c] # <<>> => path[c][1].term = 0
        /\ (phase[c] = "asking" /\ (knows[Last(c)] # None \/ Last(c) \in leading)) =>
             term[Last(c)] > path[c][Len(path[c])].term

\* Whether an attempt has proposed shows in its phase.
ProposedOnce ==
    /\ \A i \in 1..Len(log) : log[i] \notin inflight /\ log[i].try <= tries[log[i].call]
    /\ \A e \in inflight : e.try <= tries[e.call]
    /\ \A c \in Calls :
        /\ phase[c] \in {"arriving", "asking", "checked", "transferring"} =>
             /\ Proposes(c) \notin inflight
             /\ \A i \in 1..Len(log) : log[i] # Proposes(c)
        /\ phase[c] = "transferring" => c \in Transfers
        /\ (phase[c] = "ok" /\ c \notin Transfers) =>
             \E i \in 1..Len(log) : log[i].call = c

\* The inductive invariant of the proofs.
AdminInv ==
    /\ TypeOK /\ BeliefsTrue /\ EndsKnowMore /\ ForwardingClimbs
    /\ ProposedOnce /\ OneCommitPerAttempt /\ AcknowledgedCommitted

\* No handler waits for ever, on its own pod or for one it forwarded to: in the
\* end none runs, also without the timeouts of Envoy, which a caller inside the
\* mesh that dials a pod does not have.
HandlersReturn == <>[](\A c \in Calls : phase[c] \notin Running)
=============================================================================
