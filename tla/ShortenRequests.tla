-------------------------- MODULE ShortenRequests --------------------------
(***************************************************************************)
(* POST /shorten from the client to the answer: Envoy's attempts, the      *)
(* handler ShortenURL on the pod an attempt reaches (handleShorten takes   *)
(* the same steps), Cluster.Apply and the replicated store of UrlReplicas. *)
(*                                                                         *)
(* A request is named by its long URL.  The counter and Encode give an     *)
(* attempt any code: a counter can be issued twice and different counters  *)
(* can encode alike.  An attempt may reach any pod, since labels lag.      *)
(* hashicorp/raft and Envoy are external: a deposed leader may go on       *)
(* leading for a while, and what was proposed may commit although its      *)
(* handler was told otherwise, was given up by Envoy or died.              *)
(***************************************************************************)
EXTENDS UrlReplicas

CONSTANTS
    MaxTries,   \* bound: attempts of a request (virtual service: attempts)
    None        \* no replica, no code, no answer

ASSUME MaxTriesAssumption == MaxTries \in Nat
ASSUME NoneAssumption ==
    /\ None \notin Codes \cup Replicas \cup {"error"}
    /\ "error" \notin Codes

VARIABLES
    leading,    \* the replicas whose IsLeader is true
    inflight,   \* proposals not yet committed
    answer,     \* what a client got: a code, "error", or None
    tries,      \* how many attempts Envoy made for a request
    phase,      \* where the latest attempt of a request is in its handler
    on,         \* the pod it reached
    code,       \* the code it shortens to
    index       \* the log index of its command, 0 when not committed

storeVars == <<log, ideal, applied, database, deleting, snapshot, restarts>>
attemptVars == <<tries, phase, on, code, index>>
requestVars == <<leading, inflight, answer, attemptVars>>
allVars == <<storeVars, requestVars>>

\* A command proposed by an attempt of the request for url.
Proposal == [url : LongURLs, try : 1..MaxTries, code : Codes]

Proposes(u, c) == [url |-> u, try |-> tries[u], code |-> c]

\* The requests whose latest attempt waits for raft on pod n.
Waiting(n) == {u \in LongURLs : on[u] = n /\ phase[u] = "waiting"}

InitRequests ==
    /\ Init
    /\ leading = {} /\ inflight = {}
    /\ answer = [u \in LongURLs |-> None]
    /\ tries = [u \in LongURLs |-> 0]
    /\ phase = [u \in LongURLs |-> "reset"]
    /\ on = [u \in LongURLs |-> None]
    /\ code = [u \in LongURLs |-> None]
    /\ index = [u \in LongURLs |-> 0]

\* The handlers of the requests in us are heard of no more.
Forget(us) ==
    /\ phase' = [u \in LongURLs |-> IF u \in us THEN "reset" ELSE phase[u]]
    /\ on' = [u \in LongURLs |-> IF u \in us THEN None ELSE on[u]]
    /\ code' = [u \in LongURLs |-> IF u \in us THEN None ELSE code[u]]
    /\ index' = [u \in LongURLs |-> IF u \in us THEN 0 ELSE index[u]]

-----------------------------------------------------------------------------
(***************************************************************************)
(* Envoy                                                                   *)
(***************************************************************************)

\* Envoy tries again after a reset and after perTryTimeout.  A gRPC status of
\* the handler is neither: retryOn does not name it.
MayTry(u) ==
    answer[u] = None /\ tries[u] < MaxTries /\ phase[u] \in {"reset", "counting", "waiting"}

\* A handler Envoy no longer listens to goes on, and may get to its proposal.
Abandon(u) ==
    \/ UNCHANGED inflight
    \/ /\ phase[u] = "counting"
       /\ \E c \in Codes : inflight' = inflight \cup {Proposes(u, c)}

\* An attempt reaches pod n, whose handler asks IsLeader first.
Send(u, n) ==
    /\ MayTry(u)
    /\ Abandon(u)
    /\ tries' = [tries EXCEPT ![u] = @ + 1]
    /\ on' = [on EXCEPT ![u] = n]
    /\ phase' = [phase EXCEPT ![u] = IF n \in leading THEN "counting" ELSE "rejected"]
    /\ code' = [code EXCEPT ![u] = None]
    /\ index' = [index EXCEPT ![u] = 0]
    /\ UNCHANGED <<storeVars, leading, answer>>

\* The answer of the latest attempt reaches the client.
Answer(u) ==
    /\ answer[u] = None
    /\ \/ /\ phase[u] = "created"
          /\ answer' = [answer EXCEPT ![u] = code[u]]
          /\ UNCHANGED <<code, index>>
       \/ /\ phase[u] \in {"failed", "rejected"}
          /\ answer' = [answer EXCEPT ![u] = "error"]
          /\ code' = [code EXCEPT ![u] = None]
          /\ index' = [index EXCEPT ![u] = 0]
    /\ on' = [on EXCEPT ![u] = None]
    /\ UNCHANGED <<storeVars, leading, inflight, tries, phase>>

\* The route's timeout, or a reset of the last attempt.
GiveUp(u) ==
    /\ answer[u] = None /\ tries[u] > 0
    /\ phase[u] \in {"counting", "waiting", "reset"}
    /\ answer' = [answer EXCEPT ![u] = "error"]
    /\ Abandon(u)
    /\ Forget({u})
    /\ UNCHANGED <<storeVars, leading, tries>>

-----------------------------------------------------------------------------
(***************************************************************************)
(* The handler                                                             *)
(***************************************************************************)

\* NextCounter returns an error.
CounterFails(u) ==
    /\ phase[u] = "counting"
    /\ phase' = [phase EXCEPT ![u] = "failed"]
    /\ UNCHANGED <<storeVars, leading, inflight, answer, tries, on, code, index>>

\* Mutant: the handler does not wait for the future of raft.Apply.
ProposeUnawaited(u, c) ==
    /\ phase[u] = "counting"
    /\ code' = [code EXCEPT ![u] = c]
    /\ phase' = [phase EXCEPT ![u] = "created"]
    /\ inflight' = inflight \cup {Proposes(u, c)}
    /\ UNCHANGED <<storeVars, leading, answer, tries, on, index>>

\* NextCounter and Encode gave a code; raft.Apply takes the command into the
\* log of a leader and fails on any other pod.
Propose(u, c) ==
    /\ phase[u] = "counting"
    /\ \/ /\ on[u] \in leading
          /\ code' = [code EXCEPT ![u] = c]
          /\ phase' = [phase EXCEPT ![u] = "waiting"]
          /\ inflight' = inflight \cup {Proposes(u, c)}
       \/ /\ on[u] \notin leading
          /\ phase' = [phase EXCEPT ![u] = "failed"]
          /\ UNCHANGED <<inflight, code>>
    /\ UNCHANGED <<storeVars, leading, answer, tries, on, index>>

\* Mutant: the error in the result of the FSM is not looked at.
OutcomeUnchecked(db, cmd) == "created"

\* What the handler makes of the result of applyShortenURL.
Outcome(db, cmd) == IF db.urls[cmd.code] = NoRow THEN "created" ELSE "failed"

\* The FSM applies an insert; the attempt that waits for it on this pod hears
\* the result.
ApplyAndAnswer(n) ==
    /\ ApplyShortenURL(n)
    /\ phase' = [u \in LongURLs |->
                   IF u \in Waiting(n) /\ index[u] = applied[n] + 1
                   THEN Outcome(database[n], NextEntry(n)) ELSE phase[u]]
    /\ UNCHANGED <<leading, inflight, answer, tries, on, code, index>>

-----------------------------------------------------------------------------
(***************************************************************************)
(* raft and the rest of the store                                          *)
(***************************************************************************)

BecomeLeader(n) ==
    /\ n \notin leading
    /\ leading' = leading \cup {n}
    /\ UNCHANGED <<storeVars, inflight, answer, attemptVars>>

\* What waits on n fails with ErrLeadershipLost, except that what is committed
\* may already be on its way to the FSM.
StepDown(n) ==
    /\ n \in leading
    /\ leading' = leading \ {n}
    /\ \E spared \in SUBSET {u \in Waiting(n) : index[u] # 0} :
         phase' = [u \in LongURLs |->
                     IF u \in Waiting(n) \ spared THEN "failed" ELSE phase[u]]
    /\ UNCHANGED <<storeVars, inflight, answer, tries, on, code, index>>

\* A proposed insert commits, whether or not its attempt still waits for it.
CommitShorten(p) ==
    /\ p \in inflight
    /\ Commit([type |-> "CmdShortenURL", code |-> p.code, url |-> p.url])
    /\ inflight' = inflight \ {p}
    /\ index' = IF p.try = tries[p.url] /\ phase[p.url] = "waiting"
                THEN [index EXCEPT ![p.url] = Len(log) + 1] ELSE index
    /\ UNCHANGED <<leading, answer, tries, phase, on, code>>

\* A follow or a delete commits.
CommitOther(cmd) ==
    /\ cmd.type # "CmdShortenURL"
    /\ Commit(cmd)
    /\ UNCHANGED requestVars

\* The process on n dies with its handlers; an answer on its way is lost.
Crash(n) ==
    /\ Restart(n)
    /\ leading' = leading \ {n}
    /\ Forget({u \in LongURLs : on[u] = n /\ answer[u] = None})
    /\ UNCHANGED <<inflight, answer, tries>>

\* The rest of the store goes its way.  A pod is sent a snapshot only as a
\* follower that has handed all it had to its FSM.
StoreStep(n) ==
    /\ \/ ApplyRecordFollow(n) \/ ApplyDeleteStats(n) \/ ApplyDeleteURL(n) \/ TakeSnapshot(n)
       \/ /\ n \notin leading /\ Waiting(n) = {}
          /\ \E m \in Replicas : InstallSnapshot(n, m)
    /\ UNCHANGED requestVars

-----------------------------------------------------------------------------
RequestStep(u) ==
    \/ \E n \in Replicas : Send(u, n)
    \/ Answer(u) \/ GiveUp(u) \/ CounterFails(u)
    \/ \E c \in Codes : Propose(u, c)

PodStep(n) ==
    ApplyAndAnswer(n) \/ BecomeLeader(n) \/ StepDown(n) \/ Crash(n) \/ StoreStep(n)

NextRequests ==
    \/ \E u \in LongURLs : RequestStep(u)
    \/ \E p \in inflight : CommitShorten(p)
    \/ \E cmd \in Command : CommitOther(cmd)
    \/ \E n \in Replicas : PodStep(n)

SpecRequests == InitRequests /\ [][NextRequests]_allVars

(***************************************************************************)
(* Properties                                                              *)
(***************************************************************************)

\* The variables of the requests have their types.
RequestsTypeOK ==
    /\ leading \subseteq Replicas
    /\ inflight \subseteq Proposal
    /\ answer \in [LongURLs -> Codes \cup {None, "error"}]
    /\ tries \in [LongURLs -> 0..MaxTries]
    /\ phase \in [LongURLs -> {"rejected", "counting", "waiting", "created",
                               "failed", "reset"}]
    /\ on \in [LongURLs -> Replicas \cup {None}]
    /\ code \in [LongURLs -> Codes \cup {None}]
    /\ index \in [LongURLs -> 0..MaxLog]

\* No delete of code c is committed after the i-th entry and before the j-th.
NoDeleteBetween(c, i, j) ==
    \A k \in 1..Len(log) : i < k /\ k < j =>
        ~(log[k].type = "CmdDeleteURL" /\ log[k].code = c)

\* A client that got a code (urlshortener_grpc.go:82) can follow it: every pod
\* that has applied the log as far as that insert redirects the code to the
\* client's URL until a delete is committed, whatever leaders were lost, pods
\* crashed and repeated the log, and other attempts drew the same code.
AcknowledgedResolves ==
    \A u \in LongURLs : answer[u] \in Codes =>
        /\ index[u] # 0
        /\ NoDeleteBetween(answer[u], index[u], Len(log) + 1) =>
             \A n \in Replicas :
                applied[n] >= index[u] => database[n].urls[answer[u]] = u

\* Two clients get the same code only when it was deleted in between: the
\* UNIQUE column decides for all pods, also for counters issued twice and for
\* codes that collide (schema.sql:3, urlshortener_grpc.go:74-77).
NoCodeGivenTwice ==
    \A u, v \in LongURLs :
        (answer[u] \in Codes /\ answer[u] = answer[v] /\ index[u] < index[v])
            => ~NoDeleteBetween(answer[u], index[u], index[v])

\* The codes that an insert of url u into a free row gave it.
Granted(u) ==
    {c \in Codes : \E i \in 1..Len(log) :
        /\ log[i] = [type |-> "CmdShortenURL", code |-> c, url |-> u]
        /\ Ideal(i - 1).urls[c] = NoRow}

Promised == INSTANCE Shortener WITH
    store <- Ideal(Len(log)).urls,
    granted <- [u \in LongURLs |-> Granted(u)]

\* With all its pods, leaders, logs, attempts and repeats the service does to its
\* clients and to the committed store what one table would do: a code that a
\* client is told (urlshortener_grpc.go:82) is one that its own request got, by
\* an insert that found the row free in the one order of the log.
ImplementsShortener == Promised!Spec
=============================================================================
