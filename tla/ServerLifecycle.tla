-------------------------- MODULE ServerLifecycle --------------------------
(***************************************************************************)
(* The process of a pod from its start to its end: runServe (cmd/serve.go) *)
(* with the six members of its errgroup, Cluster.Run, which shuts raft     *)
(* down and closes the SQLite file that handlers and the FSM use, and the  *)
(* calls that are in their handlers meanwhile.                             *)
(*                                                                         *)
(* raft, net/http, grpc and errgroup are external.  A client is taken to   *)
(* send what it has begun to send and raft to answer every future; the     *)
(* code itself waits for both without a limit.                             *)
(***************************************************************************)
CONSTANTS
    HTTPServers,    \* public HTTP, metrics
    GRPCServers,    \* admin gRPC, public gRPC
    ReadOnly,       \* the servers whose handlers only read: metrics
    Calls,          \* the calls that may arrive
    None            \* no call, no server, no outcome

Servers == HTTPServers \cup GRPCServers
Members == Servers \cup {"cluster", "telemetry"}

Other == "other"    \* an entry of the log that no call of this pod waits for

ASSUME ServersAssumption ==
    /\ HTTPServers \cap GRPCServers = {} /\ ReadOnly \subseteq Servers
    /\ {"cluster", "telemetry"} \cap Servers = {}
ASSUME NoneAssumption == None \notin Calls \cup Servers \cup {"ok", "error"}
ASSUME OtherAssumption == Other \notin Calls /\ None # Other

VARIABLES
    process,    \* "running", "exited", "failed" (exit status 1) or "killed"
    signalled,  \* SIGTERM was received
    cancelled,  \* ctx is done
    member,     \* where the goroutine of each member is
    raft,       \* "running", "stopping" or "down"
    applying,   \* what FSM.Apply is busy with
    open,       \* the SQLite file is open
    call,       \* where the handler of each call is
    at,         \* the server a call came to
    outcome     \* what its handler answers

processVars == <<process, signalled, cancelled, member>>
storeVars == <<raft, applying, open>>
callVars == <<call, at, outcome>>
vars == <<processVars, storeVars, callVars>>

Running == process = "running"
InHandler(c) == call[c] \in {"received", "waiting", "done"}

Init ==
    /\ process = "running" /\ signalled = FALSE /\ cancelled = FALSE
    /\ member = [m \in Members |-> IF m \in Servers THEN "starting" ELSE "serving"]
    /\ raft = "running" /\ applying = None /\ open = TRUE
    /\ call = [c \in Calls |-> "new"]
    /\ at = [c \in Calls |-> None]
    /\ outcome = [c \in Calls |-> None]

-----------------------------------------------------------------------------
(***************************************************************************)
(* runServe                                                                *)
(***************************************************************************)

\* A member returns nil.
Returns(m) ==
    /\ member' = [member EXCEPT ![m] = "returned"]
    /\ UNCHANGED cancelled

\* Mutant: the group has no context.
FailsAlone(m) ==
    /\ member' = [member EXCEPT ![m] = "failed"]
    /\ UNCHANGED cancelled

\* A member returns an error: the errgroup cancels ctx for all.
Fails(m) ==
    /\ member' = [member EXCEPT ![m] = "failed"]
    /\ cancelled' = TRUE

Signal ==
    /\ Running /\ ~signalled
    /\ signalled' = TRUE
    /\ cancelled' = TRUE
    /\ UNCHANGED <<process, member, storeVars, callVars>>

\* Server m listens, or cannot; one that was told to stop before is not an error
\* for net/http, but is one (ErrServerStopped) for grpc.
Serve(m) ==
    /\ Running
    /\ \/ /\ member[m] = "starting"
          /\ \/ member' = [member EXCEPT ![m] = "serving"] /\ UNCHANGED cancelled
             \/ Fails(m)
       \/ /\ member[m] = "stopped"
          /\ IF m \in HTTPServers THEN Returns(m) ELSE Fails(m)
    /\ UNCHANGED <<process, signalled, storeVars, callVars>>

\* Accept fails for good.
ServeFails(m) ==
    /\ Running /\ member[m] = "serving"
    /\ Fails(m)
    /\ UNCHANGED <<process, signalled, storeVars, callVars>>

\* The goroutine that waits for ctx: srv.Shutdown, of which ListenAndServe does
\* not wait for the end, or GracefulStop.
StopServer(m) ==
    /\ Running /\ cancelled
    /\ \/ /\ member[m] = "starting"
          /\ member' = [member EXCEPT ![m] = "stopped"]
       \/ /\ member[m] = "serving"
          /\ member' = [member EXCEPT ![m] = IF m \in HTTPServers THEN "returned" ELSE "stopping"]
    /\ UNCHANGED <<process, signalled, cancelled, storeVars, callVars>>

\* Mutant: the server is stopped with Stop.
StopsAtOnce(m) ==
    /\ Running /\ member[m] = "stopping"
    /\ Returns(m)
    /\ UNCHANGED <<process, signalled, storeVars, callVars>>

\* Serve of grpc returns when GracefulStop is through with its handlers.
GracefullyStops(m) ==
    /\ Running /\ member[m] = "stopping"
    /\ \A c \in Calls : at[c] = m => ~InHandler(c)
    /\ Returns(m)
    /\ UNCHANGED <<process, signalled, storeVars, callVars>>

\* The exporters get ShutdownTimeout; their errors are logged.
FlushTelemetry ==
    /\ Running /\ cancelled /\ member["telemetry"] = "serving"
    /\ Returns("telemetry")
    /\ UNCHANGED <<process, signalled, storeVars, callVars>>

\* Calls that are in their handlers end with the process.
CutOff == [c \in Calls |-> IF InHandler(c) THEN "cut" ELSE call[c]]

\* g.Wait returns, and main.
Exit ==
    /\ Running
    /\ \A m \in Members : member[m] \in {"returned", "failed"}
    /\ process' = IF \E m \in Members : member[m] = "failed" THEN "failed" ELSE "exited"
    /\ call' = CutOff
    /\ UNCHANGED <<signalled, cancelled, member, storeVars, at, outcome>>

\* terminationGracePeriodSeconds after SIGTERM.
Kill ==
    /\ Running /\ signalled
    /\ process' = "killed"
    /\ call' = CutOff
    /\ UNCHANGED <<signalled, cancelled, member, storeVars, at, outcome>>

-----------------------------------------------------------------------------
(***************************************************************************)
(* Cluster.Run                                                             *)
(***************************************************************************)

\* raft.Shutdown tells raft's goroutines to end.
ShutdownRaft ==
    /\ Running /\ cancelled /\ raft = "running"
    /\ raft' = "stopping"
    /\ UNCHANGED <<processVars, applying, open, callVars>>

\* Its Error waits for them: FSM.Apply ends, what is not applied fails.  The
\* transport may fail to close: then Run returns an error at once.
RaftIsDown ==
    /\ Running /\ raft = "stopping" /\ applying = None
    /\ raft' = "down"
    /\ call' = [c \in Calls |-> IF call[c] = "waiting" THEN "done" ELSE call[c]]
    /\ outcome' = [c \in Calls |-> IF call[c] = "waiting" THEN "error" ELSE outcome[c]]
    /\ \/ UNCHANGED <<member, cancelled>>
       \/ Fails("cluster")
    /\ UNCHANGED <<process, signalled, applying, open, at>>

\* Mutant: Run does not wait for the future of Shutdown.
CloseDatabaseEarly ==
    /\ Running /\ raft \in {"stopping", "down"} /\ member["cluster"] = "serving"
    /\ open' = FALSE
    /\ Returns("cluster") \/ Fails("cluster")
    /\ UNCHANGED <<process, signalled, raft, applying, callVars>>

CloseDatabase ==
    /\ Running /\ raft = "down" /\ member["cluster"] = "serving"
    /\ open' = FALSE
    /\ Returns("cluster") \/ Fails("cluster")
    /\ UNCHANGED <<process, signalled, raft, applying, callVars>>

-----------------------------------------------------------------------------
(***************************************************************************)
(* Calls                                                                   *)
(***************************************************************************)

\* Server m accepts a call and starts its handler.
Arrive(c, m) ==
    /\ Running /\ call[c] = "new" /\ member[m] = "serving"
    /\ call' = [call EXCEPT ![c] = "received"]
    /\ at' = [at EXCEPT ![c] = m]
    /\ UNCHANGED <<processVars, storeVars, outcome>>

Finish(c, result) ==
    /\ call' = [call EXCEPT ![c] = "done"]
    /\ outcome' = [outcome EXCEPT ![c] = result]

\* Mutant: a closed file is taken for a missing row.
ReadMissing(c) ==
    /\ Running /\ call[c] = "received"
    /\ Finish(c, IF open THEN "ok" ELSE "not found")
    /\ UNCHANGED <<processVars, storeVars, at>>

\* ResolveURL, the lists, readyz: a query; on a closed file it is an error.
Read(c) ==
    /\ Running /\ call[c] = "received"
    /\ Finish(c, IF open THEN "ok" ELSE "error")
    /\ UNCHANGED <<processVars, storeVars, at>>

\* ShortenURL, DeleteURL, RecordFollow: raft takes the command, or it does not
\* lead, or is being shut down.
Propose(c) ==
    /\ Running /\ call[c] = "received" /\ at[c] \notin ReadOnly
    /\ \/ /\ raft = "running"
          /\ call' = [call EXCEPT ![c] = "waiting"]
          /\ UNCHANGED outcome
       \/ Finish(c, "error")
    /\ UNCHANGED <<processVars, storeVars, at>>

\* Leadership is lost, or the command is not committed in time.
ProposalFails(c) ==
    /\ Running /\ call[c] = "waiting" /\ applying # c
    /\ Finish(c, "error")
    /\ UNCHANGED <<processVars, storeVars, at>>

\* raft's FSM goroutine takes the next committed entry; until it is down it may
\* also do that while it stops.
FSMApply(e) ==
    /\ Running /\ raft # "down" /\ applying = None
    /\ e # Other => call[e] = "waiting"
    /\ applying' = e
    /\ UNCHANGED <<processVars, raft, open, callVars>>

\* The statements of FSM.Apply have run and its result reaches the handler.
FSMApplied ==
    /\ Running /\ applying # None
    /\ applying' = None
    /\ IF applying = Other THEN UNCHANGED <<call, outcome>>
       ELSE Finish(applying, IF open THEN "ok" ELSE "error")
    /\ UNCHANGED <<processVars, raft, open, at>>

\* The handler returns and its answer is sent.
Answer(c) ==
    /\ Running /\ call[c] = "done"
    /\ call' = [call EXCEPT ![c] = "answered"]
    /\ UNCHANGED <<processVars, storeVars, at, outcome>>

-----------------------------------------------------------------------------
ServerStep(m) == Serve(m) \/ StopServer(m)
DrainStep(m) == GracefullyStops(m)
RunStep == ShutdownRaft \/ RaftIsDown \/ CloseDatabase
HandlerStep(c) == Read(c) \/ Propose(c) \/ ProposalFails(c) \/ Answer(c)

Next ==
    \/ Signal \/ FlushTelemetry \/ Exit \/ Kill
    \/ RunStep \/ FSMApplied
    \/ \E m \in Servers :
         ServerStep(m) \/ DrainStep(m) \/ ServeFails(m) \/ \E c \in Calls : Arrive(c, m)
    \/ \E c \in Calls : HandlerStep(c)
    \/ \E e \in Calls \cup {Other} : FSMApply(e)

Spec == Init /\ [][Next]_vars

\* Goroutines run; handlers and raft's futures come to an end.  Nothing else,
\* neither a call that arrives nor the kubelet, needs to happen.
Fairness ==
    /\ WF_vars(FlushTelemetry) /\ WF_vars(Exit) /\ WF_vars(FSMApplied)
    /\ WF_vars(ShutdownRaft) /\ SF_vars(RaftIsDown) /\ WF_vars(CloseDatabase)
    /\ \A m \in Servers : WF_vars(ServerStep(m)) /\ WF_vars(DrainStep(m))
    /\ \A c \in Calls : WF_vars(HandlerStep(c))

FairSpec == Spec /\ Fairness

(***************************************************************************)
(* Properties                                                              *)
(***************************************************************************)

\* Every variable has its type.
TypeOK ==
    /\ process \in {"running", "exited", "failed", "killed"}
    /\ signalled \in BOOLEAN /\ cancelled \in BOOLEAN /\ open \in BOOLEAN
    /\ member \in [Members -> {"starting", "stopped", "serving", "stopping",
                               "returned", "failed"}]
    /\ raft \in {"running", "stopping", "down"}
    /\ applying \in Calls \cup {None, Other}
    /\ call \in [Calls -> {"new", "received", "waiting", "done", "answered", "cut"}]
    /\ at \in [Calls -> Servers \cup {None}]
    /\ outcome \in [Calls -> {None, "ok", "error"}]

\* The FSM never applies an entry to a closed file (cluster.go:203-206), also when
\* entries keep coming while the pod stops: raft would take the error for the
\* result and go on, with an entry missing on this replica alone.
AppliedToOpenDatabase == applying # None => open

\* A gRPC call is not cut off by an orderly end (serve.go:110-113, 133-136): its
\* server waits for it, while raft and the file that it uses go away and its
\* HTTP siblings are given up.
GRPCCallsFinish ==
    \A c \in Calls : call[c] = "cut" =>
        \/ process = "killed"
        \/ at[c] \in HTTPServers
        \/ member[at[c]] = "failed"

\* The file is closed last, and raft's FSM has ended by then.
FileLast ==
    /\ ~open => raft = "down"
    /\ raft = "down" => applying = None

\* A gRPC server that has returned has no handlers left.
Drained ==
    /\ \A c \in Calls :
        /\ call[c] = "cut" => ~Running /\ at[c] \in Servers
        /\ InHandler(c) => at[c] \in Servers
        /\ InHandler(c) /\ at[c] \in GRPCServers => member[at[c]] # "returned"
    /\ Running /\ applying \in Calls => call[applying] = "waiting"

\* The inductive invariant of the proofs.
LifecycleInv == TypeOK /\ FileLast /\ Drained /\ GRPCCallsFinish

\* A process that was told to stop, or of which one part has failed, ends by
\* itself (serve.go:70, 187): no part waits for another one for ever.
StopsInTheEnd ==
    (cancelled \/ \E m \in Members : member[m] = "failed") ~> ~Running
=============================================================================
