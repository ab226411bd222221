----------------------- MODULE ServerLifecycleProofs -----------------------
(***************************************************************************)
(* LifecycleInv is inductive: the file outlives the FSM, and a gRPC server *)
(* its handlers, for any number of servers and calls.                      *)
(***************************************************************************)
EXTENDS ServerLifecycle, TLAPS

USE DEF processVars, storeVars, callVars, vars, Running, InHandler, Servers,
        Members, Other

LEMMA InitLifecycle == Init => LifecycleInv
BY NoneAssumption, OtherAssumption
   DEF Init, LifecycleInv, TypeOK, FileLast, Drained, GRPCCallsFinish

\* Steps that leave the calls and the store alone and turn a gRPC server's state
\* only into one that is not "returned", unless its handlers are through.
LEMMA MemberStep ==
    ASSUME LifecycleInv, UNCHANGED <<process, storeVars, callVars>>,
           signalled' \in BOOLEAN, cancelled' \in BOOLEAN,
           member' \in [Members -> {"starting", "stopped", "serving", "stopping",
                                    "returned", "failed"}],
           \A m \in Members : member[m] = "failed" => member'[m] = "failed",
           \A m \in GRPCServers : member'[m] = "returned" =>
               member[m] = "returned" \/ \A c \in Calls : at[c] = m => ~InHandler(c)
    PROVE  LifecycleInv'
<1>1. TypeOK'
  BY DEF LifecycleInv, TypeOK
<1>2. FileLast'
  BY DEF LifecycleInv, FileLast
<1>3. Drained'
  BY DEF LifecycleInv, TypeOK, Drained
<1>4. GRPCCallsFinish'
  BY DEF LifecycleInv, TypeOK, Drained, GRPCCallsFinish
<1> QED
  BY <1>1, <1>2, <1>3, <1>4 DEF LifecycleInv

LEMMA NextLifecycle == LifecycleInv /\ [Next]_vars => LifecycleInv'
<1> SUFFICES ASSUME LifecycleInv, [Next]_vars PROVE LifecycleInv'
  OBVIOUS
<1> USE ServersAssumption, NoneAssumption, OtherAssumption
<1>1. CASE Signal
  BY <1>1, MemberStep DEF Signal, LifecycleInv, TypeOK
<1>2. CASE FlushTelemetry
  BY <1>2, MemberStep DEF FlushTelemetry, Returns, LifecycleInv, TypeOK
<1>3. ASSUME NEW m \in Servers, Serve(m) PROVE LifecycleInv'
  <2>1. CASE member[m] = "starting"
    BY <1>3, <2>1, MemberStep DEF Serve, Fails, LifecycleInv, TypeOK
  <2>2. CASE member[m] = "stopped" /\ m \in HTTPServers
    BY <1>3, <2>2, MemberStep DEF Serve, Returns, LifecycleInv, TypeOK
  <2>3. CASE member[m] = "stopped" /\ m \notin HTTPServers
    BY <1>3, <2>3, MemberStep DEF Serve, Fails, LifecycleInv, TypeOK
  <2> QED
    BY <1>3, <2>1, <2>2, <2>3 DEF Serve
<1>4. ASSUME NEW m \in Servers, ServeFails(m) PROVE LifecycleInv'
  BY <1>4, MemberStep DEF ServeFails, Fails, LifecycleInv, TypeOK
<1>5. ASSUME NEW m \in Servers, StopServer(m) PROVE LifecycleInv'
  BY <1>5, MemberStep DEF StopServer, LifecycleInv, TypeOK
<1>6. ASSUME NEW m \in Servers, GracefullyStops(m) PROVE LifecycleInv'
  BY <1>6, MemberStep DEF GracefullyStops, Returns, LifecycleInv, TypeOK
<1>7. CASE Exit
  <2>1. TypeOK' /\ FileLast' /\ Drained'
    BY <1>7 DEF Exit, CutOff, LifecycleInv, TypeOK, FileLast, Drained
  <2>2. GRPCCallsFinish'
    BY <1>7 DEF Exit, CutOff, LifecycleInv, TypeOK, Drained, GRPCCallsFinish
  <2> QED
    BY <2>1, <2>2 DEF LifecycleInv
<1>8. CASE Kill
  BY <1>8 DEF Kill, CutOff, LifecycleInv, TypeOK, FileLast, Drained, GRPCCallsFinish
<1>9. CASE ShutdownRaft
  BY <1>9 DEF ShutdownRaft, LifecycleInv, TypeOK, FileLast, Drained, GRPCCallsFinish
<1>10. CASE RaftIsDown
  BY <1>10 DEF RaftIsDown, Fails, LifecycleInv, TypeOK, FileLast, Drained, GRPCCallsFinish
<1>11. CASE CloseDatabase
  BY <1>11 DEF CloseDatabase, Returns, Fails, LifecycleInv, TypeOK, FileLast, Drained,
               GRPCCallsFinish
<1>12. ASSUME NEW c \in Calls, NEW m \in Servers, Arrive(c, m) PROVE LifecycleInv'
  BY <1>12 DEF Arrive, LifecycleInv, TypeOK, FileLast, Drained, GRPCCallsFinish
<1>13. ASSUME NEW c \in Calls, HandlerStep(c) PROVE LifecycleInv'
  BY <1>13 DEF HandlerStep, Read, Propose, ProposalFails, Answer, Finish,
               LifecycleInv, TypeOK, FileLast, Drained, GRPCCallsFinish
<1>14. ASSUME NEW e \in Calls \cup {"other"}, FSMApply(e) PROVE LifecycleInv'
  BY <1>14 DEF FSMApply, LifecycleInv, TypeOK, FileLast, Drained, GRPCCallsFinish
<1>15. CASE FSMApplied
  BY <1>15 DEF FSMApplied, Finish, LifecycleInv, TypeOK, FileLast, Drained, GRPCCallsFinish
<1>16. CASE UNCHANGED vars
  BY <1>16 DEF LifecycleInv, TypeOK, FileLast, Drained, GRPCCallsFinish
<1> QED
  BY <1>1, <1>2, <1>3, <1>4, <1>5, <1>6, <1>7, <1>8, <1>9, <1>10, <1>11, <1>12,
     <1>13, <1>14, <1>15, <1>16
     DEF Next, ServerStep, DrainStep, RunStep

-----------------------------------------------------------------------------
\* The invariant of the lifecycle holds in every reachable state of the process
\* that runServe starts.
THEOREM LifecycleInvariant == Spec => []LifecycleInv
BY InitLifecycle, NextLifecycle, PTL DEF Spec

\* Every variable keeps its type.
THEOREM LifecycleTypeCorrect == Spec => []TypeOK
BY LifecycleInvariant, PTL DEF LifecycleInv

\* Run closes the SQLite file only when the FSM is through with it
\* (cluster.go:203-206).
THEOREM AppliedTheorem == Spec => []AppliedToOpenDatabase
<1>1. LifecycleInv => AppliedToOpenDatabase
  BY NoneAssumption DEF LifecycleInv, FileLast, AppliedToOpenDatabase
<1> QED
  BY <1>1, LifecycleInvariant, PTL

\* An orderly end cuts off no gRPC call (serve.go:110-113, 133-136).
THEOREM GRPCCallsTheorem == Spec => []GRPCCallsFinish
BY LifecycleInvariant, PTL DEF LifecycleInv
=============================================================================
