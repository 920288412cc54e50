--------------------------- MODULE LifecycleProofs ---------------------------
(***************************************************************************)
(* The safety properties of Lifecycle for any number of requests and       *)
(* background goroutines.                                                  *)
(***************************************************************************)
EXTENDS Lifecycle, TLAPS

USE LifecycleAssumption

\* The order of main and Shutdown, told by what it excludes: before
\* initialisation nothing runs, after GracefulStop no handler does, and after
\* a wait that did not time out no tracked goroutine either.
NothingEarly == pc = "starting" => server["grpc"] = "starting"

GoIsTracked == \A g \in Routines \ Safes : routine[g] # "started"

GRPCDrained ==
  pc \in {"wait", "db", "flush"} \/ ~dbOpen => \A r \in Requests : req[r] # "handler"

RoutinesDrained ==
  (pc \in {"db", "flush"} \/ ~dbOpen) /\ ~timedOut => \A g \in Routines \ Safes : routine[g] # "active"

DBClosed == ~dbOpen => pc \in {"flush", "exited"}

\* Until the deadline, a request in the gateway finds the gRPC server serving.
HTTPDrained ==
  /\ \A r \in Requests : req[r] = "gateway" => r \in HTTPRequests
  /\ pc \in {"grpc", "wait", "db", "flush"} /\ ~expired => \A r \in HTTPRequests : req[r] # "gateway"
  /\ server["grpc"] = "off" => pc \notin {"starting", "serving", "http"}

Order ==
  /\ TypeOK /\ NothingEarly /\ GoIsTracked /\ GRPCDrained
  /\ RoutinesDrained /\ DBClosed /\ HTTPDrained /\ GatewayCallsFinish

\* The phases, in the order of start and shutdown.
LEMMA PhasesAre ==
  {Phases[i] : i \in 1..8} = {"starting", "serving", "http", "grpc", "wait", "db", "flush", "exited"}
<1>1. \A i \in 1..8 : i \in {1, 2, 3, 4, 5, 6, 7, 8}
  OBVIOUS
<1> QED
  BY <1>1 DEF Phases

\* Nothing serves before initialisation.
LEMMA OrderInit == Init => Order
BY PhasesAre DEF Init, Order, TypeOK, NothingEarly, GoIsTracked, GRPCDrained, RoutinesDrained,
  DBClosed, HTTPDrained, GatewayCallsFinish, Requests

\* Each phase begins only when what the one before it drains is gone.
LEMMA OrderStep == Order /\ [Next]_vars => Order'
<1> SUFFICES ASSUME Order, [Next]_vars PROVE Order'
  OBVIOUS
<1> USE PhasesAre DEF Order, TypeOK, NothingEarly, GoIsTracked, GRPCDrained, RoutinesDrained,
      DBClosed, HTTPDrained, GatewayCallsFinish, Requests, Running
<1>1. ASSUME NEW r \in Requests, Running, AcceptHTTP(r) PROVE Order'
  BY <1>1 DEF AcceptHTTP, HTTPAccepts, Moves
<1>2. ASSUME NEW r \in Requests, Running, AcceptRPC(r) PROVE Order'
  BY <1>2 DEF AcceptRPC, GRPCAccepts, Moves
<1>3. ASSUME NEW r \in Requests, Running, GatewayCall(r) PROVE Order'
  BY <1>3 DEF GatewayCall, GRPCAccepts, Moves
<1>4. ASSUME NEW r \in Requests, Running, HandlerReturns(r) PROVE Order'
  BY <1>4 DEF HandlerReturns, Moves
<1>5. ASSUME NEW r \in Requests, Running, AnswerHTTP(r) PROVE Order'
  BY <1>5 DEF AnswerHTTP, Moves
<1>6. ASSUME NEW g \in Routines, Running, Go(g) PROVE Order'
  BY <1>6 DEF Go, Launches, Becomes
<1>7. ASSUME NEW g \in Routines, Running, Start(g) PROVE Order'
  BY <1>7 DEF Start, Launches, Becomes
<1>8. ASSUME NEW g \in Routines, Running, Safe(g) PROVE Order'
  BY <1>8 DEF Safe, Becomes
<1>9. ASSUME NEW g \in Routines, Running, SignOff(g) PROVE Order'
  BY <1>9 DEF SignOff, Becomes
<1>10. ASSUME NEW g \in Routines, Running, Recover(g) PROVE Order'
  BY <1>10 DEF Recover, Becomes
<1>11. CASE Initialize
  BY <1>11 DEF Initialize
<1>12. CASE StartGRPC
  BY <1>12 DEF StartGRPC, Started
<1>13. CASE StartHTTPGateway
  BY <1>13 DEF StartHTTPGateway, Started
<1>14. CASE Signal
  BY <1>14 DEF Signal
<1>15. CASE DrainHTTP
  BY <1>15 DEF DrainHTTP
<1>16. CASE GracefulStop
  BY <1>16 DEF GracefulStop, Drained
<1>17. CASE WaitForShutdown
  BY <1>17 DEF WaitForShutdown, Untracked
<1>18. CASE CloseDB
  BY <1>18 DEF CloseDB
<1>19. CASE Flush
  BY <1>19 DEF Flush
<1>20. CASE Deadline
  BY <1>20 DEF Deadline
<1>21. CASE UNCHANGED vars
  BY <1>21 DEF vars
<1> QED
  BY <1>1, <1>2, <1>3, <1>4, <1>5, <1>6, <1>7, <1>8, <1>9, <1>10, <1>11, <1>12, <1>13, <1>14,
     <1>15, <1>16, <1>17, <1>18, <1>19, <1>20, <1>21 DEF Next, Serve, Background, Shutdown, Exited

\* The invariant holds for ever.
LEMMA OrderKept == Spec => []Order
BY OrderInit, OrderStep, PTL DEF Spec

-----------------------------------------------------------------------------

\* Every step of start, shutdown, requests and goroutines keeps the types.
THEOREM TypeCorrect == Spec => []TypeOK
<1>1. Order => TypeOK
  BY DEF Order
<1> QED
  BY <1>1, OrderKept, PTL

\* No handler, and after a wait that did not time out no goroutine launched
\* with Go, finds the connection pool closed (App.Shutdown, WaitForShutdown).
THEOREM DBOutlivesItsUsers == Spec => []UsersKeepDB
<1>1. Order => UsersKeepDB
  BY DEF Order, GRPCDrained, RoutinesDrained, GoIsTracked, UsersKeepDB
<1> QED
  BY <1>1, OrderKept, PTL

\* Before the deadline no request in the gateway is refused by a gRPC server
\* that stops (App.Shutdown drains the gateway first).
THEOREM GatewayIsDrainedFirst == Spec => []GatewayCallsFinish
<1>1. Order => GatewayCallsFinish
  BY DEF Order
<1> QED
  BY <1>1, OrderKept, PTL
=============================================================================
