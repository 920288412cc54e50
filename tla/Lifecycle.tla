------------------------------ MODULE Lifecycle ------------------------------
(***************************************************************************)
(* The life of the service: InitializeApp, the goroutines that start the   *)
(* two servers, and App.Shutdown against requests in flight and the        *)
(* background goroutines that handlers launch with routine.Go.             *)
(*                                                                         *)
(* An HTTP request enters the gateway and makes one call to the service's  *)
(* own gRPC server; other clients call the gRPC server directly.  A        *)
(* goroutine launched by Go is tracked before it starts, one that calls    *)
(* Safe only once it runs; either signs off at the tracker first and       *)
(* recovers from a panic of its function afterwards.                       *)
(***************************************************************************)
EXTENDS Naturals

CONSTANTS HTTPRequests, RPCs,
          Routines,     \* background goroutines
          Safes         \* those of them started by "go routine.Safe(fn)"

ASSUME LifecycleAssumption == HTTPRequests \cap RPCs = {} /\ Safes \subseteq Routines

VARIABLES
  pc,         \* the step of main, and of Shutdown
  server,     \* the two servers: starting, on until they are stopped, or off
  expired,    \* the 30 seconds of the shutdown context are over
  timedOut,   \* WaitForShutdown returned an error
  req,        \* where each request is
  routine,    \* where each background goroutine is
  dbOpen

vars == <<pc, server, expired, timedOut, req, routine, dbOpen>>

Requests == HTTPRequests \cup RPCs

Phases == <<"starting", "serving", "http", "grpc", "wait", "db", "flush", "exited">>

TypeOK ==
  /\ pc \in {Phases[i] : i \in 1..8}
  /\ server \in [{"http", "grpc"} -> {"starting", "on", "off"}]
  /\ expired \in BOOLEAN /\ timedOut \in BOOLEAN /\ dbOpen \in BOOLEAN
  /\ req \in [Requests -> {"new", "gateway", "handler", "answer", "over", "refused", "early"}]
  /\ routine \in [Routines -> {"new", "started", "active", "recovering", "over"}]

Init ==
  /\ pc = "starting"
  /\ server = [s \in {"http", "grpc"} |-> "starting"]
  /\ expired = FALSE /\ timedOut = FALSE /\ dbOpen = TRUE
  /\ req = [r \in Requests |-> "new"]
  /\ routine = [g \in Routines |-> "new"]

Moves(r, from, to) == req[r] = from /\ req' = [req EXCEPT ![r] = to]

HTTPAccepts == server["http"] = "on" /\ pc = "serving"

\* Mutant: the gRPC server is stopped first.
GRPCAccepts_First == server["grpc"] = "on" /\ pc = "serving"

GRPCAccepts == server["grpc"] = "on" /\ pc \in {"serving", "http"}

-----------------------------------------------------------------------------
(* Start *)

\* The providers one after the other; main exits when one fails, and when the
\* signal comes before it is watched.
Initialize ==
  /\ pc = "starting" /\ pc' \in {"serving", "exited"}
  /\ UNCHANGED <<server, expired, timedOut, req, routine, dbOpen>>

Started == pc # "starting"

\* A port that cannot be had ends the process.  Serve returns at once when the
\* server has been stopped before.
StartGRPC ==
  /\ Started /\ server["grpc"] = "starting"
  /\ \/ pc' = "exited" /\ UNCHANGED server
     \/ /\ server' = [server EXCEPT !["grpc"] = IF pc \in {"serving", "http"} THEN "on" ELSE "off"]
        /\ UNCHANGED pc
  /\ UNCHANGED <<expired, timedOut, req, routine, dbOpen>>

\* A port that cannot be had is logged, and the process serves gRPC alone.
StartHTTPGateway ==
  /\ Started /\ server["http"] = "starting"
  /\ server' \in {[server EXCEPT !["http"] = s] : s \in {"off"} \cup IF pc = "serving" THEN {"on"} ELSE {}}
  /\ UNCHANGED <<pc, expired, timedOut, req, routine, dbOpen>>

-----------------------------------------------------------------------------
(* Requests *)

AcceptHTTP(r) ==
  /\ r \in HTTPRequests /\ HTTPAccepts /\ Moves(r, "new", "gateway")
  /\ UNCHANGED <<pc, server, expired, timedOut, routine, dbOpen>>

\* The gateway's client call; one that finds the gRPC server not yet listening,
\* or stopping, is answered Unavailable.
GatewayCall(r) ==
  /\ Moves(r, "gateway", IF server["grpc"] = "starting" THEN "early"
                         ELSE IF GRPCAccepts THEN "handler" ELSE "refused")
  /\ UNCHANGED <<pc, server, expired, timedOut, routine, dbOpen>>

AcceptRPC(r) ==
  /\ r \in RPCs /\ GRPCAccepts /\ Moves(r, "new", "handler")
  /\ UNCHANGED <<pc, server, expired, timedOut, routine, dbOpen>>

HandlerReturns(r) ==
  /\ Moves(r, "handler", IF r \in HTTPRequests THEN "answer" ELSE "over")
  /\ UNCHANGED <<pc, server, expired, timedOut, routine, dbOpen>>

\* The gateway has written the response.
AnswerHTTP(r) ==
  /\ Moves(r, "answer", "over")
  /\ UNCHANGED <<pc, server, expired, timedOut, routine, dbOpen>>

-----------------------------------------------------------------------------
(* Background goroutines *)

\* The code that launches g runs in a handler or in a background goroutine;
\* what is given to Safe is an inline function that launches nothing.
Launches(g) ==
  /\ routine[g] = "new"
  /\ (\E r \in Requests : req[r] = "handler") \/ (\E h \in Routines \ Safes : routine[h] = "active")

Becomes(g, s) ==
  /\ routine' = [routine EXCEPT ![g] = s]
  /\ UNCHANGED <<pc, server, expired, timedOut, req, dbOpen>>

\* The tracker is told before the goroutine exists.
Go(g) == g \notin Safes /\ Launches(g) /\ Becomes(g, "active")

\* The go statement of the caller of Safe.
Start(g) == g \in Safes /\ Launches(g) /\ Becomes(g, "started")

\* Safe begins with tracker.Add.
Safe(g) == routine[g] = "started" /\ Becomes(g, "active")

\* Mutant: a panic is not recovered.
SignOff_Crashes(g) ==
  routine[g] = "active" /\ \E s \in {"over", "crashed"} : Becomes(g, s)

\* tracker.Done: the function returned, or panicked and is yet to be recovered.
SignOff(g) ==
  routine[g] = "active" /\ \E s \in {"over", "recovering"} : Becomes(g, s)

\* recover, and the panic handler logs.
Recover(g) == routine[g] = "recovering" /\ Becomes(g, "over")

-----------------------------------------------------------------------------
(* Shutdown *)

Signal ==
  /\ pc = "serving" /\ pc' = "http"
  /\ UNCHANGED <<server, expired, timedOut, req, routine, dbOpen>>

\* http.Server.Shutdown waits for its requests, or for the context.
DrainHTTP ==
  /\ pc = "http"
  /\ expired \/ \A r \in HTTPRequests : req[r] \notin {"gateway", "handler", "answer"}
  /\ pc' = "grpc"
  /\ UNCHANGED <<server, expired, timedOut, req, routine, dbOpen>>

\* Mutant: the drain gives up at the deadline and goes on.
Drained_OrLate == expired \/ \A r \in Requests : req[r] # "handler"

Drained == \A r \in Requests : req[r] # "handler"

\* GracefulStop waits for every handler, whatever the context says.
GracefulStop ==
  /\ pc = "grpc"
  /\ Drained
  /\ pc' = "wait"
  /\ UNCHANGED <<server, expired, timedOut, req, routine, dbOpen>>

\* tracker.Wait returns.
Untracked == \A g \in Routines : routine[g] # "active"

\* Mutant: the context is not watched.
WaitForShutdown_Unbounded ==
  /\ pc = "wait" /\ Untracked
  /\ pc' = "db"
  /\ UNCHANGED <<server, expired, timedOut, req, routine, dbOpen>>

\* When both are ready the select takes either branch.
WaitForShutdown ==
  /\ pc = "wait"
  /\ \/ Untracked /\ UNCHANGED timedOut
     \/ expired /\ timedOut' = TRUE
  /\ pc' = "db"
  /\ UNCHANGED <<server, expired, req, routine, dbOpen>>

CloseDB ==
  /\ pc = "db" /\ pc' = "flush" /\ dbOpen' = FALSE
  /\ UNCHANGED <<server, expired, timedOut, req, routine>>

\* Telemetry providers and the logger are flushed, and main returns.
Flush ==
  /\ pc = "flush" /\ pc' = "exited"
  /\ UNCHANGED <<server, expired, timedOut, req, routine, dbOpen>>

Deadline ==
  /\ pc \notin {"starting", "serving"} /\ ~expired /\ expired' = TRUE
  /\ UNCHANGED <<pc, server, timedOut, req, routine, dbOpen>>

Serve(r) == GatewayCall(r) \/ HandlerReturns(r) \/ AnswerHTTP(r)

Shutdown == DrainHTTP \/ GracefulStop \/ WaitForShutdown \/ CloseDB \/ Flush

Background(g) == Go(g) \/ Start(g) \/ Safe(g) \/ SignOff(g) \/ Recover(g)

\* The process is gone, whatever goroutines it had.
Exited == pc = "exited" /\ UNCHANGED vars

Running == pc # "exited"

Next ==
  \/ \E r \in Requests : Running /\ (AcceptHTTP(r) \/ AcceptRPC(r) \/ Serve(r))
  \/ \E g \in Routines : Running /\ Background(g)
  \/ Initialize \/ (Running /\ (StartGRPC \/ StartHTTPGateway))
  \/ Signal \/ Shutdown \/ (Running /\ Deadline)
  \/ Exited

Spec == Init /\ [][Next]_vars

\* Shutdown is scheduled, its deadline passes, and handlers return (the
\* timeout interceptor ends their context).  Background goroutines need not.
FairSpec ==
  /\ Spec
  /\ WF_vars(Shutdown) /\ WF_vars(Deadline)
  /\ \A r \in Requests : WF_vars(Serve(r))

-----------------------------------------------------------------------------
(* Properties *)

\* "before closing data connections": no handler ever finds the connection
\* pool closed under it, not even when the deadline of the shutdown passes while
\* it runs; nor does a goroutine launched with Go, also during the shutdown or
\* by another goroutine, unless WaitForShutdown reported that it timed out.
\* (One that calls Safe is not tracked until it runs, and may lose it.)
UsersKeepDB ==
  ~dbOpen =>
    /\ \A r \in Requests : req[r] # "handler"
    /\ ~timedOut => \A g \in Routines \ Safes : routine[g] \notin {"started", "active"}

\* "Drain HTTP gateway first so ... in-flight gateway calls finish": a request
\* the gateway accepted is refused by the service's own gRPC server, once that
\* listens, only after the deadline.
GatewayCallsFinish == (\E r \in Requests : req[r] = "refused") => expired

\* Once the signal came, the process exits, whatever background goroutines do.
ShutdownEnds == pc = "http" ~> pc = "exited"
=============================================================================
