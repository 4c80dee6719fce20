---------------------------- MODULE HostedServer ----------------------------
(***************************************************************************)
(* A service.Host whose instance runs a server.Server: Instance.Run is     *)
(* Server.Run, with the context that the Host cancels, and what it returns *)
(* is what the Host receives on errCh.  The Host never calls the Shutdown  *)
(* of its instance; whoever owns the Server may call Server.Shutdown.      *)
(***************************************************************************)
EXTENDS Start

CONSTANTS
  Closers,    \* goroutines that call Server.Shutdown
  MaxActive   \* bound on the number of requests in progress

ASSUME HostedAssumption == MaxActive \in Nat /\ "closed" \notin CtxErr

VARIABLES
  spc,         \* next statement of Server.Run
  result,      \* the errors joined in what it returned
  shErr,       \* what listener.Shutdown returned to it
  field,       \* srv.listener
  inShutdown,  \* http.Server: Shutdown has begun
  serve,       \* the goroutine that serves
  serveErr,    \* what Serve returned to it
  active,      \* number of requests in progress
  dpc,         \* next statement of each goroutine inside Server.Shutdown
  derr,        \* ctx.Err() of the context it passed
  drained,     \* history of Server
  overlap      \* history of Server

serverVars == <<spc, result, shErr, field, inShutdown, serve, serveErr, active,
                dpc, derr, drained, overlap>>
hostedVars == <<startVars, serverVars>>

S == INSTANCE Server WITH
  Callers <- Closers, pc <- spc, ctx <- ctx[1], cpc <- dpc, cerr <- derr

HostedInit == StartInit /\ S!Init

\* The instance goroutine returns from Instance.Run when Server.Run has, with
\* its error.
ServerRunReturns == spc = "returned" /\ instErr'[1] = result

\* A step of the process, of the Host or of the environment.
ProcessStep ==
  /\ StartNext
  /\ inst[1] = "running" /\ inst'[1] = "sending" => ServerRunReturns
  /\ UNCHANGED serverVars

\* The process and the Server share only the context and being up.
HostAlone == UNCHANGED <<runVars, shutVars, ctx, signalVars, instVars, outcome,
                         asked, mainVars>>

\* A step of Server.Run, of the goroutine that serves, or of Server.Shutdown.
ServerRun   == HostAlone /\ inst[1] = "running" /\ S!RunStep
ServerServe == HostAlone /\ (S!Listen \/ S!AcceptEnds \/ S!RequestBegins \/ S!RequestEnds)
ServerClose ==
  /\ HostAlone
  /\ \E d \in Closers : S!EnterShutdown(d) \/ S!CallerCtxDone(d) \/ S!ShutdownReturns(d) \/ S!Clear(d)

HostedNext == ProcessStep \/ ServerRun \/ ServerServe \/ ServerClose

\* Goroutines that can run are scheduled, as in Start and Server; the instance
\* goroutine goes on when Server.Run has returned.  With timer FALSE the
\* termination timer never fires.
HostedFairness(timer) ==
  /\ WF_hostedVars(ProcessStep /\ (CallRun \/ Exit))
  /\ WF_hostedVars(ProcessStep /\ RunStep /\ (timer \/ outcome'[1].how # "forced"))
  /\ WF_hostedVars(ProcessStep /\ SignalStep(1))
  /\ \A c \in Callers : WF_hostedVars(ProcessStep /\ ShutdownStep(c))
  /\ WF_hostedVars(ProcessStep /\ InstanceReturns(1))
  /\ WF_hostedVars(ServerRun)
  /\ WF_hostedVars(HostAlone /\ S!Listen)
  /\ WF_hostedVars(HostAlone /\ inShutdown /\ S!AcceptEnds)

HostedSpec == HostedInit /\ [][HostedNext]_hostedVars /\ HostedFairness(TRUE)

\* The same with a termination timeout that never comes.
PatientSpec ==
  /\ HostedInit
  /\ [][HostedNext /\ outcome'[1].how # "forced"]_hostedVars
  /\ HostedFairness(FALSE)

-----------------------------------------------------------------------------
\* Types of the state.
HostedTypeOK == StartTypeOK /\ (Up => S!TypeOK)

\* Once it runs, the process leaves with code 0 only if somebody asked for the
\* stop, of the Host or of the Server: a server that ends by itself, whatever
\* Serve said, is a failure (server.go:47-58, host.go:83-107, service.go:72-92).
ZeroMeansAsked ==
  proc = "exited" /\ main = "run" /\ exitCode = 0 => 1 \in asked \/ inShutdown

\* A Host that has got its server's answer leaves no open socket and no
\* goroutine of the server behind (server.go:42-51, host.go:68-86).
AnswerMeansClosed ==
  outcome[1].how = "instance" => serve \in {"none", "sent"}

\* A server that failed leaves with code 0 only if its context was cancelled
\* by then: the cancellation joined to the failure is all that ExitOnError
\* looks at (server.go:58, service.go:85-88).
FailureNeedsCancel ==
  proc = "exited" /\ main = "run" /\ "failed" \in result /\ exitCode = 0
    => ctx[1] = "canceled"

\* A stop request ends the process even if the termination timer never fires:
\* a server does not depend on being abandoned, whatever its clients do
\* (server.go:47-51, host.go:77-107).
ServerNeedsNoTimer == StopRequestEndsProcess

=============================================================================
