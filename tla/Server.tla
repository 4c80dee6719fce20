------------------------------- MODULE Server -------------------------------
(***************************************************************************)
(* server.Server (src/server): one call of Run, the goroutine in which it  *)
(* serves, and any number of calls of Shutdown.  net/http.Server, which    *)
(* the Http2Listener wraps, is external: Serve ends once Shutdown has      *)
(* begun, and Shutdown waits until the accept loop has ended and no        *)
(* request is in progress, or until its own context is done.               *)
(*                                                                         *)
(* The field srv.listener is an interface, two words, written and read     *)
(* without a lock: it is "torn" between the two stores of a write.         *)
(***************************************************************************)
EXTENDS Naturals

CONSTANTS
  Callers,    \* goroutines that call Shutdown, each as often as it likes
  MaxActive,  \* bound on the number of connections that are not idle
  CtxErr      \* what ctx.Err() may say of a context that is done

ASSUME ServerAssumption ==
  /\ MaxActive \in Nat
  /\ "nil" \notin CtxErr /\ "closed" \notin CtxErr

VARIABLES
  proc,        \* the process: "up" or "panicked"
  pc,          \* next statement of Run
  ctx,         \* ctx.Err() of the context passed to Run
  result,      \* the errors joined in what Run returned; {} is nil
  shErr,       \* what listener.Shutdown returned to Run
  field,       \* srv.listener: "nil", "torn" or "set"
  inShutdown,  \* http.Server: Shutdown has begun
  serve,       \* the goroutine that serves
  serveErr,    \* what Serve returned to it
  active,      \* number of connections that are not idle: requests in progress
  cpc,         \* next statement of each goroutine inside Shutdown
  cerr,        \* ctx.Err() of the context it passed
  drained,     \* history: some Shutdown found a listener and returned nil
  overlap      \* history: Shutdown met the assignment in Run, or another Shutdown

vars == <<proc, pc, ctx, result, shErr, field, inShutdown, serve, serveErr,
          active, cpc, cerr, drained, overlap>>

runVars    == <<pc, result, shErr>>
serveVars  == <<serve, serveErr>>
callerVars == <<cpc, cerr, drained, overlap>>

Init ==
  /\ proc = "up"
  /\ pc = "prepare"
  /\ ctx \in CtxErr \cup {"nil"}
  /\ result = {}
  /\ shErr = "nil"
  /\ field = "nil"
  /\ inShutdown = FALSE
  /\ serve = "none"
  /\ serveErr = "nil"
  /\ active = 0
  /\ cpc = [c \in Callers |-> "out"]
  /\ cerr = [c \in Callers |-> "nil"]
  /\ drained = FALSE
  /\ overlap = FALSE

Up == proc = "up"

InsideShutdown(C) == \E c \in C : cpc[c] # "out"

-----------------------------------------------------------------------------
(* Run, which has been called.                                             *)

\* setupHandler and prepareListener, which refuses an unknown Kind.
PrepareListener ==
  /\ Up /\ pc = "prepare"
  /\ \/ pc' = "publish" /\ UNCHANGED result
     \/ pc' = "returned" /\ result' = {"failed"}
  /\ UNCHANGED <<proc, ctx, shErr, field, inShutdown, serveVars, active, callerVars>>

\* srv.listener = listener, one word after the other.
Publish ==
  /\ Up /\ pc \in {"publish", "publishing"}
  /\ IF pc = "publish" THEN pc' = "publishing" /\ field' = "torn"
                       ELSE pc' = "spawn" /\ field' = "set"
  /\ overlap' = (overlap \/ InsideShutdown(Callers))
  /\ UNCHANGED <<proc, ctx, result, shErr, inShutdown, serveVars, active, cpc,
                 cerr, drained>>

\* go func() { errCh <- listener.Serve() }()
SpawnServe ==
  /\ Up /\ pc = "spawn"
  /\ serve' = "listen"
  /\ pc' = "select"
  /\ UNCHANGED <<proc, ctx, result, shErr, field, inShutdown, serveErr, active,
                 callerVars>>

ClosedKept(errs)    == (errs \cup {ctx}) \ {"nil"}  \* a bug: ErrServerClosed is not told apart
FailureHidden(errs) == {}                \* a bug: every end counts as a clean one
\* errors.Is(err, http.ErrServerClosed), and the two returns of Run.
Result(errs) == IF "closed" \in errs THEN {} ELSE (errs \cup {ctx}) \ {"nil"}

\* <-errCh, in the select or after it, and the return.
ReceiveErr ==
  /\ Up /\ pc \in {"select", "collect"}
  /\ serve = "sending"
  /\ serve' = "sent"
  /\ result' = Result({shErr, serveErr})
  /\ pc' = "returned"
  /\ UNCHANGED <<proc, ctx, shErr, field, inShutdown, serveErr, active, callerVars>>

NoShutdown == inShutdown    \* a bug: the listener is not told to stop
BeginShutdown == TRUE

ErrChForgotten == "returned"   \* a bug: Run does not wait for errCh
AfterShutdown  == "collect"

\* case <-ctx.Done(): listener.Shutdown(ctx) begins, with a done context.
SelectDone ==
  /\ Up /\ pc = "select" /\ ctx # "nil"
  /\ inShutdown' = BeginShutdown
  /\ pc' = "shutdown"
  /\ UNCHANGED <<proc, ctx, result, shErr, field, serveVars, active, callerVars>>

\* listener.Shutdown(ctx) returns: its wait for the requests in progress ends
\* at once, since the context is done.
ShutdownOver ==
  /\ Up /\ pc = "shutdown" /\ serve # "accepting"
  /\ shErr' = IF active = 0 THEN "nil" ELSE ctx
  /\ pc' = AfterShutdown
  /\ UNCHANGED <<proc, ctx, result, field, inShutdown, serveVars, active, callerVars>>

RunStep ==
  PrepareListener \/ Publish \/ SpawnServe \/ ReceiveErr \/ SelectDone \/ ShutdownOver

-----------------------------------------------------------------------------
(* The goroutine that serves: Http2Listener.Serve, net/http.Server.        *)

\* ListenAndServe returns e.
ServeReturns(e) == serve' = "sending" /\ serveErr' = e

\* The socket is opened and registered, unless Shutdown has begun; opening it
\* may fail.
Listen ==
  /\ Up /\ serve = "listen"
  /\ \/ ~inShutdown /\ serve' = "accepting" /\ UNCHANGED serveErr
     \/ inShutdown /\ ServeReturns("closed")
     \/ ServeReturns("failed")
  /\ UNCHANGED <<proc, ctx, runVars, field, inShutdown, active, callerVars>>

\* The accept loop ends: its socket was closed by Shutdown, or is broken.
AcceptEnds ==
  /\ Up /\ serve = "accepting"
  /\ ServeReturns(IF inShutdown THEN "closed" ELSE "failed")
  /\ UNCHANGED <<proc, ctx, runVars, field, inShutdown, active, callerVars>>

\* A request may still begin while Shutdown has not ended the accept loop.
RequestBegins ==
  /\ Up /\ serve = "accepting" /\ active < MaxActive
  /\ active' = active + 1
  /\ UNCHANGED <<proc, ctx, runVars, field, inShutdown, serveVars, callerVars>>

RequestEnds ==
  /\ Up /\ active > 0
  /\ active' = active - 1
  /\ UNCHANGED <<proc, ctx, runVars, field, inShutdown, serveVars, callerVars>>

-----------------------------------------------------------------------------
(* Shutdown, called by any goroutine at any time.                          *)

Unchecked     == TRUE    \* a bug: no nil check
ListenerFound == field # "nil"

\* l := srv.listener, its nil check, and l.Shutdown(ctx) begins.  A torn l is
\* either nil or an Http2Listener whose pointer is nil: using that panics.
EnterShutdown(c) ==
  /\ Up /\ cpc[c] = "out" /\ ListenerFound
  /\ overlap' = (overlap \/ pc = "publishing" \/ InsideShutdown(Callers \ {c}))
  /\ \/ /\ field = "set"
        /\ cpc' = [cpc EXCEPT ![c] = "wait"]
        /\ \E e \in CtxErr \cup {"nil"} : cerr' = [cerr EXCEPT ![c] = e]
        /\ inShutdown' = TRUE
        /\ UNCHANGED proc
     \/ /\ field # "set"
        /\ proc' \in {"up", "panicked"}
        /\ UNCHANGED <<cpc, cerr, inShutdown>>
  /\ UNCHANGED <<ctx, runVars, field, serveVars, active, drained>>

CallerCtxDone(c) ==
  /\ Up /\ cpc[c] = "wait" /\ cerr[c] = "nil"
  /\ \E e \in CtxErr : cerr' = [cerr EXCEPT ![c] = e]
  /\ UNCHANGED <<proc, ctx, runVars, field, inShutdown, serveVars, active, cpc,
                 drained, overlap>>

ErrorIgnored(c) == TRUE     \* a bug: Shutdown returns nil whatever happened
\* What l.Shutdown(ctx) returned is nil.
ShutdownNil(c) == active = 0

\* l.Shutdown(ctx) returns, with or without an error.
ShutdownReturns(c) ==
  /\ Up /\ cpc[c] = "wait" /\ serve # "accepting"
  /\ active = 0 \/ cerr[c] # "nil"
  /\ drained' = (drained \/ ShutdownNil(c))
  /\ cpc' = [cpc EXCEPT ![c] = "clear"]
  /\ UNCHANGED <<proc, ctx, runVars, field, inShutdown, serveVars, active, cerr, overlap>>

\* srv.listener = nil, one word after the other, and the return.
Clear(c) ==
  /\ Up /\ cpc[c] \in {"clear", "clearing"}
  /\ IF cpc[c] = "clear" /\ field # "nil"
     THEN cpc' = [cpc EXCEPT ![c] = "clearing"] /\ field' = "torn"
     ELSE cpc' = [cpc EXCEPT ![c] = "out"] /\ field' = "nil"
  /\ UNCHANGED <<proc, ctx, runVars, inShutdown, serveVars, active, cerr, drained, overlap>>

-----------------------------------------------------------------------------
\* The context passed to Run is cancelled or times out.
CtxDone ==
  /\ Up /\ ctx = "nil"
  /\ ctx' \in CtxErr
  /\ UNCHANGED <<proc, runVars, field, inShutdown, serveVars, active, callerVars>>

\* The process has crashed, or the system is at rest.
Rest == UNCHANGED vars

Next ==
  \/ RunStep \/ Listen \/ AcceptEnds \/ RequestBegins \/ RequestEnds
  \/ \E c \in Callers : EnterShutdown(c) \/ CallerCtxDone(c) \/ ShutdownReturns(c) \/ Clear(c)
  \/ CtxDone \/ Rest

\* Goroutines that can run are scheduled.  A request need never end, a
\* context need never be done.
Fairness ==
  /\ WF_vars(RunStep)
  /\ WF_vars(Listen)
  /\ WF_vars(inShutdown /\ AcceptEnds)
  /\ \A c \in Callers : WF_vars(ShutdownReturns(c) \/ Clear(c))

Spec == Init /\ [][Next]_vars /\ Fairness

-----------------------------------------------------------------------------
\* Types of the state.
TypeOK ==
  /\ proc \in {"up", "panicked"}
  /\ pc \in {"prepare", "publish", "publishing", "spawn", "select", "shutdown",
             "collect", "returned"}
  /\ ctx \in CtxErr \cup {"nil"}
  /\ result \subseteq {"failed"} \cup CtxErr
  /\ shErr \in CtxErr \cup {"nil"}
  /\ field \in {"nil", "torn", "set"}
  /\ inShutdown \in BOOLEAN
  /\ serve \in {"none", "listen", "accepting", "sending", "sent"}
  /\ serveErr \in {"nil", "closed", "failed"}
  /\ active \in 0 .. MaxActive
  /\ cpc \in [Callers -> {"out", "wait", "clear", "clearing"}]
  /\ cerr \in [Callers -> CtxErr \cup {"nil"}]
  /\ drained \in BOOLEAN
  /\ overlap \in BOOLEAN

\* Run returns only when its goroutine has returned from Serve: nothing is
\* accepted later and nothing waits on errCh for ever (server.go:42-51).
ServeIsOver == pc = "returned" => serve \in {"none", "sent"}

\* A server that could not listen, or lost its socket, is reported to the
\* caller of Run, even if a stop was asked for at the same time; and Run
\* returns nil only after a shutdown has begun (server.go:47-58).
FailureReported ==
  pc = "returned" => /\ serveErr = "failed" => "failed" \in result
                     /\ result = {} => inShutdown

\* Once a Shutdown has found the listener and returned nil, no request is in
\* progress and none ever begins, even if Serve was still about to listen
\* (server.go:61-71).
StaysDrained == drained => active = 0

\* Shutdown crashes on the unlocked field only if it overlaps the assignment
\* in Run or another Shutdown (server.go:40, 62-68).
CrashNeedsOverlap == proc = "panicked" => overlap

\* A done context, or a Shutdown that found the listener, ends Run, whatever
\* the requests in progress do (server.go:47-58).
StopEndsRun == (ctx # "nil" \/ inShutdown) ~> pc = "returned" \/ ~Up

\* What README.md:23 says, "HTTP/HTTP2 server with graceful shutdown": a Run
\* that returns nil has let the requests in progress finish.
GracefulShutdown == pc = "returned" /\ result = {} => active = 0

=============================================================================
