-------------------------------- MODULE Host --------------------------------
(***************************************************************************)
(* service.Host (src/service/host.go): Run starts an instance in a         *)
(* goroutine of its own, waits for the instance, an OS signal, a Shutdown  *)
(* call or the caller's context, cancels the instance's context, joins the *)
(* signal goroutine and gives the instance TerminationTimeout to finish.   *)
(*                                                                         *)
(* Every step below is one statement of the code that another goroutine    *)
(* can observe: Run writes shutdownCh and shutdownOnce without a lock, so  *)
(* the two assignments are two steps, and Shutdown reads them in between.  *)
(* A Host may be run again after Run has returned, up to MaxRuns times:    *)
(* each call r of Run has its own channels, context and goroutines,        *)
(* indexed by r.  Two overlapping calls of Run are not modelled.           *)
(***************************************************************************)
EXTENDS Naturals

CONSTANTS
  MaxRuns,   \* bound on the number of successive calls of Run
  Callers,   \* goroutines that call Shutdown, each as often as it likes
  SigBuf,    \* capacity of the os.Signal channel (32 in the code)
  CtxErr     \* what ctx.Err() may say of a context that is done: "canceled",
             \* and "deadline" if the caller's context has one

ASSUME HostAssumption ==
  /\ MaxRuns \in Nat \ {0}
  /\ SigBuf \in Nat \ {0}
  /\ "canceled" \in CtxErr /\ "nil" \notin CtxErr

Runs == 1 .. MaxRuns

\* An error, as errors.Is sees it: which errors of contexts are wrapped in it
\* or joined to it, and "failed" for anything else.  No error is {}.
Err == SUBSET ({"failed"} \cup CtxErr)

VARIABLES
  proc,        \* the OS process: up, or how it died
  pc,          \* next statement of Run ("idle": no call of Run is active)
  run,         \* number of the current or last call of Run; 0 before the first
  shutdownCh,  \* field shutdownCh: the call whose channel it holds; 0 is nil
  once,        \* field shutdownOnce: its done flag and its mutex
  closed,      \* the calls whose shutdown channel has been closed
  ctx,         \* ctx.Err() of each call's cancellable context
  sigpc,       \* next statement of each call's signal goroutine
  sigBuf,      \* number of signals queued in each call's os.Signal channel
  registered,  \* the calls whose os.Signal channel is registered with Notify
  inst,        \* each call's instance goroutine
  instErr,     \* what Instance.Run returned to that goroutine
  outcome,     \* each call's local instanceReturned / returned error
  cpc,         \* next statement of each goroutine inside Shutdown
  \* History variables: read by the properties only.
  raced,       \* a Shutdown overlapped the two assignments that set Run up
  asked,       \* the calls somebody asked to stop
  early        \* the calls whose context was done when Notify was called

vars == <<proc, pc, run, shutdownCh, once, closed, ctx, sigpc, sigBuf,
          registered, inst, instErr, outcome, cpc, raced, asked, early>>

runVars    == <<pc, run>>
shutVars   == <<shutdownCh, once, closed, cpc, raced>>
signalVars == <<sigpc, sigBuf, registered, early>>
instVars   == <<inst, instErr>>

NoOutcome == [how |-> "none", err |-> {}]
FreshOnce == [done |-> FALSE, locked |-> FALSE]

Init ==
  /\ proc = "up"
  /\ pc = "idle"
  /\ run = 0
  /\ shutdownCh = 0
  /\ once = FreshOnce
  /\ closed = {}
  /\ ctx = [r \in Runs |-> "nil"]
  /\ sigpc = [r \in Runs |-> "none"]
  /\ sigBuf = [r \in Runs |-> 0]
  /\ registered = {}
  /\ inst = [r \in Runs |-> "none"]
  /\ instErr = [r \in Runs |-> {}]
  /\ outcome = [r \in Runs |-> NoOutcome]
  /\ cpc = [c \in Callers |-> "out"]
  /\ raced = FALSE
  /\ asked = {}
  /\ early = {}

Up == proc = "up"

-----------------------------------------------------------------------------
(***************************************************************************)
(* Run.                                                                    *)
(***************************************************************************)

\* The caller invokes Run, with a context that may be done already.
StartRun ==
  /\ Up /\ pc = "idle" /\ run < MaxRuns
  /\ run' = run + 1
  /\ pc' = "makeCh"
  /\ \E e \in CtxErr \cup {"nil"} :
       /\ ctx' = [ctx EXCEPT ![run + 1] = e]
       /\ asked' = IF e = "nil" THEN asked ELSE asked \cup {run + 1}
  /\ UNCHANGED <<proc, shutVars, signalVars, instVars, outcome>>

\* Some goroutine is inside Shutdown, past its nil check.
InsideShutdown == \E c \in Callers : cpc[c] # "out"

\* h.shutdownCh = make(chan struct{})
MakeShutdownCh ==
  /\ Up /\ pc = "makeCh"
  /\ shutdownCh' = run
  /\ raced' = (raced \/ InsideShutdown)
  /\ pc' = "resetOnce"
  /\ UNCHANGED <<proc, run, once, closed, cpc, ctx, signalVars, instVars,
                 outcome, asked>>

KeepOnce  == once          \* a bug: the Once of the previous call stays in place
RenewOnce == FreshOnce

\* h.shutdownOnce = sync.Once{}
ResetOnce ==
  /\ Up /\ pc = "resetOnce"
  /\ once' = RenewOnce
  /\ raced' = (raced \/ InsideShutdown)
  /\ pc' = "spawnSignals"
  /\ UNCHANGED <<proc, run, shutdownCh, closed, cpc, ctx, signalVars, instVars,
                 outcome, asked>>

\* context.WithCancel, and the first half of setupSignalHandling: its
\* goroutine is started before the channel is registered.
SpawnSignals ==
  /\ Up /\ pc = "spawnSignals"
  /\ sigpc' = [sigpc EXCEPT ![run] = "wait"]
  /\ pc' = "notify"
  /\ UNCHANGED <<proc, run, shutVars, ctx, sigBuf, registered, early, instVars,
                 outcome, asked>>

NotifyForgotten == registered    \* a bug: the channel is not registered
Registered == registered \cup {run}

\* signal.Notify(ch, ...)
Notify ==
  /\ Up /\ pc = "notify"
  /\ registered' = Registered
  /\ early' = IF ctx[run] = "nil" THEN early ELSE early \cup {run}
  /\ pc' = "spawnInstance"
  /\ UNCHANGED <<proc, run, shutVars, ctx, sigpc, sigBuf, instVars, outcome,
                 asked>>

\* go func() { errCh <- h.Instance.Run(ctx) }()
SpawnInstance ==
  /\ Up /\ pc = "spawnInstance"
  /\ inst' = [inst EXCEPT ![run] = "running"]
  /\ pc' = "select"
  /\ UNCHANGED <<proc, run, shutVars, ctx, signalVars, instErr, outcome, asked>>

\* The signal goroutine of call r has closed signalCh.
SignalChClosed(r) == sigpc[r] \in {"wgDone", "exit"}

\* err := <-errCh: the rendezvous with the instance goroutine.
ReceiveErr ==
  /\ inst[run] = "sending"
  /\ inst' = [inst EXCEPT ![run] = "sent"]
  /\ outcome' = [outcome EXCEPT ![run] = [how |-> "instance", err |-> instErr[run]]]

NonBlockingSelect == TRUE   \* a bug: a default branch in the select
StopNoticed ==
  SignalChClosed(run) \/ shutdownCh \in closed \/ ctx[run] # "nil"

\* The first select of Run, on errCh, signalCh, h.shutdownCh and ctx.Done().
Select ==
  /\ Up /\ pc = "select"
  /\ \/ ReceiveErr
     \/ StopNoticed /\ UNCHANGED <<inst, outcome>>
  /\ pc' = "cancel"
  /\ UNCHANGED <<proc, run, shutVars, ctx, signalVars, instErr, asked>>

CancelForgotten == ctx      \* a bug: cancel() is not called
CancelCtx == [ctx EXCEPT ![run] = IF @ = "nil" THEN "canceled" ELSE @]

\* cancel()
Cancel ==
  /\ Up /\ pc = "cancel"
  /\ ctx' = CancelCtx
  /\ pc' = "join"
  /\ UNCHANGED <<proc, run, shutVars, signalVars, instVars, outcome, asked>>

WgZero == sigpc[run] = "exit"

\* wg.Wait(), then the return with the error already received, if any.
Join ==
  /\ Up /\ pc = "join"
  /\ WgZero
  /\ pc' = IF outcome[run].how = "instance" THEN "idle" ELSE "await"
  /\ UNCHANGED <<proc, run, shutVars, ctx, signalVars, instVars, outcome, asked>>

NoTimeout == FALSE          \* a bug: the select waits for errCh only
TimeoutIsSuccess ==         \* a bug: nil is returned after the timeout
  /\ outcome' = [outcome EXCEPT ![run] = [how |-> "forced", err |-> {}]]
  /\ UNCHANGED inst

\* case <-time.After(h.TerminationTimeout), then return ctx.Err().
Timeout ==
  /\ outcome' = [outcome EXCEPT ![run] = [how |-> "forced", err |-> {ctx[run]}]]
  /\ UNCHANGED inst

\* The second select of Run, on errCh and the termination timer.
Await ==
  /\ Up /\ pc = "await"
  /\ ReceiveErr \/ Timeout
  /\ pc' = "idle"
  /\ UNCHANGED <<proc, run, shutVars, ctx, signalVars, instErr, asked>>

RunStep ==
  \/ MakeShutdownCh \/ ResetOnce \/ SpawnSignals \/ Notify \/ SpawnInstance
  \/ Select \/ Cancel \/ Join \/ Await

-----------------------------------------------------------------------------
(***************************************************************************)
(* The instance goroutine.  Instance.Run is the user's code: it may return *)
(* at any time, with any error, and it may never return.  The error may    *)
(* wrap one of a context of its own, that nobody outside has cancelled, as *)
(* that of RunParallel does once a handler has cancelled the runners.      *)
(***************************************************************************)

InstanceReturns(r) ==
  /\ Up /\ inst[r] = "running"
  /\ inst' = [inst EXCEPT ![r] = "sending"]
  /\ \E e \in Err : instErr' = [instErr EXCEPT ![r] = e]
  /\ UNCHANGED <<proc, runVars, shutVars, ctx, signalVars, outcome, asked>>

-----------------------------------------------------------------------------
(***************************************************************************)
(* The signal goroutine of setupSignalHandling.                            *)
(***************************************************************************)

\* case sig := <-ch
TakeSignal(r) ==
  /\ Up /\ sigpc[r] = "wait" /\ sigBuf[r] > 0
  /\ sigBuf' = [sigBuf EXCEPT ![r] = @ - 1]
  /\ sigpc' = [sigpc EXCEPT ![r] = "stop"]
  /\ asked' = asked \cup {r}
  /\ UNCHANGED <<proc, runVars, shutVars, ctx, registered, early, instVars, outcome>>

\* case <-ctx.Done()
SeeCtxDone(r) ==
  /\ Up /\ sigpc[r] = "wait" /\ ctx[r] # "nil"
  /\ sigpc' = [sigpc EXCEPT ![r] = "stop"]
  /\ UNCHANGED <<proc, runVars, shutVars, ctx, sigBuf, registered, early,
                 instVars, outcome, asked>>

StopForgotten(r) == registered   \* a bug: signal.Stop is not called
Unregister(r) == registered \ {r}

\* signal.Stop(ch)
StopSignals(r) ==
  /\ Up /\ sigpc[r] = "stop"
  /\ registered' = Unregister(r)
  /\ sigpc' = [sigpc EXCEPT ![r] = "close"]
  /\ UNCHANGED <<proc, runVars, shutVars, ctx, sigBuf, early, instVars, outcome,
                 asked>>

\* close(signalCh)
CloseSignalCh(r) ==
  /\ Up /\ sigpc[r] = "close"
  /\ sigpc' = [sigpc EXCEPT ![r] = "wgDone"]
  /\ UNCHANGED <<proc, runVars, shutVars, ctx, sigBuf, registered, early,
                 instVars, outcome, asked>>

\* wg.Done()
SignalsDone(r) ==
  /\ Up /\ sigpc[r] = "wgDone"
  /\ sigpc' = [sigpc EXCEPT ![r] = "exit"]
  /\ UNCHANGED <<proc, runVars, shutVars, ctx, sigBuf, registered, early,
                 instVars, outcome, asked>>

SignalStep(r) ==
  TakeSignal(r) \/ SeeCtxDone(r) \/ StopSignals(r) \/ CloseSignalCh(r) \/ SignalsDone(r)

-----------------------------------------------------------------------------
(***************************************************************************)
(* Shutdown, called by any goroutine at any time.  shutdownOnce.Do is      *)
(* sync.Once: a fast path on the done flag, a mutex, a second look at the  *)
(* flag, the function, and the deferred store of the flag and unlock.      *)
(***************************************************************************)

\* The nil check.  A Shutdown that finds no channel returns nil at once.
EnterShutdown(c) ==
  /\ Up /\ cpc[c] = "out" /\ shutdownCh # 0
  /\ cpc' = [cpc EXCEPT ![c] = "do"]
  /\ raced' = (raced \/ pc = "resetOnce")
  /\ UNCHANGED <<proc, runVars, shutdownCh, once, closed, ctx, signalVars,
                 instVars, outcome, asked>>

\* Do: the flag is set, nothing is left to do.
OnceFastPath(c) ==
  /\ Up /\ cpc[c] = "do" /\ once.done
  /\ cpc' = [cpc EXCEPT ![c] = "out"]
  /\ UNCHANGED <<proc, runVars, shutdownCh, once, closed, raced, ctx,
                 signalVars, instVars, outcome, asked>>

\* Do: the mutex is taken; a locked mutex blocks the caller.
OnceLock(c) ==
  /\ Up /\ cpc[c] = "do" /\ ~once.locked
  /\ once' = [once EXCEPT !.locked = TRUE]
  /\ cpc' = [cpc EXCEPT ![c] = "locked"]
  /\ UNCHANGED <<proc, runVars, shutdownCh, closed, raced, ctx, signalVars,
                 instVars, outcome, asked>>

DoneIgnored == FALSE        \* a bug: the function runs on every call
DoneSeen    == once.done

\* Do: with the mutex held, the flag decides whether close(h.shutdownCh)
\* runs.  Closing a closed channel panics.
OnceBody(c) ==
  /\ Up /\ cpc[c] = "locked"
  /\ cpc' = [cpc EXCEPT ![c] = IF DoneSeen THEN "unlock" ELSE "store"]
  /\ \/ DoneSeen /\ UNCHANGED <<proc, closed, asked>>
     \/ ~DoneSeen /\ shutdownCh \notin closed
        /\ closed' = closed \cup {shutdownCh}
        /\ asked' = asked \cup {shutdownCh}
        /\ UNCHANGED proc
     \/ ~DoneSeen /\ shutdownCh \in closed
        /\ proc' = "panicked"
        /\ UNCHANGED <<closed, asked>>
  /\ UNCHANGED <<runVars, shutdownCh, once, raced, ctx, signalVars, instVars,
                 outcome>>

Released(c) == [done |-> once.done \/ cpc[c] = "store", locked |-> FALSE]

\* Do: the deferred store of the flag, after a call of the function, and the
\* deferred unlock.  Unlocking a mutex that a concurrent sync.Once{}
\* assignment has cleared is a fatal error.
OnceFinish(c) ==
  /\ Up /\ cpc[c] \in {"store", "unlock"}
  /\ cpc' = [cpc EXCEPT ![c] = "out"]
  /\ once' = Released(c)
  /\ proc' = IF once.locked THEN "up" ELSE "fatal"
  /\ UNCHANGED <<runVars, shutdownCh, closed, raced, ctx, signalVars, instVars,
                 outcome, asked>>

ShutdownStep(c) == OnceFastPath(c) \/ OnceLock(c) \/ OnceBody(c) \/ OnceFinish(c)

-----------------------------------------------------------------------------
(***************************************************************************)
(* The environment.                                                        *)
(***************************************************************************)

\* The context the caller passed to Run is cancelled or times out.
ParentDone ==
  /\ Up /\ pc # "idle" /\ ctx[run] = "nil"
  /\ \E e \in CtxErr : ctx' = [ctx EXCEPT ![run] = e]
  /\ asked' = asked \cup {run}
  /\ UNCHANGED <<proc, runVars, shutVars, signalVars, instVars, outcome>>

Enqueued(n) == IF n < SigBuf THEN n + 1 ELSE n

\* SIGINT, SIGHUP, SIGTERM or SIGQUIT arrives.  Each registered channel gets
\* it unless it is full; with none registered the default action kills the
\* process.
OsSignal ==
  /\ Up
  /\ IF registered = {}
     THEN proc' = "killed" /\ UNCHANGED sigBuf
     ELSE /\ sigBuf' = [r \in Runs |-> IF r \in registered THEN Enqueued(sigBuf[r])
                                                           ELSE sigBuf[r]]
          /\ UNCHANGED proc
  /\ UNCHANGED <<runVars, shutVars, ctx, sigpc, registered, early, instVars,
                 outcome, asked>>

-----------------------------------------------------------------------------
\* A dead process stays dead.
Dead == ~Up /\ UNCHANGED vars

\* Every step but the caller's decision to invoke Run.
HostStep ==
  \/ RunStep
  \/ \E r \in Runs : InstanceReturns(r) \/ SignalStep(r)
  \/ \E c \in Callers : EnterShutdown(c) \/ ShutdownStep(c)
  \/ ParentDone
  \/ OsSignal
  \/ Dead

Next == StartRun \/ HostStep

(***************************************************************************)
(* Goroutines that can run are scheduled, and the termination timer fires. *)
(* Nothing is assumed of the instance, of signals or of who calls Run,     *)
(* Shutdown or the parent's cancel.                                        *)
(***************************************************************************)
Fairness ==
  /\ WF_vars(RunStep)
  /\ \A r \in Runs : WF_vars(SignalStep(r))
  /\ \A c \in Callers : WF_vars(ShutdownStep(c))

Spec == Init /\ [][Next]_vars /\ Fairness

-----------------------------------------------------------------------------
(***************************************************************************)
(* Properties.                                                             *)
(***************************************************************************)

\* Types of the state.
TypeOK ==
  /\ proc \in {"up", "panicked", "fatal", "killed", "exited"}
  /\ pc \in {"idle", "makeCh", "resetOnce", "spawnSignals", "notify",
             "spawnInstance", "select", "cancel", "join", "await"}
  /\ run \in 0 .. MaxRuns
  /\ shutdownCh \in 0 .. MaxRuns
  /\ once \in [done : BOOLEAN, locked : BOOLEAN]
  /\ closed \subseteq Runs
  /\ ctx \in [Runs -> CtxErr \cup {"nil"}]
  /\ sigpc \in [Runs -> {"none", "wait", "stop", "close", "wgDone", "exit"}]
  /\ sigBuf \in [Runs -> 0 .. SigBuf]
  /\ registered \subseteq Runs
  /\ inst \in [Runs -> {"none", "running", "sending", "sent"}]
  /\ instErr \in [Runs -> Err]
  /\ outcome \in [Runs -> [how : {"none", "instance", "forced"}, err : Err]]
  /\ cpc \in [Callers -> {"out", "do", "locked", "store", "unlock"}]
  /\ raced \in BOOLEAN
  /\ asked \subseteq Runs
  /\ early \subseteq Runs

\* The r-th call of Run has returned.
Returned(r) == outcome[r].how # "none" /\ ~(run = r /\ pc # "idle")

\* The r-th call of Run has assigned both fields.
SetUp(r) == run = r /\ pc \notin {"makeCh", "resetOnce"}

\* Run reports success only for an instance that has itself returned nil:
\* neither a stop request nor the termination timeout turns into a nil error
\* (host.go:83-107).
NilMeansInstanceNil ==
  \A r \in Runs : Returned(r) /\ outcome[r].err = {}
                    => inst[r] = "sent" /\ instErr[r] = {}

\* Whichever way Run ends, the instance's context is done by then: an
\* instance that outlives Run has been told to stop (host.go:77-78).
InstanceTold ==
  \A r \in Runs : Returned(r) => ctx[r] # "nil"

\* Run never returns ahead of its signal goroutine, and the only way it
\* leaves a signal handler behind is a context that was done before Notify
\* was called, so that Stop ran first (host.go:80-81, 122-152).
SignalsReleased ==
  \A r \in Runs : Returned(r) =>
     /\ sigpc[r] = "exit"
     /\ r \in registered => r \in early

\* What a returned call of Run leaves is in order: its error is the
\* instance's own or that of a done context, an instance that outlives it has
\* been told to stop, and neither a goroutine nor, but for that one case, a
\* signal handler stays behind (host.go:77-107, 122-152).
ReturnIsClean == NilMeansInstanceNil /\ InstanceTold /\ SignalsReleased

\* From Notify until somebody asks for the stop or the instance returns, a
\* signal never kills the process by its default action: the first one is
\* always turned into a stop of the instance (host.go:63-75, 126-150).
FirstSignalCaught ==
  proc = "killed" /\ pc \in {"spawnInstance", "select", "cancel"} => run \in asked

\* Run abandons an instance that has not returned only if somebody asked for
\* the stop: a Shutdown, a signal, or the caller's context (host.go:68-107).
NeverForcedUnasked ==
  \A r \in Runs : outcome[r].how = "forced" => r \in asked

\* Closing the shutdown channel twice, and unlocking a Once that was
\* replaced while in use, take a Shutdown that overlaps the two unlocked
\* assignments at the start of Run (host.go:53-54, 115-117).
CrashNeedsRace == proc \in {"panicked", "fatal"} => raced

\* Unless such an overlap happened, a Shutdown that the Once takes for
\* already served has really closed the channel of the current call: no
\* shutdown request is lost, on the first call of Run or on a later one.
ShutdownNotLost ==
  ~raced /\ SetUp(run) /\ once.done => run \in closed

\* Somebody asked call r to stop, or its instance has returned.
StopRequested(r) ==
  \/ r \in closed \/ ctx[r] # "nil" \/ inst[r] = "sending"
  \/ sigpc[r] = "wait" /\ sigBuf[r] > 0

=============================================================================
