---------------------------- MODULE ProcessProofs ----------------------------
(***************************************************************************)
(* Proofs about the process around a Host: what Start makes of the end of  *)
(* any service, and of that of a Server.  They rest on the step lemmas of  *)
(* HostProofs and ServerProofs.                                            *)
(***************************************************************************)
EXTENDS HostedServer, HostProofs

-----------------------------------------------------------------------------
(***************************************************************************)
(* Start.  The invariant of the Host, and what links the one call of Run   *)
(* to the main goroutine.  CrashNeedsRace is not in it: main panics on its *)
(* own when a record cannot be logged.                                     *)
(***************************************************************************)

\* Run is called once main is there, and by nobody else.
RunIsCalledByMain == main # "run" => run = 0

\* The instance is started once, by SpawnInstance.
SpawnedOnce ==
  pc \in {"makeCh", "resetOnce", "spawnSignals", "notify", "spawnInstance"}
    => inst[1] = "none"

\* An error is the instance's own only once it has returned, and that of a
\* Run that gave up is the one that its context has for good.
ErrorsHaveSource ==
  /\ inst[1] \in {"none", "running"} => instErr[1] = {}
  /\ outcome[1].how = "forced" => outcome[1].err = {ctx[1]}

\* A process that has come to Run exits only after it, with its error.
ExitsWithError ==
  proc = "exited" /\ main = "run"
    => Returned(1) /\ exitCode = CodeOf(outcome[1].err, 2)

HostInv == TypeOK /\ RunInv /\ (~raced => OnceInv) /\ FirstSignalCaught

StartInv ==
  /\ StartTypeOK /\ HostInv
  /\ RunIsCalledByMain /\ SpawnedOnce /\ ErrorsHaveSource /\ ExitsWithError

LEMMA InitStart == StartInit => StartInv
<1> SUFFICES ASSUME StartInit PROVE StartInv
  OBVIOUS
<1>1. IInv
  BY InitInv DEF StartInit
<1>2. StartTypeOK
  BY <1>1 DEF StartInit, StartTypeOK, IInv
<1>3. RunIsCalledByMain /\ SpawnedOnce /\ ErrorsHaveSource /\ ExitsWithError
  BY StartAssumption DEF StartInit, Init, Runs, NoOutcome, RunIsCalledByMain,
                         SpawnedOnce, ErrorsHaveSource, ExitsWithError
<1> QED
  BY <1>1, <1>2, <1>3 DEF StartInv, HostInv, IInv, ShutdownInv

(* A step of main that leaves the Host alone.                              *)
LEMMA HostFrame ==
  ASSUME HostInv, Up, proc' \in {"up", "exited", "panicked"},
         UNCHANGED <<runVars, shutVars, ctx, signalVars, instVars, outcome, asked>>
  PROVE  HostInv'
<1> USE DEF HostInv, runVars, shutVars, signalVars, instVars
<1>1. TypeOK'
  BY DEF TypeOK
<1>2. RunInv'
  BY DEF RunInv, ChannelOfRun, Progress, Always, NotStarted, Over, Active
<1>3. (~raced => OnceInv)'
  BY DEF OnceInv, HoldsLock
<1>4. FirstSignalCaught'
  BY DEF FirstSignalCaught
<1> QED
  BY <1>1, <1>2, <1>3, <1>4

(* A step of the Host keeps its invariant, dead or alive.                  *)
LEMMA HostSteps ==
  ASSUME HostInv, [Next]_vars
  PROVE  HostInv'
<1>1. TypeOK' /\ RunInv' /\ FirstSignalCaught'
  BY NextType, NextRun, NextKilled DEF HostInv
<1>2. (~raced => OnceInv)'
  <2>1. CASE Up
    <3>1. ShutdownInv
      BY <2>1 DEF HostInv, ShutdownInv, CrashNeedsRace, Up
    <3> QED
      BY <3>1, NextShutdown DEF HostInv, ShutdownInv
  <2>2. CASE ~Up
    <3>1. UNCHANGED vars
      BY <2>2 DEF Next, HostStep, StartRun, RunStep, MakeShutdownCh, ResetOnce,
                  SpawnSignals, Notify, SpawnInstance, Select, Cancel, Join,
                  Await, InstanceReturns, SignalStep, TakeSignal, SeeCtxDone,
                  StopSignals, CloseSignalCh, SignalsDone, EnterShutdown,
                  ShutdownStep, OnceFastPath, OnceLock, OnceBody, OnceFinish,
                  ParentDone, OsSignal, Dead
    <3> QED
      BY <3>1 DEF vars, HostInv, OnceInv, HoldsLock
  <2> QED
    BY <2>1, <2>2
<1> QED
  BY <1>1, <1>2 DEF HostInv

(* What a step of the process does to the parts of a call that outlive it. *)
LEMMA StartMoves ==
  ASSUME StartInv, StartNext
  PROVE  /\ ctx'[1] = ctx[1] \/ (ctx[1] = "nil" /\ ctx'[1] \in CtxErr)
         /\ \/ inst[1] = "running" /\ inst'[1] = "sending"
            \/ /\ instErr'[1] = instErr[1]
               /\ inst'[1] \in {"sending", "sent"} <=> inst[1] \in {"sending", "sent"}
         /\ asked \subseteq asked'
<1>1. TypeOK /\ Runs = {1} /\ (pc # "idle" => run = 1)
  BY StartAssumption DEF StartInv, HostInv, RunInv, ChannelOfRun, TypeOK, Runs
<1>2. run = 0 => ctx[1] = "nil" /\ inst[1] = "none"
  BY StartAssumption DEF StartInv, HostInv, RunInv, Progress, NotStarted, Runs
<1>10. pc = "spawnInstance" => inst[1] = "none"
  BY DEF StartInv, SpawnedOnce
<1> USE <1>1, <1>2 DEF TypeOK, runVars, shutVars, signalVars, instVars
<1>3. CASE LogRecords \/ PrepareReturns \/ Exit
  BY <1>3 DEF LogRecords, PrepareReturns, Exit
<1>4. CASE CallRun
  BY <1>4 DEF CallRun, StartRun
<1>5. CASE RunStep
  <2>1. CASE Select \/ Await
    BY <2>1 DEF Select, Await, ReceiveErr, Timeout
  <2>2. CASE Cancel
    BY <2>2, HostAssumption DEF Cancel, CancelCtx
  <2>3. CASE SpawnInstance
    BY <2>3, <1>10 DEF SpawnInstance
  <2> QED
    BY <1>5, <2>1, <2>2, <2>3 DEF RunStep, MakeShutdownCh, ResetOnce,
                                  SpawnSignals, Notify, Join
<1>6. ASSUME NEW r \in Runs, InstanceReturns(r) \/ SignalStep(r)
      PROVE  /\ ctx' = ctx /\ asked \subseteq asked'
             /\ \/ inst[1] = "running" /\ inst'[1] = "sending"
                \/ UNCHANGED instVars
  BY <1>6 DEF InstanceReturns, SignalStep, TakeSignal, SeeCtxDone, StopSignals,
              CloseSignalCh, SignalsDone
<1>7. ASSUME NEW c \in Callers, EnterShutdown(c) \/ ShutdownStep(c)
      PROVE  UNCHANGED <<ctx, instVars>> /\ asked \subseteq asked'
  BY <1>7 DEF EnterShutdown, ShutdownStep, OnceFastPath, OnceLock, OnceBody,
              OnceFinish
<1>8. CASE ParentDone
  BY <1>8 DEF ParentDone
<1>9. CASE OsSignal \/ Dead
  BY <1>9 DEF OsSignal, Dead, vars
<1> QED
  BY <1>3, <1>4, <1>5, <1>6, <1>7, <1>8, <1>9 DEF StartNext, HostStep

LEMMA StartHost ==
  ASSUME StartInv, StartNext
  PROVE  HostInv'
<1>1. CASE LogRecords \/ PrepareReturns \/ Exit
  BY <1>1, HostFrame DEF LogRecords, PrepareReturns, Exit, ExitOnError, StartInv, Up
<1>2. CASE CallRun \/ HostStep
  BY <1>2, HostSteps DEF CallRun, Next, StartInv
<1> QED
  BY <1>1, <1>2 DEF StartNext

(* The Host neither calls Run nor exits.                                   *)
LEMMA HostStepFrame ==
  ASSUME HostStep
  PROVE  run' = run /\ (proc' = "exited" => proc = "exited" /\ UNCHANGED vars)
<1>1. CASE RunStep \/ ParentDone \/ OsSignal \/ Dead
  BY <1>1 DEF RunStep, MakeShutdownCh, ResetOnce, SpawnSignals, Notify,
              SpawnInstance, Select, Cancel, Join, Await, ParentDone, OsSignal,
              Dead, Up, vars, runVars
<1>2. ASSUME NEW r \in Runs, InstanceReturns(r) \/ SignalStep(r)
      PROVE  run' = run /\ proc' # "exited"
  BY <1>2 DEF InstanceReturns, SignalStep, TakeSignal, SeeCtxDone, StopSignals,
              CloseSignalCh, SignalsDone, Up, runVars
<1>3. ASSUME NEW c \in Callers, EnterShutdown(c) \/ ShutdownStep(c)
      PROVE  run' = run /\ proc' # "exited"
  BY <1>3 DEF EnterShutdown, ShutdownStep, OnceFastPath, OnceLock, OnceBody,
              OnceFinish, Up, runVars
<1> QED
  BY <1>1, <1>2, <1>3 DEF HostStep

LEMMA StartMain ==
  ASSUME StartInv, StartNext
  PROVE  StartTypeOK' /\ RunIsCalledByMain' /\ ExitsWithError'
<1>1. CASE LogRecords
  BY <1>1, StartHost
  DEF StartInv, HostInv, StartTypeOK, RunIsCalledByMain, ExitsWithError,
      LogRecords, ExitOnError, CodeOf, Up, runVars, mainVars
<1>2. CASE PrepareReturns
  BY <1>2, StartHost
  DEF StartInv, HostInv, StartTypeOK, RunIsCalledByMain, ExitsWithError,
      PrepareReturns, ExitOnError, CodeOf, Up, runVars
<1>3. CASE Exit
  BY <1>3, StartHost
  DEF StartInv, HostInv, StartTypeOK, RunIsCalledByMain, ExitsWithError,
      Exit, ExitOnError, CodeOf, Returned, runVars
<1>4. CASE CallRun
  BY <1>4, StartHost
  DEF StartInv, HostInv, StartTypeOK, RunIsCalledByMain, ExitsWithError,
      CallRun, StartRun, Up, mainVars
<1>5. CASE HostStep /\ UNCHANGED mainVars
  BY <1>5, StartHost, HostStepFrame
  DEF StartInv, HostInv, StartTypeOK, RunIsCalledByMain, ExitsWithError,
      Returned, mainVars, vars
<1> QED
  BY <1>1, <1>2, <1>3, <1>4, <1>5 DEF StartNext

LEMMA StartSpawn ==
  ASSUME StartInv, StartNext
  PROVE  SpawnedOnce'
<1>1. TypeOK /\ Runs = {1} /\ (pc # "idle" => run = 1)
  BY StartAssumption DEF StartInv, HostInv, RunInv, ChannelOfRun, TypeOK, Runs
<1>2. run = 0 => inst[1] = "none"
  BY StartAssumption DEF StartInv, HostInv, RunInv, Progress, NotStarted, Runs
<1>3. SpawnedOnce
  BY DEF StartInv
<1> USE <1>1, <1>2, <1>3 DEF TypeOK, SpawnedOnce, runVars, shutVars, signalVars,
                             instVars
<1>4. CASE LogRecords \/ PrepareReturns \/ Exit
  BY <1>4 DEF LogRecords, PrepareReturns, Exit
<1>5. CASE CallRun
  BY <1>5, StartAssumption DEF CallRun, StartRun
<1>6. CASE RunStep
  BY <1>6 DEF RunStep, MakeShutdownCh, ResetOnce, SpawnSignals, Notify,
              SpawnInstance, Select, Cancel, Join, Await
<1>7. CASE \E r \in Runs : InstanceReturns(r) \/ SignalStep(r)
  BY <1>7 DEF InstanceReturns, SignalStep, TakeSignal, SeeCtxDone, StopSignals,
              CloseSignalCh, SignalsDone
<1>8. CASE \E c \in Callers : EnterShutdown(c) \/ ShutdownStep(c)
  BY <1>8 DEF EnterShutdown, ShutdownStep, OnceFastPath, OnceLock, OnceBody,
              OnceFinish
<1>9. CASE ParentDone \/ OsSignal \/ Dead
  BY <1>9 DEF ParentDone, OsSignal, Dead, vars
<1> QED
  BY <1>4, <1>5, <1>6, <1>7, <1>8, <1>9 DEF StartNext, HostStep

LEMMA StartErrors ==
  ASSUME StartInv, StartNext
  PROVE  ErrorsHaveSource'
<1>1. TypeOK /\ TypeOK' /\ Runs = {1} /\ (pc # "idle" => run = 1)
  BY StartHost, StartAssumption
  DEF StartInv, HostInv, RunInv, ChannelOfRun, TypeOK, Runs
<1>2. inst'[1] \in {"none", "running"} => instErr'[1] = {}
  <2>1. inst[1] \in {"none", "running"} => instErr[1] = {}
    BY DEF StartInv, ErrorsHaveSource
  <2> QED
    BY <1>1, <2>1, StartMoves DEF TypeOK
<1>3. outcome'[1].how = "forced" => outcome'[1].err = {ctx'[1]}
  <2>1. CASE Await
    <3>1. run = 1 /\ ctx' = ctx
      BY <1>1, <2>1 DEF Await
    <3>2. CASE ReceiveErr
      BY <1>1, <3>1, <3>2 DEF ReceiveErr, TypeOK
    <3>3. CASE Timeout
      <4> DEFINE e == {ctx[run]}
      <4>1. outcome' = [outcome EXCEPT ![run] = [how |-> "forced", err |-> e]]
        BY <3>3 DEF Timeout
      <4>2. e = {ctx'[1]}
        BY <3>1
      <4> HIDE DEF e
      <4> QED
        BY <1>1, <3>1, <4>1, <4>2 DEF TypeOK
    <3>4. ReceiveErr \/ Timeout
      BY <2>1 DEF Await
    <3> QED
      BY <3>2, <3>3, <3>4
  <2>2. CASE Select
    BY <1>1, <2>2 DEF StartInv, ErrorsHaveSource, Select, ReceiveErr, TypeOK
  <2>3. CASE outcome' = outcome
    <3>1. outcome[1].how = "forced" => ctx[1] # "nil"
      BY <1>1 DEF StartInv, HostInv, RunInv, Progress, NotStarted, NoOutcome, Over,
                  Active, TypeOK
    <3>2. outcome[1].how = "forced" => ctx'[1] = ctx[1]
      BY <3>1, StartMoves
    <3>3. outcome[1].how = "forced" => outcome[1].err = {ctx[1]}
      BY DEF StartInv, ErrorsHaveSource
    <3> QED
      BY <2>3, <3>2, <3>3
  <2>4. StartNext => outcome' = outcome \/ Select \/ Await
    BY DEF StartNext, HostStep, LogRecords, PrepareReturns, CallRun, StartRun, Exit,
           RunStep, MakeShutdownCh, ResetOnce, SpawnSignals, Notify, SpawnInstance,
           Cancel, Join, InstanceReturns, SignalStep, TakeSignal, SeeCtxDone,
           StopSignals, CloseSignalCh, SignalsDone, EnterShutdown, ShutdownStep,
           OnceFastPath, OnceLock, OnceBody, OnceFinish, ParentDone, OsSignal,
           Dead, vars
  <2> QED
    BY <2>1, <2>2, <2>3, <2>4
<1> QED
  BY <1>2, <1>3 DEF ErrorsHaveSource

LEMMA NextStart == StartInv /\ [StartNext]_startVars => StartInv'
<1>1. ASSUME StartInv, StartNext
      PROVE  StartInv'
  BY <1>1, StartHost, StartMain, StartSpawn, StartErrors DEF StartInv
<1>2. ASSUME StartInv, UNCHANGED startVars
      PROVE  StartInv'
  <2>1. HostInv'
    BY <1>2, HostSteps DEF StartInv, startVars
  <2>2. UNCHANGED <<proc, pc, run, ctx, inst, instErr, outcome, entry, main, exitCode>>
    BY <1>2 DEF startVars, vars, mainVars
  <2> QED
    BY <1>2, <2>1, <2>2
    DEF StartInv, HostInv, StartTypeOK, RunIsCalledByMain, SpawnedOnce,
        ErrorsHaveSource, ExitsWithError, Returned
<1> QED
  BY <1>1, <1>2

-----------------------------------------------------------------------------
\* The invariant of a process that runs a service: Host and main agree, in
\* every state, on the call of Run, its error and the exit code.
THEOREM StartInductive == StartSpec => []StartInv
BY InitStart, NextStart, PTL DEF StartSpec

\* A process that nobody asked to stop leaves after its instance, with code 2
\* if that failed, unless a context.Canceled of any context is joined to the
\* failure, for any callers of Shutdown, signals and contexts
\* (host.go:68-86, service.go:72-76, 85-92).
THEOREM FailureIsReported == StartSpec => []FailureReported
<1>1. StartInv => FailureReported
  <2> SUFFICES ASSUME StartInv, proc = "exited", main = "run", 1 \notin asked
               PROVE  /\ inst[1] = "sent"
                      /\ (exitCode = 2) <=> (instErr[1] # {} /\ "canceled" \notin instErr[1])
    BY DEF FailureReported
  <2>1. 1 \in Runs /\ TypeOK
    BY StartAssumption DEF StartInv, HostInv, Runs
  <2>2. Returned(1) /\ exitCode = CodeOf(outcome[1].err, 2)
    BY DEF StartInv, ExitsWithError
  <2>3. inst[1] = "sent" /\ outcome[1].err = instErr[1]
    BY <2>1, <2>2 DEF StartInv, HostInv, RunInv, Always, Returned, TypeOK
  <2> QED
    BY <2>2, <2>3 DEF CodeOf
<1> QED
  BY <1>1, StartInductive, PTL

\* Code 0 leaves an unfinished instance behind only after a cancellation
\* (host.go:103-107, service.go:85-92).
THEOREM AbandonedIfCancelled == StartSpec => []AbandonedOnlyOnCancel
<1>1. StartInv => AbandonedOnlyOnCancel
  <2> SUFFICES ASSUME StartInv, proc = "exited", main = "run", exitCode = 0,
                      inst[1] # "sent"
               PROVE  1 \in asked /\ ctx[1] = "canceled"
    BY DEF AbandonedOnlyOnCancel
  <2>1. 1 \in Runs /\ TypeOK
    BY StartAssumption DEF StartInv, HostInv, Runs
  <2>2. Returned(1) /\ exitCode = CodeOf(outcome[1].err, 2)
    BY DEF StartInv, ExitsWithError
  <2>3. outcome[1].how = "forced" /\ 1 \in asked /\ outcome[1].err # {}
    BY <2>1, <2>2 DEF StartInv, HostInv, RunInv, Always, Returned, TypeOK
  <2> QED
    BY <2>2, <2>3 DEF StartInv, ErrorsHaveSource, CodeOf
<1> QED
  BY <1>1, StartInductive, PTL

-----------------------------------------------------------------------------
(***************************************************************************)
(* A Host that runs a Server.  Seen without the process, which may die     *)
(* under it, the Server takes steps of its own or stutters: it keeps the   *)
(* invariant of ServerProofs.                                              *)
(***************************************************************************)

SP == INSTANCE ServerProofs WITH
  proc <- "up", Callers <- Closers, pc <- spc, ctx <- ctx[1], cpc <- dpc, cerr <- derr

\* What the instance goroutine hands over is what Server.Run returned.
AnswerIsResult ==
  inst[1] \in {"sending", "sent"} => spc = "returned" /\ instErr[1] = result

\* A cancellation that the Server reports is that of the Host's context, which
\* somebody had asked for.
CancelIsAsked ==
  "canceled" \in result \cup {shErr} => ctx[1] = "canceled" /\ 1 \in asked

HostedInv == StartInv /\ SP!IInv /\ AnswerIsResult /\ CancelIsAsked

LEMMA InitHosted == HostedInit => HostedInv
<1> SUFFICES ASSUME HostedInit PROVE HostedInv
  OBVIOUS
<1>1. SP!Init
  BY DEF HostedInit, S!Init, SP!Init
<1>2. SP!IInv
  BY <1>1, SP!InitInv, HostAssumption, HostedAssumption
<1>3. AnswerIsResult /\ CancelIsAsked
  BY StartAssumption DEF HostedInit, StartInit, Init, S!Init, Runs, AnswerIsResult,
                         CancelIsAsked
<1> QED
  BY <1>2, <1>3, InitStart DEF HostedInit, HostedInv

(* An instance runs under a done context only if somebody asked for it.    *)
LEMMA DoneIsAsked ==
  ASSUME StartInv, inst[1] = "running", ctx[1] # "nil"
  PROVE  1 \in asked
<1>1. Runs = {1} /\ TypeOK
  BY StartAssumption DEF StartInv, HostInv, Runs
<1>2. run = 1
  BY <1>1, StartAssumption
  DEF StartInv, HostInv, RunInv, Progress, NotStarted, TypeOK
<1>3. CASE pc = "idle"
  BY <1>1, <1>2, <1>3
  DEF StartInv, HostInv, RunInv, Progress, Over, Always, TypeOK
<1>4. CASE pc # "idle"
  BY <1>1, <1>2, <1>4
  DEF StartInv, HostInv, RunInv, Progress, Active, Always, TypeOK
<1> QED
  BY <1>3, <1>4

(* Every step is one of the Server's own, or none.                         *)
LEMMA ServerSteps ==
  ASSUME HostedInv, HostedNext
  PROVE  [SP!Next]_(SP!vars)
<1> USE DEF SP!vars, SP!runVars, SP!serveVars, SP!callerVars, SP!Up
<1>1. CASE ProcessStep
  <2>1. ctx'[1] = ctx[1] \/ (ctx[1] = "nil" /\ ctx'[1] \in CtxErr)
    BY <1>1, StartMoves DEF ProcessStep, HostedInv
  <2>2. UNCHANGED serverVars
    BY <1>1 DEF ProcessStep
  <2> QED
    BY <2>1, <2>2 DEF serverVars, SP!Next, SP!CtxDone
<1>2. CASE ServerRun
  <2>1. SP!RunStep
    BY <1>2 DEF ServerRun, S!RunStep, SP!RunStep, 
       S!runVars, S!serveVars, S!callerVars, S!Up,
       S!PrepareListener, SP!PrepareListener, S!Publish, SP!Publish,
       S!InsideShutdown, SP!InsideShutdown, S!SpawnServe, SP!SpawnServe,
       S!ReceiveErr, SP!ReceiveErr, S!Result, SP!Result,
       S!SelectDone, SP!SelectDone, S!BeginShutdown, SP!BeginShutdown,
       S!ShutdownOver, SP!ShutdownOver, S!AfterShutdown, SP!AfterShutdown
  <2> QED
    BY <2>1 DEF SP!Next
<1>3. CASE ServerServe
  <2>1. SP!Listen \/ SP!AcceptEnds \/ SP!RequestBegins \/ SP!RequestEnds
    BY <1>3 DEF ServerServe, S!runVars, S!serveVars, S!callerVars, S!Up,
       S!Listen, SP!Listen, S!AcceptEnds, SP!AcceptEnds, S!ServeReturns,
       SP!ServeReturns, S!RequestBegins, SP!RequestBegins,
       S!RequestEnds, SP!RequestEnds
  <2> QED
    BY <2>1 DEF SP!Next
<1>4. CASE ServerClose
  <2>1. PICK d \in Closers :
          S!EnterShutdown(d) \/ S!CallerCtxDone(d) \/ S!ShutdownReturns(d) \/ S!Clear(d)
    BY <1>4 DEF ServerClose
  <2>2. SP!EnterShutdown(d) \/ SP!CallerCtxDone(d) \/ SP!ShutdownReturns(d) \/ SP!Clear(d)
    BY <2>1 DEF S!runVars, S!serveVars, S!callerVars, S!Up,
       S!EnterShutdown, SP!EnterShutdown, S!ListenerFound, SP!ListenerFound,
       S!InsideShutdown, SP!InsideShutdown, S!CallerCtxDone, SP!CallerCtxDone,
       S!ShutdownReturns, SP!ShutdownReturns, S!ShutdownNil, SP!ShutdownNil,
       S!Clear, SP!Clear
  <2> QED
    BY <2>2 DEF SP!Next
<1> QED
  BY <1>1, <1>2, <1>3, <1>4 DEF HostedNext

(* A step of the Server is one that the Host sees only as a crash.         *)
LEMMA ServerIsNotHost ==
  ASSUME StartInv, HostAlone, Up, proc' \in {"up", "panicked"}
  PROVE  StartInv'
<1>1. HostInv'
  BY HostFrame DEF StartInv, HostAlone
<1> QED
  BY <1>1
  DEF StartInv, HostInv, StartTypeOK, RunIsCalledByMain, SpawnedOnce, ErrorsHaveSource,
      ExitsWithError, HostAlone, runVars, instVars, mainVars

LEMMA NextHosted == HostedInv /\ [HostedNext]_hostedVars => HostedInv'
<1>1. ASSUME HostedInv, HostedNext
      PROVE  HostedInv'
  <2>1. SP!IInv'
    BY <1>1, ServerSteps, SP!NextInv, HostAssumption, HostedAssumption DEF HostedInv
  <2>2. StartInv'
    <3>1. CASE ProcessStep
      BY <1>1, <3>1, NextStart DEF HostedInv, ProcessStep
    <3>2. CASE ServerRun \/ ServerServe \/ ServerClose
      <4>1. HostAlone /\ Up /\ proc' \in {"up", "panicked"}
        BY <3>2
        DEF ServerRun, ServerServe, ServerClose, Up, S!Up, S!RunStep,
            S!PrepareListener, S!Publish, S!SpawnServe, S!ReceiveErr, S!SelectDone,
            S!ShutdownOver, S!Listen, S!AcceptEnds, S!RequestBegins, S!RequestEnds,
            S!EnterShutdown, S!CallerCtxDone, S!ShutdownReturns, S!Clear
      <4> QED
        BY <1>1, <4>1, ServerIsNotHost DEF HostedInv
    <3> QED
      BY <1>1, <3>1, <3>2 DEF HostedNext
  <2>3. AnswerIsResult'
    <3>1. CASE ProcessStep
      BY <1>1, <3>1, StartMoves, HostAssumption
      DEF HostedInv, ProcessStep, ServerRunReturns, serverVars, AnswerIsResult
    <3>2. CASE ServerRun
      BY <1>1, <3>2 DEF ServerRun, HostAlone, instVars, AnswerIsResult
    <3>3. CASE ServerServe \/ ServerClose
      <4>1. UNCHANGED <<spc, result, instVars>>
        BY <3>3
        DEF ServerServe, ServerClose, HostAlone, S!runVars, S!Listen, S!AcceptEnds,
            S!RequestBegins, S!RequestEnds, S!EnterShutdown, S!CallerCtxDone,
            S!ShutdownReturns, S!Clear
      <4> QED
        BY <1>1, <4>1 DEF HostedInv, instVars, AnswerIsResult
    <3> QED
      BY <1>1, <3>1, <3>2, <3>3 DEF HostedNext
  <2>4. CancelIsAsked'
    <3>1. CASE ProcessStep
      BY <1>1, <3>1, StartMoves
      DEF HostedInv, ProcessStep, serverVars, CancelIsAsked
    <3>2. CASE ServerRun
      <4>1. ctx[1] # "nil" => 1 \in asked
        BY <1>1, <3>2, DoneIsAsked DEF ServerRun, HostedInv
      <4>2. serveErr # "canceled"
        BY <1>1 DEF HostedInv, SP!IInv, SP!TypeOK
      <4>3. "canceled" \in result' \cup {shErr'} =>
              "canceled" \in result \cup {shErr} \/ ctx[1] = "canceled"
        BY <3>2, <4>2
        DEF ServerRun, S!RunStep, S!PrepareListener, S!Publish, S!SpawnServe,
            S!ReceiveErr, S!Result, S!SelectDone, S!ShutdownOver
      <4> QED
        BY <1>1, <3>2, <4>1, <4>3 DEF HostedInv, CancelIsAsked, ServerRun, HostAlone
    <3>3. CASE ServerServe \/ ServerClose
      <4>1. UNCHANGED <<result, shErr, ctx, asked>>
        BY <3>3
        DEF ServerServe, ServerClose, HostAlone, S!runVars, S!Listen, S!AcceptEnds,
            S!RequestBegins, S!RequestEnds, S!EnterShutdown, S!CallerCtxDone,
            S!ShutdownReturns, S!Clear
      <4> QED
        BY <1>1, <4>1 DEF HostedInv, CancelIsAsked
    <3> QED
      BY <1>1, <3>1, <3>2, <3>3 DEF HostedNext
  <2> QED
    BY <2>1, <2>2, <2>3, <2>4 DEF HostedInv
<1>2. ASSUME HostedInv, UNCHANGED hostedVars
      PROVE  HostedInv'
  <2>1. StartInv'
    BY <1>2, NextStart DEF HostedInv, hostedVars
  <2>2. SP!IInv'
    BY <1>2, SP!NextInv, HostAssumption, HostedAssumption
    DEF HostedInv, hostedVars, startVars, vars, serverVars, SP!vars, SP!runVars,
        SP!serveVars, SP!callerVars
  <2> QED
    BY <1>2, <2>1, <2>2
    DEF HostedInv, hostedVars, startVars, vars, serverVars, AnswerIsResult,
        CancelIsAsked
<1> QED
  BY <1>1, <1>2

-----------------------------------------------------------------------------
\* The invariant of the process, its Host and its Server together.
THEOREM HostedInductive == HostedSpec => []HostedInv
BY InitHosted, NextHosted, PTL DEF HostedSpec

\* The Host is to the Server nothing but a context that may be done: what it
\* does implements the environment of Server, but for fairness and for the
\* process, which may die under the Server (host.go:56-61, server.go:38-59).
THEOREM HostIsEnvironment == HostedSpec => SP!Init /\ [][SP!Next]_(SP!vars)
<1>1. HostedInit => SP!Init
  BY DEF HostedInit, S!Init, SP!Init
<1>2. HostedInv /\ [HostedNext]_hostedVars => [SP!Next]_(SP!vars)
  <2>1. UNCHANGED hostedVars => UNCHANGED SP!vars
    BY DEF hostedVars, startVars, vars, serverVars, SP!vars, SP!runVars,
           SP!serveVars, SP!callerVars
  <2> QED
    BY <2>1, ServerSteps
<1> QED
  BY <1>1, <1>2, HostedInductive, PTL DEF HostedSpec

\* The state of the process stays well typed while it is up, that of a dead
\* one but for the Server's part.
THEOREM HostedTypes == HostedSpec => []HostedTypeOK
<1>1. HostedInv => HostedTypeOK
  BY DEF HostedInv, StartInv, HostedTypeOK, SP!IInv, SP!TypeOK, S!TypeOK, Up
<1> QED
  BY <1>1, HostedInductive, PTL

(* What a Host that got an answer knows of its Server.                     *)
LEMMA AnsweredCall ==
  ASSUME HostedInv, outcome[1].how = "instance"
  PROVE  spc = "returned" /\ outcome[1].err = result
BY StartAssumption
DEF HostedInv, StartInv, HostInv, RunInv, Always, Runs, AnswerIsResult

(* What a process that left with code 0 knows of the call of Run.          *)
LEMMA ZeroCall ==
  ASSUME HostedInv, proc = "exited", main = "run", exitCode = 0
  PROVE  /\ outcome[1].err = {} \/ "canceled" \in outcome[1].err
         /\ \/ outcome[1].how = "instance"
            \/ outcome[1].how = "forced" /\ 1 \in asked /\ ctx[1] = "canceled"
<1>1. 1 \in Runs /\ TypeOK
  BY StartAssumption DEF HostedInv, StartInv, HostInv, Runs
<1>2. Returned(1) /\ (outcome[1].err = {} \/ "canceled" \in outcome[1].err)
  BY DEF HostedInv, StartInv, ExitsWithError, CodeOf
<1>3. outcome[1].how = "forced" =>
        1 \in asked /\ outcome[1].err # {} /\ outcome[1].err = {ctx[1]}
  BY <1>1 DEF HostedInv, StartInv, HostInv, RunInv, Always, ErrorsHaveSource
<1> QED
  BY <1>1, <1>2, <1>3 DEF TypeOK, Returned

\* Code 0 means that somebody asked for the stop: a server that ends by itself
\* is a failure (server.go:47-58, host.go:83-107, service.go:72-92).
THEOREM ZeroIsAsked == HostedSpec => []ZeroMeansAsked
<1>1. HostedInv => ZeroMeansAsked
  <2> SUFFICES ASSUME HostedInv, proc = "exited", main = "run", exitCode = 0
               PROVE  1 \in asked \/ inShutdown
    BY DEF ZeroMeansAsked
  <2>1. CASE outcome[1].how = "instance"
    <3>1. spc = "returned" /\ (result = {} \/ "canceled" \in result)
      BY <2>1, AnsweredCall, ZeroCall
    <3>2. result = {} => inShutdown
      BY <3>1 DEF HostedInv, SP!IInv, SP!FailureReported
    <3> QED
      BY <3>1, <3>2 DEF HostedInv, CancelIsAsked
  <2> QED
    BY <2>1, ZeroCall
<1> QED
  BY <1>1, HostedInductive, PTL

\* A Host with its server's answer leaves no socket and no goroutine of the
\* server behind (server.go:42-51, host.go:68-86).
THEOREM AnswerIsClosed == HostedSpec => []AnswerMeansClosed
<1>1. HostedInv => AnswerMeansClosed
  BY AnsweredCall DEF HostedInv, SP!IInv, SP!RunInv, AnswerMeansClosed
<1> QED
  BY <1>1, HostedInductive, PTL

\* A failed server leaves with code 0 only under a cancelled context
\* (server.go:58, service.go:85-88).
THEOREM FailureIsCancelled == HostedSpec => []FailureNeedsCancel
<1>1. HostedInv => FailureNeedsCancel
  <2> SUFFICES ASSUME HostedInv, proc = "exited", main = "run", exitCode = 0,
                      "failed" \in result
               PROVE  ctx[1] = "canceled"
    BY DEF FailureNeedsCancel
  <2>1. CASE outcome[1].how = "instance"
    <3>1. "canceled" \in result
      BY <2>1, AnsweredCall, ZeroCall
    <3> QED
      BY <3>1 DEF HostedInv, CancelIsAsked
  <2> QED
    BY <2>1, ZeroCall
<1> QED
  BY <1>1, HostedInductive, PTL
=============================================================================
