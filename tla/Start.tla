------------------------------- MODULE Start -------------------------------
(***************************************************************************)
(* The process around a Host (src/service/service.go): Start logs the      *)
(* configuration's records, wraps the service in a Host and calls          *)
(* StartInstance, which prepares the Host, runs it once and turns what it  *)
(* returned into the exit code of the process.                             *)
(*                                                                         *)
(* Extends Host with the main goroutine.  The Host that Start creates is   *)
(* known to nobody else, so nobody can call its Shutdown; an owner of a    *)
(* Host who calls StartInstance himself can.                               *)
(***************************************************************************)
EXTENDS Host

ASSUME StartAssumption == MaxRuns = 1

VARIABLES
  entry,     \* where main comes in: "start" (Start) or "prepare" (StartInstance)
  main,      \* where the main goroutine is
  exitCode   \* argument of os.Exit; read only when proc = "exited"

mainVars  == <<entry, main, exitCode>>
startVars == <<vars, mainVars>>

StartInit == Init /\ entry \in {"start", "prepare"} /\ main = entry /\ exitCode = 0

\* Bugs: failures leave with code 0; a deadline counts as a clean end.
AlwaysZero(err, code) == 0
Lenient(err, code)    == IF err = {} \/ err \cap CtxErr # {} THEN 0 ELSE code

\* The code ExitOnError hands to os.Exit: a context.Canceled, of whichever
\* context, hides all that it is joined with.
CodeOf(err, code) == IF err = {} \/ "canceled" \in err THEN 0 ELSE code

ExitOnError(err, code) ==
  /\ proc' = "exited"
  /\ UNCHANGED entry
  /\ exitCode' = CodeOf(err, code)

\* Start: each record of the configuration goes to the log handler, whose
\* failure is a panic; a record of level Error ends the process.
LogRecords ==
  /\ Up /\ main = "start"
  /\ \/ main' = "prepare" /\ UNCHANGED <<proc, entry, exitCode>>
     \/ ExitOnError({"failed"}, 1) /\ UNCHANGED main
     \/ proc' = "panicked" /\ UNCHANGED mainVars
  /\ UNCHANGED <<runVars, shutVars, ctx, signalVars, instVars, outcome, asked>>

\* What Host.Prepare may return: an error for a Host without an instance, or
\* whatever Instance.Prepare, the user's code, says.
PrepareErr == Err

\* instance.Prepare returns; its error ends the process.
PrepareReturns ==
  /\ Up /\ main = "prepare"
  /\ \/ main' = "run" /\ UNCHANGED <<proc, entry, exitCode>>
     \/ \E e \in PrepareErr \ {{}} : ExitOnError(e, 1) /\ UNCHANGED main
  /\ UNCHANGED <<runVars, shutVars, ctx, signalVars, instVars, outcome, asked>>

CallRun == main = "run" /\ StartRun /\ UNCHANGED mainVars

\* Run has returned: the process exits, whoever is still running.
Exit ==
  /\ Up /\ main = "run" /\ Returned(1)
  /\ ExitOnError(outcome[1].err, 2)
  /\ UNCHANGED <<runVars, shutVars, ctx, signalVars, instVars, outcome, asked, main>>

\* Nobody but Start has the Host that it created.
NobodyElse == entry = "start" => UNCHANGED cpc

StartNext ==
  \/ LogRecords \/ PrepareReturns \/ CallRun \/ Exit
  \/ (HostStep /\ NobodyElse /\ UNCHANGED mainVars)

\* The main goroutine runs on, except inside Instance.Prepare, which is the
\* user's code; the Host's goroutines are scheduled as in Host.
StartFairness ==
  /\ WF_startVars(CallRun \/ Exit \/ (RunStep /\ UNCHANGED mainVars))
  /\ \A r \in Runs : WF_startVars(SignalStep(r) /\ UNCHANGED mainVars)
  /\ \A c \in Callers : WF_startVars(ShutdownStep(c) /\ UNCHANGED mainVars)

StartSpec == StartInit /\ [][StartNext]_startVars /\ StartFairness

-----------------------------------------------------------------------------
\* Types of the state.
StartTypeOK ==
  /\ TypeOK
  /\ entry \in {"start", "prepare"}
  /\ main \in {"start", "prepare", "run"}
  /\ exitCode \in 0 .. 2

\* While nobody has asked for a stop the process outlasts its instance and
\* leaves with what the instance returned: with code 2 for any failure but one
\* that has a context.Canceled in it, even that of a context of the instance's
\* own; such a failure is lost (host.go:68-86, service.go:72-76, 85-92).
FailureReported ==
  proc = "exited" /\ main = "run" /\ 1 \notin asked =>
    /\ inst[1] = "sent"
    /\ (exitCode = 2) <=> (instErr[1] # {} /\ "canceled" \notin instErr[1])

\* A process that exits with code 0 leaves an instance behind, unfinished,
\* only because its context was cancelled: one that overran a deadline is an
\* error (host.go:103-107, service.go:85-92).
AbandonedOnlyOnCancel ==
  proc = "exited" /\ main = "run" /\ exitCode = 0 /\ inst[1] # "sent"
    => 1 \in asked /\ ctx[1] = "canceled"

\* Any request to stop the running Host ends the process, even when the
\* instance never returns: no goroutine waits on another for ever
\* (host.go:63-107, service.go:72-76).
StopRequestEndsProcess == StopRequested(1) ~> ~Up

=============================================================================
