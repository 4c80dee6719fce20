---------------------------- MODULE ObservedPipeline ---------------------------
(***************************************************************************)
(* A service that runs a pipeline and emits the events of its life.  The   *)
(* service and its stages are external: it is a ControllableInstance whose *)
(* stages report their hooks as loop events, and whose Shutdown emits a    *)
(* request.  A hook is called by pipeline.Run, so whatever it waits for    *)
(* Run waits for.  With a disabled Emit this is the pipeline alone.        *)
(***************************************************************************)
EXTENDS Pipeline

CONSTANTS NoDetail, NoEvent

VARIABLES
  svc,        \* what Run of the service does next
  stopped,    \* whether its Shutdown has been called
  enabled, channel, sending, called, read, reader    \* Emit

emitVars     == <<enabled, channel, sending, called, read, reader>>
observedVars == <<vars, svc, stopped, emitVars>>

Hooks == [kind : {"enter", "exit"}, on : Stages, other : Ids]
E == INSTANCE Emit WITH Emitters <- {"service", "stopper"}, Details <- Hooks

ASSUME ObservedAssumption == NoEvent \notin E!Events

ObservedInit ==
  /\ Init
  /\ svc = "new" /\ stopped = FALSE
  /\ \E on \in BOOLEAN : E!New(on)

Emits(evt) == E!EmitIfEnabled("service", evt)

Prepare ==
  /\ svc = "new" /\ svc' = "prepare"
  /\ Emits(E!RunInit)
  /\ UNCHANGED <<vars, stopped>>

Prepared ==
  /\ svc = "prepare"
  /\ \/ Emits(E!Running) /\ svc' = "run"
     \/ Emits(E!RunInitError("failed")) /\ svc' = "done"
  /\ UNCHANGED <<vars, stopped>>

\* A statement of pipeline.Run, with the event of the hook it calls.
PipelineStep ==
  /\ svc = "run" /\ sending["service"] = NoEvent
  /\ Next
  /\ IF hooks' # hooks THEN Emits(E!RunLoopEvent(Last(hooks'))) ELSE UNCHANGED emitVars
  /\ UNCHANGED <<svc, stopped>>

Finish ==
  /\ svc = "run" /\ pc = "returned" /\ svc' = "done"
  /\ \E err \in {"nil", "failed"} : Emits(E!RunFinished(err))
  /\ UNCHANGED <<vars, stopped>>

Shutdown ==
  /\ ~stopped /\ stopped' = TRUE
  /\ E!EmitIfEnabled("stopper", E!ShutdownRequest)
  /\ UNCHANGED <<vars, svc>>

Service == Prepare \/ Prepared \/ PipelineStep \/ Finish
Channel(A) == A /\ UNCHANGED <<vars, svc, stopped>>

\* The service has ended, or waits for its channel: whether somebody will come
\* for the event is what RunIsSeen is about.
AtRest == (svc = "done" \/ sending["service"] # NoEvent) /\ UNCHANGED observedVars

ObservedNext ==
  \/ Service \/ Shutdown
  \/ \E e \in {"service", "stopper"} : Channel(E!Send(e))
  \/ Channel(E!Receive) \/ Channel(E!Leave)
  \/ AtRest

\* The goroutine of Run and its stages run on, a channel serves whoever waits
\* for it in turn, and a reader that has not left reads.
ObservedFairness ==
  /\ WF_observedVars(Service)
  /\ SF_observedVars(Channel(E!Send("service")))
  /\ WF_observedVars(Channel(E!Receive))

ObservedSpec == ObservedInit /\ [][ObservedNext]_observedVars /\ ObservedFairness

-----------------------------------------------------------------------------
\* What the service and its Shutdown emit arrives once and in order
\* (emit.go:61-76).
EventsDelivered == E!Delivered

\* A service ends, with each of its events read up to the last one, unless
\* its reader leaves: nobody waits for a slot that is not there, and nobody
\* for a reader when the events are disabled (emit.go:61-76).
RunIsSeen ==
  <>(\/ svc = "done" /\ (enabled => read["service"] = called["service"])
     \/ enabled /\ reader = "gone")
===============================================================================
