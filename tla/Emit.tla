---------------------------------- MODULE Emit ---------------------------------
(***************************************************************************)
(* lifecycle.Emit: an optional channel with one slot, into which a service *)
(* puts an event at each moment of its life.  The goroutines that emit and *)
(* whoever reads the channel are external; a reader may leave.             *)
(***************************************************************************)
EXTENDS Naturals, Sequences

CONSTANTS
  Emitters,    \* goroutines that call the methods of one Emit
  Details,     \* details of loop events
  NoDetail,    \* the zero value of T
  NoEvent      \* nothing is being sent

VARIABLES
  enabled,   \* field enabled; the channel is nil without it
  channel,   \* what is in the slot
  sending,   \* the event that each emitter is about to send, or waits to
  called,    \* history: the events each emitter has been asked for
  read,      \* history: the events of each emitter that the reader has got
  reader     \* whether somebody reads the channel

Event(kind, error, detail) == [kind |-> kind, error |-> error, detail |-> detail]

RunInit            == Event("run-init", "nil", NoDetail)
RunInitError(err)  == Event("run-init-error", err, NoDetail)
Running            == Event("running", "nil", NoDetail)
RunLoopEvent(d)    == Event("run-event", "nil", d)
RunFinished(err)   == Event("run-finished", err, NoDetail)
ShutdownRequest    == Event("shutdown-request", "nil", NoDetail)

\* What a method emits.
Events == [kind : {"run-init", "run-init-error", "running", "run-event", "run-finished",
                   "shutdown-request"},
           error : {"nil", "failed"}, detail : Details \cup {NoDetail}]

Slots == 1

\* New(on).
New(on) ==
  /\ enabled = on
  /\ channel = <<>>
  /\ sending = [e \in Emitters |-> NoEvent]
  /\ called = [e \in Emitters |-> <<>>]
  /\ read = [e \in Emitters |-> <<>>]
  /\ reader = "reading"

-----------------------------------------------------------------------------
NilChannel == TRUE     \* a bug: a disabled Emit sends into its nil channel
Sends      == enabled

\* Emitter e calls one of the methods.
EmitIfEnabled(e, evt) ==
  /\ sending[e] = NoEvent
  /\ called' = [called EXCEPT ![e] = Append(@, evt)]
  /\ sending' = [sending EXCEPT ![e] = IF Sends THEN evt ELSE NoEvent]
  /\ UNCHANGED <<enabled, channel, read, reader>>

\* A bug: a send that does not wait, in a select with a default.
Dropped(e) ==
  channel' = IF Len(channel) < Slots THEN Append(channel, [by |-> e, event |-> sending[e]])
                                     ELSE channel
\* s.Channel <- evt.
Sent(e) ==
  /\ enabled /\ Len(channel) < Slots
  /\ channel' = Append(channel, [by |-> e, event |-> sending[e]])

Send(e) ==
  /\ sending[e] # NoEvent
  /\ Sent(e)
  /\ sending' = [sending EXCEPT ![e] = NoEvent]
  /\ UNCHANGED <<enabled, called, read, reader>>

Receive ==
  /\ reader = "reading" /\ channel # <<>>
  /\ read' = [read EXCEPT ![Head(channel).by] = Append(@, Head(channel).event)]
  /\ channel' = Tail(channel)
  /\ UNCHANGED <<enabled, sending, called, reader>>

Leave ==
  /\ reader = "reading" /\ reader' = "gone"
  /\ UNCHANGED <<enabled, channel, sending, called, read>>

-----------------------------------------------------------------------------
\* What emitter e has in the slot, and what it is about to put there.
InSlot(e)   == IF channel # <<>> /\ Head(channel).by = e THEN <<Head(channel).event>> ELSE <<>>
InFlight(e) == IF sending[e] = NoEvent THEN <<>> ELSE <<sending[e]>>

\* Nothing is lost, made up, doubled or reordered: the calls of an emitter
\* are what the reader has got, what is in the slot and what is being sent,
\* in this order.  A disabled Emit holds nothing (emit.go:61-76).
Delivered ==
  \A e \in Emitters :
    read[e] \o InSlot(e) \o InFlight(e) = IF enabled THEN called[e] ELSE <<>>
===============================================================================
