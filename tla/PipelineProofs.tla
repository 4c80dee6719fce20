---------------------------- MODULE PipelineProofs ----------------------------
(***************************************************************************)
(* Proofs about pipeline.Run and the events of a service that runs it, for *)
(* any stages, ids and number of steps, and whoever reads the events.      *)
(***************************************************************************)
EXTENDS ObservedPipeline, SequenceTheorems, TLAPS

-----------------------------------------------------------------------------
(***************************************************************************)
(* The run of the pipeline.                                                *)
(***************************************************************************)

PipelineTypeOK ==
  /\ id \in [Stages -> Ids]
  /\ pc \in {"init", "loop", "act", "exit", "returned"}
  /\ stage \in Stages \cup {NoStage}
  /\ next \in Stages \cup {NoStage}
  /\ control \in {"continue", "break"}
  /\ acts \in Nat
  /\ hooks \in Seq(Hooks)

\* The last hook has announced the stage that comes next: either it has the
\* id of the one that was entered, or it is the one named to the stage left.
Announced ==
  /\ next \in Stages
  /\ last = id[Last(hooks).on]
  /\ \/ Last(hooks).kind = "enter" /\ last = id[next]
     \/ Last(hooks).kind = "exit" /\ last # id[next] /\ Last(hooks).other = id[next]

\* Some stage of the id of the one that acts has been entered.
Entered ==
  /\ stage \in Stages
  /\ last = id[stage] /\ last = id[Last(hooks).on] /\ Last(hooks).kind = "enter"

\* What the last hook says at each statement of Run.
LastHook ==
  /\ pc = "init" => hooks = <<>> /\ acts = 0 /\ control = "continue"
  /\ pc \in {"loop", "act", "exit"} => hooks # <<>>
  /\ pc = "loop" => Announced
  /\ pc = "loop" /\ control = "break" => acts # 0
  /\ pc = "loop" /\ acts # 0 => stage \in Stages /\ last = id[stage]
  /\ pc \in {"act", "exit"} => Entered
  /\ pc = "exit" => acts # 0

PipelineInv == PipelineTypeOK /\ LastHook /\ HooksAlternate /\ HooksAtEnd

(* What a sequence of hooks ends with.                                     *)
LEMMA LastOfHooks ==
  ASSUME hooks \in Seq(Hooks), hooks # <<>>
  PROVE  Last(hooks) \in Hooks
BY DEF Last

LEMMA AppendHook ==
  ASSUME hooks \in Seq(Hooks), NEW h \in Hooks, hooks' = Append(hooks, h), id' = id,
         HooksAlternate, IF hooks = <<>> THEN Opens(h) ELSE Follows(Last(hooks), h)
  PROVE  /\ hooks' \in Seq(Hooks) /\ hooks' # <<>> /\ Last(hooks') = h
         /\ HooksAlternate'
<1>1. /\ hooks' \in Seq(Hooks) /\ hooks' # <<>> /\ Len(hooks') = Len(hooks) + 1
      /\ \A k \in 1 .. Len(hooks) : hooks'[k] = hooks[k]
      /\ hooks'[Len(hooks) + 1] = h
  BY AppendProperties
<1>2. Len(hooks) \in Nat /\ DOMAIN hooks = 1 .. Len(hooks)
      /\ DOMAIN hooks' = 1 .. Len(hooks) + 1
  BY <1>1, LenProperties
<1>3. HooksAlternate'
  <2> SUFFICES ASSUME NEW k \in 1 .. Len(hooks) + 1
               PROVE  (IF k = 1 THEN Opens(hooks[k]) ELSE Follows(hooks[k - 1], hooks[k]))'
    BY <1>2 DEF HooksAlternate
  <2>1. CASE k \in 1 .. Len(hooks)
    <3>1. hooks'[k] = hooks[k] /\ (k # 1 => hooks'[k - 1] = hooks[k - 1])
      BY <1>1, <1>2, <2>1
    <3>2. IF k = 1 THEN Opens(hooks[k]) ELSE Follows(hooks[k - 1], hooks[k])
      BY <1>2, <2>1 DEF HooksAlternate
    <3> QED
      BY <3>1, <3>2 DEF Opens, Follows
  <2>2. CASE k = Len(hooks) + 1 /\ hooks = <<>>
    BY <1>1, <1>2, <2>2 DEF Opens
  <2>3. CASE k = Len(hooks) + 1 /\ hooks # <<>>
    <3>1. Len(hooks) # 0
      BY <2>3, EmptySeq
    <3>2. k # 1 /\ hooks'[k] = h /\ hooks'[k - 1] = Last(hooks)
      <4>1. k = Len(hooks) + 1 /\ k # 1 /\ k - 1 = Len(hooks) /\ k - 1 \in 1 .. Len(hooks)
        BY <1>2, <2>3, <3>1
      <4> QED
        BY <1>1, <4>1 DEF Last
    <3> QED
      BY <2>3, <3>2 DEF Follows
  <2> QED
    BY <1>2, <2>1, <2>2, <2>3
<1> QED
  BY <1>1, <1>2, <1>3 DEF Last

LEMMA InitPipeline == Init => PipelineInv
<1> SUFFICES ASSUME Init PROVE PipelineInv
  OBVIOUS
<1>1. hooks \in Seq(Hooks) /\ Len(hooks) = 0
  BY EmptySeq DEF Init
<1>2. DOMAIN hooks = {}
  BY <1>1, LenProperties
<1> QED
  BY <1>1, <1>2 DEF Init, PipelineInv, PipelineTypeOK, LastHook, HooksAlternate, HooksAtEnd

LEMMA NextPipeline == PipelineInv /\ Next => PipelineInv'
<1> SUFFICES ASSUME PipelineInv, Next PROVE PipelineInv'
  OBVIOUS
<1>1. hooks # <<>> => Last(hooks) \in Hooks
  BY LastOfHooks DEF PipelineInv, PipelineTypeOK
<1>2. CASE Enter
  <2>1. CASE next = NoStage
    BY <1>2, <2>1, PipelineAssumption
    DEF PipelineInv, PipelineTypeOK, LastHook, HooksAlternate, Opens, Follows,
        HooksAtEnd, Enter
  <2>2. CASE next # NoStage
    <3> DEFINE h == Hook("enter", next, id[next])
    <3>1. h \in Hooks /\ hooks' = Append(hooks, h) /\ id' = id /\ hooks = <<>> /\ Opens(h)
      BY <1>2, <2>2 DEF PipelineInv, PipelineTypeOK, LastHook, Enter, Hook, Hooks, Opens
    <3>2. hooks' \in Seq(Hooks) /\ hooks' # <<>> /\ Last(hooks') = h /\ HooksAlternate'
      BY <3>1, AppendHook DEF PipelineInv, PipelineTypeOK
    <3> QED
      BY <1>2, <2>2, <3>2
      DEF PipelineInv, PipelineTypeOK, LastHook, Announced, HooksAtEnd, Enter, Hook
  <2> QED
    BY <2>1, <2>2
<1>3. CASE NextStage
  <2>1. CASE last = id[next]
    BY <1>3, <2>1
    DEF PipelineInv, PipelineTypeOK, LastHook, Announced, Entered, HooksAlternate, Opens,
        Follows, HooksAtEnd, NextStage, LastOf
  <2>2. CASE last # id[next]
    <3> DEFINE h == Hook("enter", next, last)
    <3>1. h \in Hooks /\ hooks' = Append(hooks, h) /\ id' = id /\ hooks # <<>>
          /\ Follows(Last(hooks), h)
      BY <1>1, <1>3, <2>2
      DEF PipelineInv, PipelineTypeOK, LastHook, Announced, NextStage, Hook, Hooks, Follows
    <3>2. hooks' \in Seq(Hooks) /\ hooks' # <<>> /\ Last(hooks') = h /\ HooksAlternate'
      BY <3>1, AppendHook DEF PipelineInv, PipelineTypeOK
    <3> QED
      BY <1>3, <2>2, <3>2
      DEF PipelineInv, PipelineTypeOK, LastHook, Announced, Entered, HooksAtEnd, NextStage,
          LastOf, Hook
  <2> QED
    BY <2>1, <2>2
<1>4. CASE Act
  BY <1>4
  DEF PipelineInv, PipelineTypeOK, LastHook, Entered, HooksAlternate, Opens, Follows,
      HooksAtEnd, Act
<1>5. CASE Exit
  <2>1. CASE next = NoStage
    BY <1>5, <2>1, PipelineAssumption
    DEF PipelineInv, PipelineTypeOK, LastHook, Entered, HooksAlternate, Opens, Follows,
        HooksAtEnd, Exit
  <2>2. CASE next # NoStage /\ id[next] = id[stage]
    BY <1>5, <2>2
    DEF PipelineInv, PipelineTypeOK, LastHook, Announced, Entered, HooksAlternate, Opens,
        Follows, HooksAtEnd, Exit, Changes
  <2>3. CASE next # NoStage /\ id[next] # id[stage]
    <3> DEFINE h == Hook("exit", stage, id[next])
    <3>1. h \in Hooks /\ hooks' = Append(hooks, h) /\ id' = id /\ hooks # <<>>
          /\ Follows(Last(hooks), h)
      BY <1>1, <1>5, <2>3
      DEF PipelineInv, PipelineTypeOK, LastHook, Entered, Exit, Changes, Hook, Hooks, Follows
    <3>2. hooks' \in Seq(Hooks) /\ hooks' # <<>> /\ Last(hooks') = h /\ HooksAlternate'
      BY <3>1, AppendHook DEF PipelineInv, PipelineTypeOK
    <3> QED
      BY <1>5, <2>3, <3>2
      DEF PipelineInv, PipelineTypeOK, LastHook, Announced, Entered, HooksAtEnd, Exit, Hook
  <2> QED
    BY <2>1, <2>2, <2>3
<1>6. CASE Return
  <2>1. PipelineTypeOK' /\ LastHook' /\ HooksAlternate'
    BY <1>6
    DEF PipelineInv, PipelineTypeOK, LastHook, HooksAlternate, Opens, Follows, Return
  <2>2. HooksAtEnd'
    BY <1>6, PipelineAssumption
    DEF PipelineInv, PipelineTypeOK, LastHook, Announced, HooksAtEnd, Return
  <2> QED
    BY <2>1, <2>2 DEF PipelineInv
<1> QED
  BY <1>2, <1>3, <1>4, <1>5, <1>6 DEF Next

-----------------------------------------------------------------------------
(***************************************************************************)
(* The events of the service.  The channel has one slot, and a disabled    *)
(* Emit has none: what is delivered is then a matter of each step.         *)
(***************************************************************************)

Senders  == {"service", "stopper"}
Messages == [by : Senders, event : E!Events]

EmitTypeOK ==
  /\ enabled \in BOOLEAN
  /\ channel \in Seq(Messages) /\ Len(channel) <= 1
  /\ sending \in [Senders -> E!Events \cup {NoEvent}]
  /\ called \in [Senders -> Seq(E!Events)]
  /\ read \in [Senders -> Seq(E!Events)]

EmitInv ==
  /\ EmitTypeOK
  /\ ~enabled => channel = <<>>
  /\ E!Delivered

LEMMA InitEmit == ASSUME NEW on \in BOOLEAN, E!New(on) PROVE EmitInv
<1>1. <<>> \in Seq(Messages) /\ Len(<<>>) = 0 /\ <<>> \in Seq(E!Events)
  BY EmptySeq
<1>2. EmitTypeOK
  BY <1>1 DEF E!New, EmitTypeOK, Senders
<1>3. ASSUME NEW e \in Senders
      PROVE  read[e] \o E!InSlot(e) \o E!InFlight(e) = <<>> /\ called[e] = <<>>
  <2>1. read[e] = <<>> /\ E!InSlot(e) = <<>> /\ E!InFlight(e) = <<>> /\ called[e] = <<>>
    BY <1>3 DEF E!New, E!InSlot, E!InFlight, Senders
  <2> QED
    BY <1>1, <2>1, ConcatEmptySeq
<1> QED
  BY <1>2, <1>3 DEF EmitInv, E!Delivered, E!New, Senders

LEMMA SlotType ==
  ASSUME EmitTypeOK, NEW f \in Senders
  PROVE  E!InSlot(f) \in Seq(E!Events)
<1>1. CASE channel = <<>>
  BY <1>1, EmptySeq DEF E!InSlot
<1>2. CASE channel # <<>>
  <2>1. Head(channel) \in Messages
    BY <1>2, HeadTailProperties DEF EmitTypeOK
  <2>2. Head(channel).event \in E!Events
    BY <2>1 DEF Messages
  <2> QED
    BY <2>2, EmptySeq DEF E!InSlot
<1> QED
  BY <1>1, <1>2

(* A method is called by an emitter that has nothing else to send.         *)
LEMMA EmitStep ==
  ASSUME EmitInv, NEW e \in Senders, NEW evt \in E!Events, E!EmitIfEnabled(e, evt)
  PROVE  EmitInv'
<1>1. EmitTypeOK'
  <2>1. called[e] \in Seq(E!Events)
    BY DEF EmitInv, EmitTypeOK
  <2>2. Append(called[e], evt) \in Seq(E!Events)
    BY <2>1, AppendProperties
  <2> QED
    BY <2>2 DEF EmitInv, EmitTypeOK, E!EmitIfEnabled
<1>2. ASSUME NEW f \in Senders
      PROVE  (read[f] \o E!InSlot(f) \o E!InFlight(f) = IF enabled THEN called[f] ELSE <<>>)'
  <2> DEFINE there == read[f] \o E!InSlot(f)
  <2>1. there \o E!InFlight(f) = IF enabled THEN called[f] ELSE <<>>
    BY <1>2 DEF EmitInv, E!Delivered, Senders
  <2>2. there' = there /\ enabled' = enabled
    BY DEF E!EmitIfEnabled, E!InSlot
  <2>3. CASE f = e /\ enabled
    <3>1. E!InFlight(f) = <<>> /\ E!InFlight(f)' = <<evt>> /\ called'[f] = Append(called[f], evt)
      BY <2>3, ObservedAssumption
      DEF EmitInv, EmitTypeOK, E!EmitIfEnabled, E!Sends, E!InFlight
    <3>2. there \in Seq(E!Events) /\ called[f] \in Seq(E!Events)
      <4>1. read[f] \in Seq(E!Events) /\ called[f] \in Seq(E!Events)
        BY DEF EmitInv, EmitTypeOK
      <4> QED
        BY <4>1, SlotType, ConcatProperties DEF EmitInv
    <3>3. there = called[f]
      BY <2>1, <2>3, <3>1, <3>2, ConcatEmptySeq
    <3>4. Append(called[f], evt) = called[f] \o <<evt>>
      BY <3>2, AppendIsConcat
    <3> QED
      BY <2>2, <2>3, <3>1, <3>3, <3>4
  <2>4. CASE ~(f = e /\ enabled)
    <3>1. E!InFlight(f)' = E!InFlight(f) /\ (enabled => called'[f] = called[f])
      BY <2>4 DEF EmitInv, EmitTypeOK, E!EmitIfEnabled, E!Sends, E!InFlight
    <3> QED
      BY <2>1, <2>2, <3>1
  <2> QED
    BY <2>3, <2>4
<1> QED
  BY <1>1, <1>2 DEF EmitInv, E!Delivered, E!EmitIfEnabled, Senders

(* The event goes into the empty slot.                                     *)
LEMMA SendStep ==
  ASSUME EmitInv, NEW e \in Senders, E!Send(e)
  PROVE  EmitInv'
<1> DEFINE m == [by |-> e, event |-> sending[e]]
<1>1. m \in Messages /\ enabled /\ channel' = Append(channel, m)
  BY DEF EmitInv, EmitTypeOK, E!Send, E!Sent, Messages
<1>2. channel = <<>> /\ <<>> \in Seq(Messages)
  <2>1. Len(channel) = 0
    BY LenProperties DEF EmitInv, EmitTypeOK, E!Send, E!Sent, E!Slots
  <2> QED
    BY <2>1, EmptySeq DEF EmitInv, EmitTypeOK
<1>3. /\ channel' \in Seq(Messages) /\ Len(channel') = 1 /\ channel' # <<>>
      /\ Head(channel') = m
  BY <1>1, <1>2, AppendProperties, HeadTailAppend, EmptySeq
<1>4. EmitTypeOK'
  BY <1>3 DEF EmitInv, EmitTypeOK, E!Send
<1>5. ASSUME NEW f \in Senders
      PROVE  read'[f] \o E!InSlot(f)' \o E!InFlight(f)' = called'[f]
  <2>1. read[f] \o <<>> \o E!InFlight(f) = called[f]
    BY <1>1, <1>2 DEF EmitInv, E!Delivered, E!InSlot, Senders
  <2>2. read[f] \in Seq(E!Events) /\ read'[f] = read[f] /\ called'[f] = called[f]
    BY DEF EmitInv, EmitTypeOK, E!Send
  <2>3. CASE f = e
    <3>1. E!InSlot(f)' = <<sending[f]>>
      BY <1>3, <2>3 DEF E!InSlot
    <3>2. E!InFlight(f) = <<sending[f]>> /\ E!InFlight(f)' = <<>>
      BY <2>3 DEF EmitInv, EmitTypeOK, E!Send, E!InFlight
    <3>3. <<sending[f]>> \in Seq(E!Events)
      BY <2>3 DEF EmitInv, EmitTypeOK, E!Send
    <3> QED
      BY <2>1, <2>2, <3>1, <3>2, <3>3, ConcatEmptySeq, ConcatProperties
  <2>4. CASE f # e
    <3>1. sending'[f] = sending[f] /\ m.by # f
      BY <2>4 DEF EmitInv, EmitTypeOK, E!Send
    <3>2. E!InSlot(f)' = <<>>
      BY <1>3, <3>1 DEF E!InSlot
    <3>3. E!InFlight(f)' = E!InFlight(f)
      BY <3>1 DEF E!InFlight
    <3> QED
      BY <2>1, <2>2, <3>2, <3>3
  <2> QED
    BY <2>3, <2>4
<1> QED
  BY <1>1, <1>4, <1>5 DEF EmitInv, E!Delivered, E!Send, Senders

(* What is in the slot is read; the slot is empty again.                   *)
LEMMA ReceiveStep ==
  ASSUME EmitInv, E!Receive
  PROVE  EmitInv'
<1> DEFINE m == Head(channel)
<1>1. channel # <<>> /\ channel \in Seq(Messages) /\ enabled
  BY DEF EmitInv, EmitTypeOK, E!Receive
<1>2. m \in Messages /\ Tail(channel) \in Seq(Messages) /\ Len(Tail(channel)) = 0
  <2>1. Len(channel) = 1
    <3>1. Len(channel) \in Nat \ {0}
      BY <1>1, EmptySeq
    <3>2. Len(channel) <= 1
      BY DEF EmitInv, EmitTypeOK
    <3>3. \A n \in Nat \ {0} : n <= 1 => n = 1
      OBVIOUS
    <3> QED
      BY <3>1, <3>2, <3>3
  <2>2. Len(Tail(channel)) = Len(channel) - 1
    BY <1>1, HeadTailProperties
  <2> QED
    BY <1>1, <2>1, <2>2, HeadTailProperties
<1>3. m.by \in Senders /\ m.event \in E!Events /\ channel' = <<>>
  BY <1>2, EmptySeq DEF Messages, E!Receive
<1>4. read[m.by] \in Seq(E!Events)
  BY <1>3 DEF EmitInv, EmitTypeOK
<1>5. EmitTypeOK'
  <2>1. Append(read[m.by], m.event) \in Seq(E!Events)
    BY <1>3, <1>4, AppendProperties
  <2>2. read' \in [Senders -> Seq(E!Events)]
    BY <2>1 DEF EmitInv, EmitTypeOK, E!Receive
  <2> QED
    BY <1>2, <2>2 DEF EmitInv, EmitTypeOK, E!Receive
<1>6. ASSUME NEW f \in Senders
      PROVE  read'[f] \o E!InSlot(f)' \o E!InFlight(f)' = called'[f]
  <2>1. read[f] \o E!InSlot(f) \o E!InFlight(f) = called[f]
    BY <1>1 DEF EmitInv, E!Delivered, Senders
  <2>2. E!InSlot(f)' = <<>> /\ E!InFlight(f)' = E!InFlight(f) /\ called' = called
    BY <1>3 DEF E!Receive, E!InSlot, E!InFlight
  <2>3. read'[f] = read[f] \o E!InSlot(f) /\ read'[f] \in Seq(E!Events)
    <3>1. CASE f = m.by
      BY <1>1, <1>3, <1>4, <3>1, AppendIsConcat, AppendProperties
      DEF EmitInv, EmitTypeOK, E!Receive, E!InSlot
    <3>2. CASE f # m.by
      BY <1>3, <3>2, ConcatEmptySeq DEF EmitInv, EmitTypeOK, E!Receive, E!InSlot
    <3> QED
      BY <3>1, <3>2
  <2> QED
    BY <2>1, <2>2, <2>3, ConcatEmptySeq
<1> QED
  BY <1>1, <1>5, <1>6 DEF EmitInv, E!Delivered, E!Receive, Senders

(* A step that leaves the Emit alone, but for its reader.                  *)
LEMMA EmitFrame ==
  ASSUME EmitInv, UNCHANGED <<enabled, channel, sending, called, read>>
  PROVE  EmitInv'
BY DEF EmitInv, EmitTypeOK, E!Delivered, E!InSlot, E!InFlight

-----------------------------------------------------------------------------
ObservedInv == PipelineInv /\ EmitInv

LEMMA InitObserved == ObservedInit => ObservedInv
BY InitPipeline, InitEmit DEF ObservedInit, ObservedInv

LEMMA NextObserved == ObservedInv /\ [ObservedNext]_observedVars => ObservedInv'
<1> SUFFICES ASSUME ObservedInv, [ObservedNext]_observedVars PROVE ObservedInv'
  OBVIOUS
<1> USE DEF ObservedInv, Emits
<1>1. PipelineInv'
  <2>1. CASE PipelineStep
    BY <2>1, NextPipeline DEF PipelineStep
  <2>2. CASE UNCHANGED vars
    BY <2>2
    DEF vars, PipelineInv, PipelineTypeOK, LastHook, Announced, Entered, HooksAlternate,
        Opens, Follows, HooksAtEnd
  <2>3. PipelineStep \/ UNCHANGED vars
    BY DEF ObservedNext, Service, Prepare, Prepared, Finish, Shutdown, Channel, AtRest,
           observedVars
  <2> QED
    BY <2>1, <2>2, <2>3
<1>2. EmitInv'
  <2>1. /\ \A d \in Hooks : E!RunLoopEvent(d) \in E!Events
        /\ \A err \in {"nil", "failed"} : E!RunFinished(err) \in E!Events
        /\ E!RunInit \in E!Events /\ E!Running \in E!Events
        /\ E!RunInitError("failed") \in E!Events /\ E!ShutdownRequest \in E!Events
    BY DEF E!Events, E!Event, E!RunLoopEvent, E!RunFinished, E!RunInit, E!Running,
           E!RunInitError, E!ShutdownRequest
  <2>2. CASE Prepare \/ Prepared \/ Finish \/ Shutdown
    BY <2>1, <2>2, EmitStep, EmitFrame
    DEF Prepare, Prepared, Finish, Shutdown, Senders
  <2>3. CASE PipelineStep
    <3>1. CASE hooks' = hooks
      BY <2>3, <3>1, EmitFrame DEF PipelineStep, emitVars
    <3>2. CASE hooks' # hooks
      <4>1. hooks' \in Seq(Hooks) /\ hooks' # <<>>
        BY <1>1, <2>3, <3>2
        DEF PipelineInv, PipelineTypeOK, PipelineStep, Next, Enter, NextStage, Act, Exit,
            Return
      <4>2. Last(hooks') \in Hooks
        BY <4>1, ElementOfSeq, LenProperties, EmptySeq DEF Last
      <4> QED
        BY <2>1, <2>3, <3>2, <4>2, EmitStep DEF PipelineStep, Senders
    <3> QED
      BY <3>1, <3>2
  <2>4. CASE \E e \in Senders : Channel(E!Send(e))
    BY <2>4, SendStep DEF Channel
  <2>5. CASE Channel(E!Receive)
    BY <2>5, ReceiveStep DEF Channel
  <2>6. CASE Channel(E!Leave) \/ AtRest \/ UNCHANGED observedVars
    BY <2>6, EmitFrame DEF Channel, E!Leave, AtRest, observedVars, emitVars
  <2> QED
    BY <2>2, <2>3, <2>4, <2>5, <2>6 DEF ObservedNext, Service, Senders
<1> QED
  BY <1>1, <1>2

\* The invariant of a service that runs a pipeline and emits its events.
THEOREM ObservedInductive == ObservedSpec => []ObservedInv
BY InitObserved, NextObserved, PTL DEF ObservedSpec

\* OnEnter and OnExit pair up, whatever ids the stages have, whatever they
\* name as the next one and however many steps they take (stage.go:33-54).
THEOREM HooksPairUp == ObservedSpec => []HooksPaired
<1>1. ObservedInv => HooksPaired
  BY DEF ObservedInv, PipelineInv, LastHook, Entered, HooksPaired, ActsInside
<1> QED
  BY <1>1, ObservedInductive, PTL

\* What is emitted arrives once and in order, from both goroutines and with a
\* reader that may leave at any time (emit.go:61-76).
THEOREM EventsArrive == ObservedSpec => []EventsDelivered
<1>1. ObservedInv => EventsDelivered
  BY DEF ObservedInv, EmitInv, EventsDelivered
<1> QED
  BY <1>1, ObservedInductive, PTL
=============================================================================
