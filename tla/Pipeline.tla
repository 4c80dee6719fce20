-------------------------------- MODULE Pipeline -------------------------------
(***************************************************************************)
(* pipeline.Run: stages act one after the other, each naming the next one. *)
(* A stage is told by OnEnter and OnExit when the id of the stage changes. *)
(* Stages are external: Act may return any stage and control.  Arguments   *)
(* are passed on unseen and are left out.                                  *)
(***************************************************************************)
EXTENDS Naturals, Sequences, SequencesExt

CONSTANTS
  Stages,    \* values of the interface Stage
  Ids,       \* what their Id() returns: two of them may have the same
  NoStage,   \* the nil Stage
  MaxActs    \* bound: the stage that acts for the last time breaks

ASSUME PipelineAssumption == NoStage \notin Stages /\ MaxActs \in Nat \ {0}

VARIABLES
  id,         \* Id() of each stage
  pc,         \* next statement of Run
  stage,      \* stage: the one that acts
  next,       \* result.Stage
  control,    \* result.Control
  last,       \* lastStageId
  acts,       \* number of calls of Act
  hooks       \* history: the hooks called, on which stage and with which id

vars == <<id, pc, stage, next, control, last, acts, hooks>>

Hook(kind, s, other) == [kind |-> kind, on |-> s, other |-> other]

Init ==
  /\ id \in [Stages -> Ids]
  /\ pc = "init" /\ control = "continue"
  /\ next \in Stages \cup {NoStage} /\ stage = NoStage
  /\ last = "" /\ acts = 0 /\ hooks = <<>>

\* Without a first stage there is nothing to run; otherwise it is entered.
Enter ==
  /\ pc = "init"
  /\ \/ /\ next = NoStage
        /\ control' = "break" /\ pc' = "returned"
        /\ UNCHANGED <<last, hooks>>
     \/ /\ next # NoStage
        /\ last' = id[next]
        /\ hooks' = Append(hooks, Hook("enter", next, id[next]))
        /\ pc' = "loop"
        /\ UNCHANGED control
  /\ UNCHANGED <<id, stage, next, acts>>

LastKept(s) == last     \* a bug: lastStageId stays what it was
LastOf(s)   == id[s]

\* The head of the loop: a stage with another id is entered.
NextStage ==
  /\ pc = "loop" /\ control = "continue"
  /\ stage' = next
  /\ last' = LastOf(next)
  /\ hooks' = IF last # id[next] THEN Append(hooks, Hook("enter", next, last)) ELSE hooks
  /\ pc' = "act"
  /\ UNCHANGED <<id, next, control, acts>>

\* stage.Act, which returns any stage; a nil one ends the loop.
Act ==
  /\ pc = "act"
  /\ acts' = acts + 1
  /\ next' \in Stages \cup {NoStage}
  /\ control' \in (IF acts' < MaxActs THEN {"continue", "break"} ELSE {"break"})
  /\ pc' = "exit"
  /\ UNCHANGED <<id, stage, last, hooks>>

Always(s, t)  == TRUE    \* a bug: OnExit after every Act
Changes(s, t) == id[t] # id[s]

Exit ==
  /\ pc = "exit"
  /\ \/ /\ next = NoStage
        /\ control' = "break" /\ pc' = "returned"
        /\ UNCHANGED hooks
     \/ /\ next # NoStage
        /\ hooks' = IF Changes(stage, next) THEN Append(hooks, Hook("exit", stage, id[next]))
                                            ELSE hooks
        /\ pc' = "loop"
        /\ UNCHANGED control
  /\ UNCHANGED <<id, stage, next, last, acts>>

Return ==
  /\ pc = "loop" /\ control # "continue"
  /\ pc' = "returned"
  /\ UNCHANGED <<id, stage, next, control, last, acts, hooks>>

Next == Enter \/ NextStage \/ Act \/ Exit \/ Return

-----------------------------------------------------------------------------
\* How a run opens, and which hook h may follow the hook g.
Opens(h) == h.kind = "enter" /\ h.other = id[h.on]
Follows(g, h) ==
  /\ h.kind # g.kind
  /\ h.kind = "exit" => id[h.on] = id[g.on]
  /\ h.kind = "enter" => id[h.on] = g.other /\ h.other = id[g.on]

\* Enters and exits alternate, by id: what is entered is what was announced
\* to the stage that was left, and it is told where from; only the first one
\* is told its own id.
HooksAlternate ==
  \A k \in DOMAIN hooks :
    IF k = 1 THEN Opens(hooks[k]) ELSE Follows(hooks[k - 1], hooks[k])

\* A stage acts only between an OnEnter and an OnExit of its id, whether or
\* not it is the stage that was entered.
ActsInside ==
  pc = "act" => Last(hooks).kind = "enter" /\ id[Last(hooks).on] = id[stage]

\* Run returns with the last stage not exited if that named no stage, or one
\* of its own id, and otherwise with the one it named announced and never
\* entered.
HooksAtEnd ==
  pc = "returned" =>
    /\ control = "break"
    /\ hooks = <<>> <=> acts = 0
    /\ hooks # <<>> =>
         (Last(hooks).kind = "exit" <=> next # NoStage /\ id[next] # id[stage])

\* The hooks of a run pair up from its start to its end, whatever ids the
\* stages have and in whichever way they end (stage.go:33-54).
HooksPaired == HooksAlternate /\ ActsInside /\ HooksAtEnd
===============================================================================
