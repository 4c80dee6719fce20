---------------------------- MODULE ServerProofs ----------------------------
(***************************************************************************)
(* Proofs about Server, for any number of callers of Shutdown and of       *)
(* requests in progress.                                                   *)
(***************************************************************************)
EXTENDS Server, TLAPS

-----------------------------------------------------------------------------
(* The inductive invariant, one part per hazard.                           *)

BeforeSpawn == {"prepare", "publish", "publishing", "spawn"}

\* Run and its goroutine keep in step, and a goroutine that ended well was
\* told to: "closed" is only ever Serve's answer to a Shutdown.
RunInv ==
  /\ pc \in BeforeSpawn => serve = "none" /\ shErr = "nil"
  /\ pc \in {"select", "shutdown", "collect"} => serve \in {"listen", "accepting", "sending"}
  /\ pc = "returned" => serve \in {"none", "sent"}
  /\ pc \in {"shutdown", "collect"} => inShutdown
  /\ serve \in {"none", "listen", "accepting"} => serveErr = "nil"
  /\ serve \in {"sending", "sent"} => serveErr # "nil"
  /\ serveErr = "closed" => inShutdown

\* Once drained, Serve is past accepting or will find that it must not start.
DrainInv == drained => active = 0 /\ serve # "accepting" /\ inShutdown

\* Nobody is inside Shutdown before the field is set, and a torn field has
\* its writer: Run, or a Shutdown that clears it.
FieldInv ==
  /\ pc \in {"prepare", "publish"} => field = "nil"
  /\ pc = "publishing" => field = "torn"
  /\ pc \in {"prepare", "publish", "publishing"} => \A c \in Callers : cpc[c] = "out"
  /\ field = "torn" => pc = "publishing" \/ \E c \in Callers : cpc[c] = "clearing"
  /\ \A c \in Callers : cpc[c] # "out" => inShutdown
  /\ CrashNeedsOverlap

IInv == TypeOK /\ RunInv /\ FailureReported /\ DrainInv /\ FieldInv

-----------------------------------------------------------------------------
LEMMA InitInv == Init => IInv
<1> USE ServerAssumption DEF Init
<1> SUFFICES ASSUME Init PROVE IInv
  OBVIOUS
<1>1. TypeOK
  <2>1. inShutdown \in BOOLEAN /\ drained \in BOOLEAN /\ overlap \in BOOLEAN
    BY Zenon
  <2> QED
    BY <2>1 DEF TypeOK
<1>2. RunInv
  BY DEF RunInv
<1>3. FailureReported /\ DrainInv
  BY DEF FailureReported, DrainInv
<1>4. FieldInv
  BY DEF FieldInv, CrashNeedsOverlap
<1> QED
  BY <1>1, <1>2, <1>3, <1>4 DEF IInv

LEMMA NextType ==
  ASSUME TypeOK, [Next]_vars
  PROVE  TypeOK'
<1> USE ServerAssumption DEF TypeOK, Up, vars, runVars, serveVars, callerVars
<1>1. CASE PrepareListener
  <2>1. pc' \in {"publish", "returned"} /\ result' \subseteq {"failed"} \cup CtxErr
    BY <1>1 DEF PrepareListener
  <2>2. UNCHANGED <<proc, ctx, shErr, field, inShutdown, serveVars, active, callerVars>>
    BY <1>1 DEF PrepareListener
  <2> QED
    BY <2>1, <2>2
<1>2. CASE Publish
  BY <1>2 DEF Publish
<1>3. CASE SpawnServe
  BY <1>3 DEF SpawnServe
<1>4. CASE ReceiveErr
  BY <1>4 DEF ReceiveErr, Result
<1>5. CASE SelectDone
  BY <1>5 DEF SelectDone, BeginShutdown
<1>6. CASE ShutdownOver
  BY <1>6 DEF ShutdownOver, AfterShutdown
<1>7. CASE Listen
  BY <1>7 DEF Listen, ServeReturns
<1>8. CASE AcceptEnds
  BY <1>8 DEF AcceptEnds, ServeReturns
<1>9. CASE RequestBegins
  BY <1>9 DEF RequestBegins
<1>10. CASE RequestEnds
  BY <1>10 DEF RequestEnds
<1>11. ASSUME NEW c \in Callers, EnterShutdown(c)
      PROVE  TypeOK'
  <2>1. proc' \in {"up", "panicked"} /\ inShutdown' \in BOOLEAN /\ overlap' \in BOOLEAN
    <3>1. overlap' \in BOOLEAN
      BY <1>11, Zenon DEF EnterShutdown
    <3>2. inShutdown' = TRUE \/ inShutdown' = inShutdown
      BY <1>11, Zenon DEF EnterShutdown
    <3>3. proc' \in {"up", "panicked"}
      BY <1>11 DEF EnterShutdown
    <3> QED
      BY <3>1, <3>2, <3>3
  <2>2. /\ cpc' \in [Callers -> {"out", "wait", "clear", "clearing"}]
        /\ cerr' \in [Callers -> CtxErr \cup {"nil"}]
    BY <1>11 DEF EnterShutdown
  <2> QED
    BY <1>11, <2>1, <2>2 DEF EnterShutdown
<1>12. ASSUME NEW c \in Callers, CallerCtxDone(c)
      PROVE  TypeOK'
  BY <1>12 DEF CallerCtxDone
<1>13. ASSUME NEW c \in Callers, ShutdownReturns(c)
      PROVE  TypeOK'
  BY <1>13 DEF ShutdownReturns
<1>14. ASSUME NEW c \in Callers, Clear(c)
      PROVE  TypeOK'
  BY <1>14 DEF Clear
<1>15. CASE CtxDone
  BY <1>15 DEF CtxDone
<1>16. CASE UNCHANGED vars
  BY <1>16
<1> QED
  BY <1>1, <1>2, <1>3, <1>4, <1>5, <1>6, <1>7, <1>8, <1>9, <1>10, <1>11, <1>12,
     <1>13, <1>14, <1>15, <1>16
     DEF Next, RunStep, Rest

LEMMA NextRun ==
  ASSUME TypeOK, RunInv, FieldInv, [Next]_vars
  PROVE  RunInv'
<1> USE ServerAssumption DEF TypeOK, Up, vars, runVars, serveVars, callerVars
<1>1. CASE PrepareListener
  BY <1>1 DEF PrepareListener, RunInv, BeforeSpawn
<1>2. CASE Publish
  BY <1>2 DEF Publish, RunInv, BeforeSpawn
<1>3. CASE SpawnServe
  BY <1>3 DEF SpawnServe, RunInv, BeforeSpawn
<1>4. CASE ReceiveErr
  BY <1>4 DEF ReceiveErr, RunInv, BeforeSpawn
<1>5. CASE SelectDone
  BY <1>5 DEF SelectDone, BeginShutdown, RunInv, BeforeSpawn
<1>6. CASE ShutdownOver
  BY <1>6 DEF ShutdownOver, AfterShutdown, RunInv, BeforeSpawn
<1>7. CASE Listen
  BY <1>7 DEF Listen, ServeReturns, RunInv
<1>8. CASE AcceptEnds
  BY <1>8 DEF AcceptEnds, ServeReturns, RunInv
<1>9. CASE RequestBegins
  BY <1>9 DEF RequestBegins, RunInv
<1>10. CASE RequestEnds
  BY <1>10 DEF RequestEnds, RunInv
<1>11. ASSUME NEW c \in Callers, EnterShutdown(c)
      PROVE  RunInv'
  BY <1>11 DEF EnterShutdown, RunInv
<1>12. ASSUME NEW c \in Callers, CallerCtxDone(c)
      PROVE  RunInv'
  BY <1>12 DEF CallerCtxDone, RunInv
<1>13. ASSUME NEW c \in Callers, ShutdownReturns(c)
      PROVE  RunInv'
  BY <1>13 DEF ShutdownReturns, RunInv
<1>14. ASSUME NEW c \in Callers, Clear(c)
      PROVE  RunInv'
  BY <1>14 DEF Clear, RunInv
<1>15. CASE CtxDone
  BY <1>15 DEF CtxDone, RunInv
<1>16. CASE UNCHANGED vars
  BY <1>16 DEF RunInv
<1> QED
  BY <1>1, <1>2, <1>3, <1>4, <1>5, <1>6, <1>7, <1>8, <1>9, <1>10, <1>11, <1>12,
     <1>13, <1>14, <1>15, <1>16
     DEF Next, RunStep, Rest

LEMMA NextFailure ==
  ASSUME TypeOK, RunInv, FailureReported, [Next]_vars
  PROVE  FailureReported'
<1> USE ServerAssumption DEF TypeOK, Up, vars, runVars, serveVars, callerVars
<1>1. CASE PrepareListener
  BY <1>1 DEF PrepareListener, FailureReported
<1>2. CASE Publish
  BY <1>2 DEF Publish, FailureReported
<1>3. CASE SpawnServe
  BY <1>3 DEF SpawnServe, FailureReported
<1>4. CASE ReceiveErr
  BY <1>4 DEF ReceiveErr, Result, RunInv, FailureReported
<1>5. CASE SelectDone
  BY <1>5 DEF SelectDone, FailureReported
<1>6. CASE ShutdownOver
  BY <1>6 DEF ShutdownOver, AfterShutdown, FailureReported
<1>7. CASE Listen
  BY <1>7 DEF Listen, RunInv, FailureReported
<1>8. CASE AcceptEnds
  BY <1>8 DEF AcceptEnds, RunInv, FailureReported
<1>9. CASE RequestBegins
  BY <1>9 DEF RequestBegins, FailureReported
<1>10. CASE RequestEnds
  BY <1>10 DEF RequestEnds, FailureReported
<1>11. ASSUME NEW c \in Callers, EnterShutdown(c)
      PROVE  FailureReported'
  BY <1>11 DEF EnterShutdown, FailureReported
<1>12. ASSUME NEW c \in Callers, CallerCtxDone(c)
      PROVE  FailureReported'
  BY <1>12 DEF CallerCtxDone, FailureReported
<1>13. ASSUME NEW c \in Callers, ShutdownReturns(c)
      PROVE  FailureReported'
  BY <1>13 DEF ShutdownReturns, FailureReported
<1>14. ASSUME NEW c \in Callers, Clear(c)
      PROVE  FailureReported'
  BY <1>14 DEF Clear, FailureReported
<1>15. CASE CtxDone
  BY <1>15 DEF CtxDone, FailureReported
<1>16. CASE UNCHANGED vars
  BY <1>16 DEF FailureReported
<1> QED
  BY <1>1, <1>2, <1>3, <1>4, <1>5, <1>6, <1>7, <1>8, <1>9, <1>10, <1>11, <1>12,
     <1>13, <1>14, <1>15, <1>16
     DEF Next, RunStep, Rest

LEMMA NextDrain ==
  ASSUME TypeOK, DrainInv, FieldInv, [Next]_vars
  PROVE  DrainInv'
<1> USE ServerAssumption DEF TypeOK, Up, vars, runVars, serveVars, callerVars
<1>1. CASE PrepareListener
  BY <1>1 DEF PrepareListener, DrainInv
<1>2. CASE Publish
  BY <1>2 DEF Publish, DrainInv
<1>3. CASE SpawnServe
  BY <1>3 DEF SpawnServe, DrainInv
<1>4. CASE ReceiveErr
  BY <1>4 DEF ReceiveErr, DrainInv
<1>5. CASE SelectDone
  BY <1>5 DEF SelectDone, BeginShutdown, DrainInv
<1>6. CASE ShutdownOver
  BY <1>6 DEF ShutdownOver, DrainInv
<1>7. CASE Listen
  BY <1>7 DEF Listen, ServeReturns, DrainInv
<1>8. CASE AcceptEnds
  BY <1>8 DEF AcceptEnds, DrainInv
<1>9. CASE RequestBegins
  BY <1>9 DEF RequestBegins, DrainInv
<1>10. CASE RequestEnds
  BY <1>10 DEF RequestEnds, DrainInv
<1>11. ASSUME NEW c \in Callers, EnterShutdown(c)
      PROVE  DrainInv'
  <2>1. inShutdown => inShutdown'
    BY <1>11, Zenon DEF EnterShutdown
  <2> QED
    BY <1>11, <2>1 DEF EnterShutdown, DrainInv
<1>12. ASSUME NEW c \in Callers, CallerCtxDone(c)
      PROVE  DrainInv'
  BY <1>12 DEF CallerCtxDone, DrainInv
<1>13. ASSUME NEW c \in Callers, ShutdownReturns(c)
      PROVE  DrainInv'
  BY <1>13 DEF ShutdownReturns, ShutdownNil, DrainInv, FieldInv
<1>14. ASSUME NEW c \in Callers, Clear(c)
      PROVE  DrainInv'
  BY <1>14 DEF Clear, DrainInv
<1>15. CASE CtxDone
  BY <1>15 DEF CtxDone, DrainInv
<1>16. CASE UNCHANGED vars
  BY <1>16 DEF DrainInv
<1> QED
  BY <1>1, <1>2, <1>3, <1>4, <1>5, <1>6, <1>7, <1>8, <1>9, <1>10, <1>11, <1>12,
     <1>13, <1>14, <1>15, <1>16
     DEF Next, RunStep, Rest

LEMMA NextField ==
  ASSUME TypeOK, FieldInv, [Next]_vars
  PROVE  FieldInv'
<1> USE ServerAssumption DEF TypeOK, Up, vars, runVars, serveVars, callerVars
<1>1. CASE PrepareListener
  BY <1>1 DEF PrepareListener, FieldInv, CrashNeedsOverlap
<1>2. CASE Publish
  BY <1>2 DEF Publish, FieldInv, CrashNeedsOverlap
<1>3. CASE SpawnServe
  BY <1>3 DEF SpawnServe, FieldInv, CrashNeedsOverlap
<1>4. CASE ReceiveErr
  BY <1>4 DEF ReceiveErr, FieldInv, CrashNeedsOverlap
<1>5. CASE SelectDone
  BY <1>5 DEF SelectDone, BeginShutdown, FieldInv, CrashNeedsOverlap
<1>6. CASE ShutdownOver
  BY <1>6 DEF ShutdownOver, AfterShutdown, FieldInv, CrashNeedsOverlap
<1>7. CASE Listen
  BY <1>7 DEF Listen, FieldInv, CrashNeedsOverlap
<1>8. CASE AcceptEnds
  BY <1>8 DEF AcceptEnds, FieldInv, CrashNeedsOverlap
<1>9. CASE RequestBegins
  BY <1>9 DEF RequestBegins, FieldInv, CrashNeedsOverlap
<1>10. CASE RequestEnds
  BY <1>10 DEF RequestEnds, FieldInv, CrashNeedsOverlap
<1>11. ASSUME NEW c \in Callers, EnterShutdown(c)
      PROVE  FieldInv'
  <2>1. CASE field = "set"
    <3>1. inShutdown' /\ proc' = proc /\ cpc' = [cpc EXCEPT ![c] = "wait"]
      BY <1>11, <2>1, Zenon DEF EnterShutdown
    <3>2. pc \notin {"prepare", "publish", "publishing"}
      BY <1>11, <2>1 DEF FieldInv
    <3> QED
      BY <1>11, <2>1, <3>1, <3>2 DEF EnterShutdown, FieldInv, CrashNeedsOverlap
  <2>2. CASE field # "set"
    <3>1. field = "torn"
      BY <1>11, <2>2 DEF EnterShutdown, ListenerFound
    <3>2. pc = "publishing" \/ InsideShutdown(Callers \ {c})
      BY <1>11, <3>1 DEF EnterShutdown, FieldInv, InsideShutdown
    <3>3. overlap'
      BY <1>11, <3>2, Zenon DEF EnterShutdown
    <3>4. UNCHANGED <<pc, field, cpc, inShutdown>>
      BY <1>11, <2>2 DEF EnterShutdown
    <3> QED
      BY <3>3, <3>4 DEF FieldInv, CrashNeedsOverlap
  <2> QED
    BY <2>1, <2>2
<1>12. ASSUME NEW c \in Callers, CallerCtxDone(c)
      PROVE  FieldInv'
  BY <1>12 DEF CallerCtxDone, FieldInv, CrashNeedsOverlap
<1>13. ASSUME NEW c \in Callers, ShutdownReturns(c)
      PROVE  FieldInv'
  BY <1>13 DEF ShutdownReturns, FieldInv, CrashNeedsOverlap
<1>14. ASSUME NEW c \in Callers, Clear(c)
      PROVE  FieldInv'
  BY <1>14 DEF Clear, FieldInv, CrashNeedsOverlap
<1>15. CASE CtxDone
  BY <1>15 DEF CtxDone, FieldInv, CrashNeedsOverlap
<1>16. CASE UNCHANGED vars
  BY <1>16 DEF FieldInv, CrashNeedsOverlap
<1> QED
  BY <1>1, <1>2, <1>3, <1>4, <1>5, <1>6, <1>7, <1>8, <1>9, <1>10, <1>11, <1>12,
     <1>13, <1>14, <1>15, <1>16
     DEF Next, RunStep, Rest

LEMMA NextInv == IInv /\ [Next]_vars => IInv'
BY NextType, NextRun, NextFailure, NextDrain, NextField DEF IInv

\* The invariant holds in every state of the server, whatever the callers of
\* Shutdown, the requests and the contexts do.
THEOREM Inductive == Spec => []IInv
BY InitInv, NextInv, PTL DEF Spec

\* The state stays well typed.
THEOREM TypeCorrect == Spec => []TypeOK
BY Inductive, PTL DEF IInv

\* Run never returns ahead of the goroutine that serves.
THEOREM ServeJoined == Spec => []ServeIsOver
<1>1. IInv => ServeIsOver
  BY DEF IInv, RunInv, ServeIsOver
<1> QED
  BY <1>1, Inductive, PTL

\* A listener that failed is reported, and nil means that a shutdown began.
THEOREM FailuresKept == Spec => []FailureReported
BY Inductive, PTL DEF IInv

\* A drained server stays drained, for any number of concurrent Shutdowns.
THEOREM Drained == Spec => []StaysDrained
<1>1. IInv => StaysDrained
  BY DEF IInv, DrainInv, StaysDrained
<1> QED
  BY <1>1, Inductive, PTL

\* Without an overlap the unlocked field is harmless.
THEOREM NoCrashAlone == Spec => []CrashNeedsOverlap
BY Inductive, PTL DEF IInv, FieldInv
=============================================================================
