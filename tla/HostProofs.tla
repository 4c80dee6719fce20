---------------------------- MODULE HostProofs ----------------------------
(***************************************************************************)
(* Proofs about Host, for any number of calls of Run, of Shutdown callers  *)
(* and of queued signals.                                                  *)
(***************************************************************************)
EXTENDS Host, TLAPS

-----------------------------------------------------------------------------
(***************************************************************************)
(* The inductive invariant of a call of Run: what holds of call r before   *)
(* it starts, at each statement while it is active, and once it is over.   *)
(***************************************************************************)

PastNotify == {"spawnInstance", "select", "cancel", "join", "await"}
SigWorking == {"stop", "close", "wgDone", "exit"}
Supervised == {"spawnInstance", "select", "cancel"}

NotStarted(r) ==
  /\ ctx[r] = "nil" /\ sigpc[r] = "none" /\ sigBuf[r] = 0
  /\ inst[r] = "none" /\ outcome[r] = NoOutcome /\ r \notin registered

Over(r) ==
  /\ outcome[r].how # "none" /\ ctx[r] # "nil" /\ sigpc[r] = "exit"

Active(r) ==
  /\ pc \in {"makeCh", "resetOnce", "spawnSignals"} => sigpc[r] = "none"
  /\ pc \notin PastNotify => r \notin registered /\ sigBuf[r] = 0
  /\ pc = "notify" => sigpc[r] # "none"
  /\ pc \notin {"cancel", "join"} => outcome[r].how = "none"
  /\ outcome[r].how # "forced"
  /\ pc \in {"join", "await"} => ctx[r] # "nil"
  /\ pc = "await" => sigpc[r] = "exit"
  /\ sigpc[r] \in SigWorking /\ pc \notin PastNotify => ctx[r] # "nil"
  /\ pc \notin {"join", "await"} /\ (ctx[r] # "nil" \/ sigpc[r] \in SigWorking)
       => r \in asked
  /\ pc \in {"cancel", "join", "await"} /\ outcome[r].how = "none" => r \in asked
  /\ pc \in Supervised => r \in registered \cup asked

\* What holds of a call at any time: what its outcome says, and what it
\* leaves behind.
Always(r) ==
  /\ outcome[r].how = "instance" => inst[r] = "sent" /\ instErr[r] = outcome[r].err
  /\ outcome[r].how = "forced" => outcome[r].err # {} /\ r \in asked
  /\ r \in registered /\ sigpc[r] \in {"close", "wgDone", "exit"} => r \in early
  /\ r \in closed => r \in asked /\ r <= shutdownCh

\* The field holds the channel of the current call.
ChannelOfRun ==
  /\ pc = "makeCh" => run # 0 /\ shutdownCh = run - 1
  /\ pc # "makeCh" => shutdownCh = run
  /\ run = 0 => pc = "idle"
  /\ shutdownCh = 0 => \A c \in Callers : cpc[c] = "out"

Progress(r) ==
  /\ r > run => NotStarted(r)
  /\ r < run \/ (r = run /\ pc = "idle") => Over(r)
  /\ r = run /\ pc # "idle" => Active(r)

RunInv ==
  /\ ChannelOfRun
  /\ \A r \in Runs : Progress(r) /\ Always(r)

(***************************************************************************)
(* The inductive invariant of Shutdown, while no overlap has occurred: the *)
(* mutex has one holder, and the done flag agrees with the channel.        *)
(***************************************************************************)

\* A caller is inside the function or the deferred part of Once.Do.
HoldsLock(c) == cpc[c] \in {"locked", "store", "unlock"}

OnceInv ==
  /\ pc = "resetOnce" => shutdownCh \notin closed /\ \A c \in Callers : cpc[c] = "out"
  /\ once.locked <=> \E c \in Callers : HoldsLock(c)
  /\ \A c, d \in Callers : HoldsLock(c) /\ HoldsLock(d) => c = d
  /\ \A c \in Callers : /\ cpc[c] = "store" => shutdownCh \in closed
                        /\ cpc[c] = "unlock" => once.done
  /\ pc # "resetOnce" =>
       /\ once.done => shutdownCh \in closed
       /\ shutdownCh \in closed => once.done \/ \E c \in Callers : cpc[c] = "store"

ShutdownInv ==
  /\ ~raced => OnceInv
  /\ CrashNeedsRace

IInv == TypeOK /\ RunInv /\ ShutdownInv /\ FirstSignalCaught

-----------------------------------------------------------------------------
LEMMA InitInv == Init => IInv
<1> USE HostAssumption DEF Init, Runs, FreshOnce, NoOutcome
<1> SUFFICES ASSUME Init PROVE IInv
  OBVIOUS
<1>1. TypeOK
  <2>1. outcome \in [Runs -> [how : {"none", "instance", "forced"}, err : Err]]
    BY DEF Err
  <2>2. once \in [done : BOOLEAN, locked : BOOLEAN]
    OBVIOUS
  <2>3. raced \in BOOLEAN
    OBVIOUS
  <2> QED
    BY <2>1, <2>2, <2>3 DEF TypeOK, Err
<1>2. RunInv
  BY DEF RunInv, ChannelOfRun, Progress, NotStarted, Always
<1>3. ShutdownInv
  BY DEF ShutdownInv, OnceInv, HoldsLock, CrashNeedsRace
<1> QED
  BY <1>1, <1>2, <1>3 DEF IInv, FirstSignalCaught

(* What the two selects make of the instance and of the outcome of Run.     *)
LEMMA Received ==
  ASSUME TypeOK, RunInv, Select \/ Await
  PROVE  /\ run \in Runs
         /\ inst' \in [Runs -> {"none", "running", "sending", "sent"}]
         /\ outcome' \in [Runs -> [how : {"none", "instance", "forced"}, err : Err]]
         /\ \A r \in Runs \ {run} : inst'[r] = inst[r] /\ outcome'[r] = outcome[r]
         /\ \/ Select /\ UNCHANGED <<inst, outcome>>
            \/ /\ outcome'[run].how = "instance" /\ outcome'[run].err = instErr[run]
               /\ inst'[run] = "sent"
            \/ /\ Await /\ inst' = inst
               /\ outcome'[run].how = "forced" /\ outcome'[run].err # {}
<1>1. run \in Runs
  BY HostAssumption DEF Select, Await, RunInv, ChannelOfRun, TypeOK, Runs
<1>2. CASE ReceiveErr
  BY <1>1, <1>2 DEF ReceiveErr, TypeOK
<1>3. CASE Await /\ Timeout
  <2>1. ctx[run] \in CtxErr
    BY <1>1, <1>3 DEF Await, RunInv, Progress, Active, TypeOK
  <2> DEFINE e == {ctx[run]}
  <2>2. e \in Err /\ e # {}
    BY <2>1 DEF Err
  <2>3. outcome' = [outcome EXCEPT ![run] = [how |-> "forced", err |-> e]] /\ inst' = inst
    BY <1>3 DEF Timeout
  <2> HIDE DEF e
  <2> QED
    BY <1>1, <1>3, <2>2, <2>3 DEF TypeOK
<1>4. CASE Select /\ UNCHANGED <<inst, outcome>>
  BY <1>1, <1>4 DEF TypeOK
<1> QED
  BY <1>2, <1>3, <1>4 DEF Select, Await

LEMMA NextType ==
  ASSUME TypeOK, RunInv, [Next]_vars
  PROVE  TypeOK'
<1> USE HostAssumption DEF TypeOK, Up, Runs, vars, runVars, shutVars,
                           signalVars, instVars
<1>1. CASE StartRun
  BY <1>1 DEF StartRun
<1>2. CASE MakeShutdownCh
  BY <1>2 DEF MakeShutdownCh
<1>3. CASE ResetOnce
  BY <1>3 DEF ResetOnce, RenewOnce, FreshOnce
<1>4. CASE SpawnSignals
  BY <1>4 DEF SpawnSignals
<1>5. CASE Notify
  BY <1>5 DEF Notify, Registered, RunInv, ChannelOfRun
<1>6. CASE SpawnInstance
  BY <1>6 DEF SpawnInstance
<1>7. CASE Select
  BY <1>7, Received DEF Select
<1>8. CASE Cancel
  BY <1>8 DEF Cancel, CancelCtx
<1>9. CASE Join
  BY <1>9 DEF Join
<1>10. CASE Await
  BY <1>10, Received DEF Await
<1>11. ASSUME NEW k \in Runs, InstanceReturns(k)
      PROVE  TypeOK'
  BY <1>11 DEF InstanceReturns
<1>12. ASSUME NEW k \in Runs, TakeSignal(k)
      PROVE  TypeOK'
  BY <1>12 DEF TakeSignal
<1>13. ASSUME NEW k \in Runs, SeeCtxDone(k)
      PROVE  TypeOK'
  BY <1>13 DEF SeeCtxDone
<1>14. ASSUME NEW k \in Runs, StopSignals(k)
      PROVE  TypeOK'
  BY <1>14 DEF StopSignals, Unregister
<1>15. ASSUME NEW k \in Runs, CloseSignalCh(k)
      PROVE  TypeOK'
  BY <1>15 DEF CloseSignalCh
<1>16. ASSUME NEW k \in Runs, SignalsDone(k)
      PROVE  TypeOK'
  BY <1>16 DEF SignalsDone
<1>17. ASSUME NEW c \in Callers, EnterShutdown(c)
      PROVE  TypeOK'
  BY <1>17 DEF EnterShutdown
<1>18. ASSUME NEW c \in Callers, OnceFastPath(c)
      PROVE  TypeOK'
  BY <1>18 DEF OnceFastPath
<1>19. ASSUME NEW c \in Callers, OnceLock(c)
      PROVE  TypeOK'
  BY <1>19 DEF OnceLock
<1>20. ASSUME NEW c \in Callers, OnceBody(c)
      PROVE  TypeOK'
  <2>1. closed' \subseteq Runs /\ asked' \subseteq Runs
    <3>1. shutdownCh \in Runs
      BY <1>20 DEF OnceBody, RunInv, ChannelOfRun
    <3> QED
      BY <1>20, <3>1 DEF OnceBody
  <2>2. cpc' \in [Callers -> {"out", "do", "locked", "store", "unlock"}]
    BY <1>20 DEF OnceBody
  <2>3. proc' \in {"up", "panicked", "fatal", "killed", "exited"}
    BY <1>20 DEF OnceBody
  <2> QED
    BY <1>20, <2>1, <2>2, <2>3 DEF OnceBody
<1>21. ASSUME NEW c \in Callers, OnceFinish(c)
      PROVE  TypeOK'
  BY <1>21 DEF OnceFinish, Released
<1>22. CASE ParentDone
  BY <1>22 DEF ParentDone, RunInv, ChannelOfRun
<1>23. CASE OsSignal
  <2>1. sigBuf' \in [Runs -> 0 .. SigBuf]
    <3>1. CASE registered = {}
      BY <1>23, <3>1 DEF OsSignal
    <3>2. CASE registered # {}
      <4>1. \A n \in 0 .. SigBuf : Enqueued(n) \in 0 .. SigBuf
        BY DEF Enqueued
      <4>2. sigBuf' = [r \in Runs |-> IF r \in registered THEN Enqueued(sigBuf[r])
                                                          ELSE sigBuf[r]]
        BY <1>23, <3>2 DEF OsSignal
      <4> QED
        BY <4>1, <4>2
    <3> QED
      BY <3>1, <3>2
  <2>2. proc' \in {"up", "panicked", "fatal", "killed", "exited"}
    BY <1>23 DEF OsSignal
  <2> QED
    BY <1>23, <2>1, <2>2 DEF OsSignal
<1>24. CASE Dead
  BY <1>24 DEF Dead
<1>25. CASE UNCHANGED vars
  BY <1>25
<1> QED
  BY <1>1, <1>2, <1>3, <1>4, <1>5, <1>6, <1>7, <1>8, <1>9, <1>10, <1>11, <1>12,
     <1>13, <1>14, <1>15, <1>16, <1>17, <1>18, <1>19, <1>20, <1>21, <1>22,
     <1>23, <1>24, <1>25
     DEF Next, HostStep, RunStep, SignalStep, ShutdownStep

LEMMA NextSelect ==
  ASSUME TypeOK, RunInv, Select \/ Await
  PROVE  RunInv'
<1>1. run \in Runs /\ shutdownCh = run /\ (pc = "select" \/ pc = "await")
  BY Received DEF Select, Await, RunInv, ChannelOfRun
<1>2. UNCHANGED <<run, shutVars, ctx, signalVars, instErr, asked>>
  BY DEF Select, Await
<1>3. ChannelOfRun'
  BY <1>1, <1>2 DEF RunInv, ChannelOfRun, Select, Await, shutVars
<1>4. Progress(run) /\ Always(run) /\ Active(run)
  BY <1>1 DEF RunInv, Progress
<1>5. ASSUME NEW r \in Runs, r # run
      PROVE  Progress(r)' /\ Always(r)'
  <2>1. inst'[r] = inst[r] /\ outcome'[r] = outcome[r] /\ Progress(r) /\ Always(r)
    BY <1>5, Received DEF RunInv
  <2>2. Progress(r)'
    BY <1>2, <1>5, <2>1 DEF Progress, NotStarted, Over, signalVars
  <2> QED
    BY <1>2, <2>1, <2>2 DEF Always, shutVars, signalVars
<1>6. Active(run) /\ pc' = "cancel" => Active(run)'
  <2>1. CASE Select /\ UNCHANGED <<inst, outcome>>
    <3>1. StopNoticed => run \in asked
      <4>1. run \in closed => run \in asked
        BY <1>4 DEF Always
      <4>2. ctx[run] # "nil" \/ sigpc[run] \in SigWorking => run \in asked
        BY <1>4, <2>1 DEF Select, Active
      <4> QED
        BY <1>1, <4>1, <4>2 DEF StopNoticed, SignalChClosed, SigWorking
    <3>2. StopNoticed
      BY <1>1, <2>1 DEF Select, ReceiveErr, TypeOK
    <3> QED
      BY <1>2, <1>4, <2>1, <3>1, <3>2 DEF Select, Active, PastNotify, Supervised, signalVars
  <2>2. CASE outcome'[run].how = "instance"
    BY <1>2, <1>4, <2>2 DEF Select, Await, Active, PastNotify, Supervised, signalVars
  <2> QED
    BY <2>1, <2>2, Received DEF Await
<1>7. Progress(run)' /\ Always(run)'
  <2>1. Progress(run)'
    <3>1. CASE Select
      BY <1>1, <1>2, <1>4, <1>6, <3>1 DEF Select, Progress, TypeOK, Runs
    <3>2. CASE Await
      BY <1>1, <1>2, <1>4, <3>2, Received
      DEF Await, Select, Progress, Active, Over, signalVars, TypeOK, Runs
    <3> QED
      BY <3>1, <3>2
  <2>2. Always(run)'
    BY <1>1, <1>2, <1>4, Received DEF Always, Active, Await, shutVars, signalVars
  <2> QED
    BY <2>1, <2>2
<1> QED
  BY <1>1, <1>2, <1>3, <1>5, <1>7 DEF RunInv, Runs

LEMMA NextRun ==
  ASSUME TypeOK, RunInv, [Next]_vars
  PROVE  RunInv'
<1> USE HostAssumption DEF TypeOK, Up, Runs, vars, runVars, shutVars,
                           signalVars, instVars,
                           RunInv, ChannelOfRun, Progress, NotStarted,
                           NoOutcome, Over, Active, Always, Supervised
<1>1. CASE StartRun
  BY <1>1 DEF StartRun, SigWorking
<1>2. CASE MakeShutdownCh
  BY <1>2 DEF MakeShutdownCh, PastNotify
<1>3. CASE ResetOnce
  BY <1>3 DEF ResetOnce, PastNotify
<1>4. CASE SpawnSignals
  BY <1>4 DEF SpawnSignals, PastNotify, SigWorking
<1>5. CASE Notify
  BY <1>5 DEF Notify, Registered, PastNotify, SigWorking
<1>6. CASE SpawnInstance
  BY <1>6 DEF SpawnInstance, PastNotify
<1>7. CASE Select
  BY <1>7, NextSelect
<1>8. CASE Cancel
  BY <1>8 DEF Cancel, CancelCtx, PastNotify
<1>9. CASE Join
  BY <1>9 DEF Join, WgZero, PastNotify
<1>10. CASE Await
  BY <1>10, NextSelect
<1>11. ASSUME NEW k \in Runs, InstanceReturns(k)
      PROVE  RunInv'
  BY <1>11 DEF InstanceReturns
<1>12. ASSUME NEW k \in Runs, TakeSignal(k)
      PROVE  RunInv'
  BY <1>12 DEF TakeSignal
<1>13. ASSUME NEW k \in Runs, SeeCtxDone(k)
      PROVE  RunInv'
  BY <1>13 DEF SeeCtxDone
<1>14. ASSUME NEW k \in Runs, StopSignals(k)
      PROVE  RunInv'
  BY <1>14 DEF StopSignals, Unregister, SigWorking
<1>15. ASSUME NEW k \in Runs, CloseSignalCh(k)
      PROVE  RunInv'
  BY <1>15 DEF CloseSignalCh, SigWorking
<1>16. ASSUME NEW k \in Runs, SignalsDone(k)
      PROVE  RunInv'
  BY <1>16 DEF SignalsDone, SigWorking
<1>17. ASSUME NEW c \in Callers, EnterShutdown(c)
      PROVE  RunInv'
  BY <1>17 DEF EnterShutdown
<1>18. ASSUME NEW c \in Callers, OnceFastPath(c)
      PROVE  RunInv'
  BY <1>18 DEF OnceFastPath
<1>19. ASSUME NEW c \in Callers, OnceLock(c)
      PROVE  RunInv'
  BY <1>19 DEF OnceLock
<1>20. ASSUME NEW c \in Callers, OnceBody(c)
      PROVE  RunInv'
  BY <1>20 DEF OnceBody
<1>21. ASSUME NEW c \in Callers, OnceFinish(c)
      PROVE  RunInv'
  BY <1>21 DEF OnceFinish
<1>22. CASE ParentDone
  BY <1>22 DEF ParentDone
<1>23. CASE OsSignal
  BY <1>23 DEF OsSignal
<1>24. CASE Dead
  BY <1>24 DEF Dead
<1>25. CASE UNCHANGED vars
  BY <1>25
<1> QED
  BY <1>1, <1>2, <1>3, <1>4, <1>5, <1>6, <1>7, <1>8, <1>9, <1>10, <1>11, <1>12,
     <1>13, <1>14, <1>15, <1>16, <1>17, <1>18, <1>19, <1>20, <1>21, <1>22,
     <1>23, <1>24, <1>25
     DEF Next, HostStep, RunStep, SignalStep, ShutdownStep

(* A step that leaves the fields of Shutdown, and the statement between the *)
(* two assignments, alone.                                                 *)
LEMMA ShutdownFrame ==
  ASSUME ShutdownInv, UNCHANGED shutVars, proc' \in {proc, "killed"},
         pc' = "resetOnce" <=> pc = "resetOnce"
  PROVE  ShutdownInv'
BY DEF ShutdownInv, OnceInv, HoldsLock, CrashNeedsRace, shutVars

LEMMA NextShutdown ==
  ASSUME TypeOK, RunInv, ShutdownInv, [Next]_vars
  PROVE  ShutdownInv'
<1> USE HostAssumption DEF TypeOK, Up, Runs, vars, runVars, shutVars,
                           signalVars, instVars
<1>1. CASE StartRun
  BY <1>1, ShutdownFrame DEF StartRun
<1>2. CASE MakeShutdownCh
  <2>1. ~raced' => ~raced /\ \A c \in Callers : cpc[c] = "out"
    BY <1>2, Zenon DEF MakeShutdownCh, InsideShutdown
  <2>2. ~raced' => shutdownCh' \notin closed
    BY <1>2, <2>1 DEF MakeShutdownCh, RunInv, ChannelOfRun, Always
  <2>3. ~raced' => OnceInv'
    BY <1>2, <2>1, <2>2 DEF MakeShutdownCh, ShutdownInv, OnceInv, HoldsLock
  <2> QED
    BY <1>2, <2>3 DEF MakeShutdownCh, ShutdownInv, CrashNeedsRace
<1>3. CASE ResetOnce
  BY <1>3 DEF ResetOnce, RenewOnce, FreshOnce, ShutdownInv, OnceInv, HoldsLock,
              CrashNeedsRace
<1>4. CASE SpawnSignals
  BY <1>4, ShutdownFrame DEF SpawnSignals
<1>5. CASE Notify
  BY <1>5, ShutdownFrame DEF Notify
<1>6. CASE SpawnInstance
  BY <1>6, ShutdownFrame DEF SpawnInstance
<1>7. CASE Select
  BY <1>7, ShutdownFrame DEF Select
<1>8. CASE Cancel
  BY <1>8, ShutdownFrame DEF Cancel
<1>9. CASE Join
  BY <1>9, ShutdownFrame DEF Join
<1>10. CASE Await
  BY <1>10, ShutdownFrame DEF Await
<1>11. ASSUME NEW k \in Runs, InstanceReturns(k)
      PROVE  ShutdownInv'
  BY <1>11, ShutdownFrame DEF InstanceReturns
<1>12. ASSUME NEW k \in Runs, TakeSignal(k)
      PROVE  ShutdownInv'
  BY <1>12, ShutdownFrame DEF TakeSignal
<1>13. ASSUME NEW k \in Runs, SeeCtxDone(k)
      PROVE  ShutdownInv'
  BY <1>13, ShutdownFrame DEF SeeCtxDone
<1>14. ASSUME NEW k \in Runs, StopSignals(k)
      PROVE  ShutdownInv'
  BY <1>14, ShutdownFrame DEF StopSignals
<1>15. ASSUME NEW k \in Runs, CloseSignalCh(k)
      PROVE  ShutdownInv'
  BY <1>15, ShutdownFrame DEF CloseSignalCh
<1>16. ASSUME NEW k \in Runs, SignalsDone(k)
      PROVE  ShutdownInv'
  BY <1>16, ShutdownFrame DEF SignalsDone
<1>17. ASSUME NEW c \in Callers, EnterShutdown(c)
      PROVE  ShutdownInv'
  <2>1. ~raced' => ~raced /\ pc # "resetOnce"
    BY <1>17, Zenon DEF EnterShutdown
  <2>2. ~raced' => OnceInv'
    BY <1>17, <2>1 DEF EnterShutdown, ShutdownInv, OnceInv, HoldsLock
  <2> QED
    BY <1>17, <2>2 DEF EnterShutdown, ShutdownInv, CrashNeedsRace
<1>18. ASSUME NEW c \in Callers, OnceFastPath(c)
      PROVE  ShutdownInv'
  BY <1>18 DEF OnceFastPath, ShutdownInv, OnceInv, HoldsLock, CrashNeedsRace
<1>19. ASSUME NEW c \in Callers, OnceLock(c)
      PROVE  ShutdownInv'
  BY <1>19 DEF OnceLock, ShutdownInv, OnceInv, HoldsLock, CrashNeedsRace
<1>20. ASSUME NEW c \in Callers, OnceBody(c)
      PROVE  ShutdownInv'
  BY <1>20 DEF OnceBody, DoneSeen, ShutdownInv, OnceInv, HoldsLock,
               CrashNeedsRace
<1>21. ASSUME NEW c \in Callers, OnceFinish(c)
      PROVE  ShutdownInv'
  BY <1>21 DEF OnceFinish, Released, ShutdownInv, OnceInv, HoldsLock,
               CrashNeedsRace
<1>22. CASE ParentDone
  BY <1>22, ShutdownFrame DEF ParentDone
<1>23. CASE OsSignal
  BY <1>23, ShutdownFrame DEF OsSignal
<1>24. CASE Dead
  BY <1>24, ShutdownFrame DEF Dead
<1>25. CASE UNCHANGED vars
  BY <1>25, ShutdownFrame
<1> QED
  BY <1>1, <1>2, <1>3, <1>4, <1>5, <1>6, <1>7, <1>8, <1>9, <1>10, <1>11, <1>12,
     <1>13, <1>14, <1>15, <1>16, <1>17, <1>18, <1>19, <1>20, <1>21, <1>22,
     <1>23, <1>24, <1>25
     DEF Next, HostStep, RunStep, SignalStep, ShutdownStep

LEMMA NextKilled ==
  ASSUME TypeOK, RunInv, FirstSignalCaught, [Next]_vars
  PROVE  FirstSignalCaught'
<1> USE DEF FirstSignalCaught, vars, Up
<1>1. CASE OsSignal
  <2>1. proc' = "killed" => registered = {}
    BY <1>1 DEF OsSignal
  <2>2. pc \in {"spawnInstance", "select", "cancel"} => run \in registered \cup asked
    BY HostAssumption DEF TypeOK, Runs, RunInv, ChannelOfRun, Progress, Active,
                          Supervised
  <2> QED
    BY <1>1, <2>1, <2>2 DEF OsSignal, runVars
<1>2. CASE Dead \/ UNCHANGED vars
  BY <1>2 DEF Dead
<1>3. CASE StartRun \/ RunStep \/ ParentDone
  BY <1>3 DEF StartRun, RunStep, MakeShutdownCh, ResetOnce, SpawnSignals,
              Notify,
              SpawnInstance, Select, Cancel, Join, Await, ParentDone
<1>4. ASSUME NEW r \in Runs, InstanceReturns(r) \/ SignalStep(r)
      PROVE  FirstSignalCaught'
  BY <1>4 DEF InstanceReturns, SignalStep, TakeSignal, SeeCtxDone, StopSignals,
              CloseSignalCh, SignalsDone
<1>5. ASSUME NEW c \in Callers, EnterShutdown(c) \/ ShutdownStep(c)
      PROVE  FirstSignalCaught'
  BY <1>5 DEF EnterShutdown, ShutdownStep, OnceFastPath, OnceLock, OnceBody,
              OnceFinish
<1> QED
  BY <1>1, <1>2, <1>3, <1>4, <1>5 DEF Next, HostStep

-----------------------------------------------------------------------------
\* The invariant holds in every state of the Host, whatever the instance, the
\* signals, the callers of Shutdown and the callers' contexts do.
THEOREM Inductive == Spec => []IInv
<1>1. IInv /\ [Next]_vars => IInv'
  BY NextType, NextRun, NextShutdown, NextKilled DEF IInv
<1> QED
  BY <1>1, InitInv, PTL DEF Spec

\* The state stays well typed; in particular no queue of signals overflows.
THEOREM TypeCorrect == Spec => []TypeOK
BY Inductive, PTL DEF IInv

(* What the invariant says of a call that has returned.                    *)
LEMMA ReturnedCall ==
  ASSUME IInv, NEW r \in Runs, Returned(r)
  PROVE  Over(r) /\ Always(r)
BY DEF IInv, TypeOK, Runs, RunInv, Progress, NotStarted, NoOutcome, Returned

\* Run returns nil only for an instance that returned nil (host.go:83-107).
THEOREM NilIsInstanceNil == Spec => []NilMeansInstanceNil
<1>1. IInv => NilMeansInstanceNil
  BY ReturnedCall DEF IInv, TypeOK, NilMeansInstanceNil, Over, Always
<1> QED
  BY <1>1, Inductive, PTL

\* Whoever outlives Run has been told to stop (host.go:77-78).
THEOREM AlwaysTold == Spec => []InstanceTold
<1>1. IInv => InstanceTold
  BY ReturnedCall DEF InstanceTold, Over
<1> QED
  BY <1>1, Inductive, PTL

\* Run joins its signal goroutine, and leaves its handler registered only if
\* its context was done before Notify (host.go:80-81, 122-152).
THEOREM SignalsAreReleased == Spec => []SignalsReleased
<1>1. IInv => SignalsReleased
  BY ReturnedCall DEF SignalsReleased, Over, Always
<1> QED
  BY <1>1, Inductive, PTL

\* A call of Run ends clean, for any number of calls, callers and signals
\* (host.go:77-107, 122-152).
THEOREM ReturnsClean == Spec => []ReturnIsClean
BY NilIsInstanceNil, AlwaysTold, SignalsAreReleased, PTL DEF ReturnIsClean

\* An instance is abandoned only after a request to stop (host.go:68-107).
THEOREM ForcedOnlyIfAsked == Spec => []NeverForcedUnasked
<1>1. IInv => NeverForcedUnasked
  BY DEF IInv, RunInv, Always, NeverForcedUnasked
<1> QED
  BY <1>1, Inductive, PTL

\* A supervised instance is never killed by its first signal
\* (host.go:63-75, 126-150).
THEOREM FirstSignalIsCaught == Spec => []FirstSignalCaught
BY Inductive, PTL DEF IInv

\* Shutdown crashes the process only if it overlaps the assignments in Run
\* (host.go:53-54, 115-117), for any number of concurrent callers.
THEOREM CrashIsRace == Spec => []CrashNeedsRace
BY Inductive, PTL DEF IInv, ShutdownInv

\* Without that overlap no request is lost, on any call of Run.
THEOREM NoShutdownLost == Spec => []ShutdownNotLost
<1>1. IInv => ShutdownNotLost
  BY DEF IInv, RunInv, ChannelOfRun, ShutdownInv, OnceInv, ShutdownNotLost,
         SetUp
<1> QED
  BY <1>1, Inductive, PTL
=============================================================================
