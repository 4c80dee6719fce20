------------------------- MODULE RunParallelProofs -------------------------
(***************************************************************************)
(* Proofs about RunParallel, for any finite set of runners.                *)
(***************************************************************************)
EXTENDS RunParallel, FiniteSetTheorems, TLAPS

-----------------------------------------------------------------------------
(* The inductive invariant.  The loop only counts: that the count is the   *)
(* number of goroutines that are gone is what makes its end a join.        *)

Gone == {n \in runners : goroutine[n] = "gone"}

\* The terminations received and joined.
Collected == Gone \ (IF pc \in {"handle", "join"} THEN current ELSE {})

CountInv ==
  /\ nterminated = Cardinality(Gone)
  /\ pc \in {"handle", "join"} => \E n \in Gone : current = {n}
  /\ pc = "returned" => Gone = runners

ErrorInv ==
  /\ failed \subseteq {n \in runners : goroutine[n] \in {"sending", "gone"}}
  /\ err \subseteq Collected
  /\ \A n \in Collected \ altered : n \in err <=> n \in failed
  /\ pc \in {"handle", "join"} => \A n \in current \ altered : termErr <=> n \in failed
  /\ altered \subseteq Gone

IInv == TypeOK /\ CountInv /\ ErrorInv

-----------------------------------------------------------------------------
LEMMA FiniteRunners == TypeOK => IsFiniteSet(runners) /\ IsFiniteSet(Gone)
BY RunParallelAssumption, FS_Subset DEF TypeOK, Gone

LEMMA InitInv == Init => IInv
<1> SUFFICES ASSUME Init PROVE IInv
  OBVIOUS
<1>1. Gone = {}
  BY DEF Init, Gone
<1>2. IsFiniteSet(runners)
  BY RunParallelAssumption, FS_Subset DEF Init
<1>3. TypeOK
  <2>1. 0 \in 0 .. Cardinality(runners)
    BY <1>2, FS_CardinalityType
  <2>2. goroutine \in [runners -> {"none", "running", "sending", "gone"}]
    BY DEF Init
  <2> QED
    BY <2>1, <2>2 DEF Init, TypeOK
<1>4. CountInv
  BY <1>1, FS_EmptySet DEF Init, CountInv
<1>5. ErrorInv
  BY <1>1 DEF Init, ErrorInv, Collected
<1> QED
  BY <1>3, <1>4, <1>5 DEF IInv

(* The loop receives the result of n: one more goroutine is gone, and the  *)
(* count cannot exceed the number of runners.                              *)
LEMMA ReceiveCounts ==
  ASSUME TypeOK, CountInv, NEW n \in runners, Receive(n)
  PROVE  /\ Gone' = Gone \cup {n} /\ n \notin Gone
         /\ nterminated' = Cardinality(Gone')
         /\ nterminated' \in 0 .. Cardinality(runners)
<1>1. Gone' = Gone \cup {n} /\ n \notin Gone
  BY DEF Receive, Gone, TypeOK, args
<1>2. Cardinality(Gone') = Cardinality(Gone) + 1
  BY <1>1, FiniteRunners, FS_AddElement
<1>3. Cardinality(Gone') \in Nat /\ Cardinality(Gone') <= Cardinality(runners)
  BY <1>1, FiniteRunners, FS_Subset, FS_CardinalityType DEF Gone
<1>4. nterminated' = Cardinality(Gone) + 1
  BY DEF Receive, Counted, CountInv
<1> QED
  BY <1>1, <1>2, <1>3, <1>4, FiniteRunners, FS_CardinalityType

(* The loop ends when the count reaches the number of runners: all gone.   *)
LEMMA AllGone ==
  ASSUME TypeOK, CountInv, ~MoreToCome
  PROVE  Gone = runners
<1>1. Cardinality(Gone) = Cardinality(runners)
  BY FiniteRunners, FS_Subset, FS_CardinalityType DEF TypeOK, CountInv, MoreToCome, Gone
<1> QED
  BY <1>1, FiniteRunners, FS_Subset DEF Gone

LEMMA NextInv ==
  ASSUME IInv, [Next]_vars
  PROVE  IInv'
<1> USE DEF IInv, TypeOK, args, loopVars
<1>1. CASE NothingToRun
  <2>1. Gone' = Gone /\ Gone = runners
    BY <1>1 DEF NothingToRun, Gone
  <2> QED
    BY <1>1, <2>1 DEF NothingToRun, CountInv, ErrorInv, Collected
<1>2. ASSUME NEW n \in runners, Spawn(n)
      PROVE  IInv'
  <2>1. Gone' = Gone
    BY <1>2 DEF Spawn, Gone
  <2> QED
    BY <1>2, <2>1 DEF Spawn, CountInv, ErrorInv, Collected
<1>3. ASSUME NEW n \in runners, RunnerReturns(n)
      PROVE  IInv'
  <2>1. Gone' = Gone /\ n \notin Gone
    BY <1>3 DEF RunnerReturns, Gone
  <2> QED
    BY <1>3, <2>1 DEF RunnerReturns, CountInv, ErrorInv, Collected
<1>4. ASSUME NEW n \in runners, Receive(n)
      PROVE  IInv'
  <2>1. /\ Gone' = Gone \cup {n} /\ n \notin Gone
        /\ nterminated' = Cardinality(Gone')
        /\ nterminated' \in 0 .. Cardinality(runners)
    BY <1>4, ReceiveCounts
  <2>2. TypeOK'
    BY <1>4, <2>1 DEF Receive
  <2>3. CountInv'
    BY <1>4, <2>1 DEF Receive, CountInv
  <2>4. Collected' = Collected
    BY <1>4, <2>1 DEF Receive, Collected
  <2>5. ErrorInv'
    BY <1>4, <2>1, <2>4 DEF Receive, ErrorInv, Gone
  <2> QED
    BY <2>2, <2>3, <2>5
<1>5. CASE Handle
  <2>1. Gone' = Gone /\ Collected' = Collected
    BY <1>5 DEF Handle, Gone, Collected
  <2> QED
    BY <1>5, <2>1 DEF Handle, CountInv, ErrorInv
<1>6. CASE JoinError
  <2>1. PICK n \in Gone : current = {n}
    BY <1>6 DEF JoinError, CountInv
  <2>2. Gone' = Gone /\ Collected' = Collected \cup {n} /\ n \notin Collected
    BY <1>6, <2>1 DEF JoinError, Gone, Collected
  <2>3. TypeOK' /\ CountInv'
    BY <1>6, <2>2 DEF JoinError, Joined, CountInv
  <2>4. ErrorInv'
    BY <1>6, <2>1, <2>2 DEF JoinError, Joined, ErrorInv
  <2> QED
    BY <2>3, <2>4
<1>7. CASE Return
  <2>1. Gone' = Gone /\ Collected' = Collected
    BY <1>7 DEF Return, Gone, Collected
  <2>2. Gone = runners
    BY <1>7, AllGone DEF Return
  <2> QED
    BY <1>7, <2>1, <2>2 DEF Return, CountInv, ErrorInv
<1>8. CASE ContextDone
  <2>1. Gone' = Gone /\ Collected' = Collected
    BY <1>8 DEF ContextDone, Gone, Collected
  <2> QED
    BY <1>8, <2>1 DEF ContextDone, CountInv, ErrorInv
<1>9. CASE UNCHANGED vars
  <2>1. Gone' = Gone /\ Collected' = Collected
    BY <1>9 DEF vars, Gone, Collected
  <2> QED
    BY <1>9, <2>1 DEF vars, CountInv, ErrorInv
<1> QED
  BY <1>1, <1>2, <1>3, <1>4, <1>5, <1>6, <1>7, <1>8, <1>9 DEF Next, CallerStep

\* The invariant holds in every state of a call of RunParallel, whatever the
\* runners, the handler and the caller's context do.
THEOREM Inductive == Spec => []IInv
BY InitInv, NextInv, PTL DEF Spec

\* RunParallel's state stays well typed; the count of terminations never
\* exceeds the number of runners.
THEOREM TypeCorrect == Spec => []TypeOK
BY Inductive, PTL DEF IInv

\* No goroutine outlives the call, for any number of runners.
THEOREM NoneLeft == Spec => []NoGoroutineLeft
<1>1. IInv => NoGoroutineLeft
  BY DEF IInv, CountInv, NoGoroutineLeft, Gone
<1> QED
  BY <1>1, Inductive, PTL

\* No error is lost in the join, for any number of runners and any order.
THEOREM ErrorsKept == Spec => []NoErrorLost
<1>1. IInv => NoErrorLost
  BY DEF IInv, CountInv, ErrorInv, Collected, NoErrorLost
<1> QED
  BY <1>1, Inductive, PTL

-----------------------------------------------------------------------------
(* RunParallel implements ForkJoin.                                        *)

Outstanding == {n \in runners : goroutine[n] # "gone"}
                 \cup (IF pc \in {"handle", "join"} THEN current ELSE {})

LEMMA InitMaps == Init => Abstract!Init
<1> SUFFICES ASSUME Init PROVE Abstract!Init
  OBVIOUS
<1>1. Outstanding = runners
  BY DEF Init, Outstanding
<1> QED
  BY <1>1 DEF Init, Outstanding, Abstract!Init

(* Joining the error of a termination is what collects it; the steps up to *)
(* there leave the abstract state alone.                                   *)
LEMMA StepMaps ==
  ASSUME IInv, [Next]_vars
  PROVE  [Abstract!Next]_(Abstract!vars)
<1> DEFINE Stutter == Outstanding' = Outstanding /\ err' = err
                        /\ (pc' = "returned") = (pc = "returned")
<1> USE DEF IInv, TypeOK, args, loopVars
<1>0. Stutter => UNCHANGED Abstract!vars
  BY DEF Outstanding, Abstract!vars
<1>1. CASE NothingToRun
  <2>1. Outstanding = {} /\ Outstanding' = {}
    BY <1>1 DEF NothingToRun, Outstanding
  <2>2. Abstract!Finish
    BY <1>1, <2>1 DEF NothingToRun, Outstanding, Abstract!Finish
  <2> QED
    BY <2>2 DEF Abstract!Next
<1>2. ASSUME NEW n \in runners, Spawn(n)
      PROVE  Stutter
  BY <1>2 DEF Spawn, Outstanding
<1>3. ASSUME NEW n \in runners, RunnerReturns(n)
      PROVE  Stutter
  BY <1>3 DEF RunnerReturns, Outstanding
<1>4. ASSUME NEW n \in runners, Receive(n)
      PROVE  Stutter
  BY <1>4 DEF Receive, Outstanding
<1>5. ASSUME Handle
      PROVE  Stutter
  BY <1>5 DEF Handle, Outstanding
<1>6. CASE JoinError
  <2>1. PICK n \in Gone : current = {n}
    BY <1>6 DEF JoinError, CountInv
  <2>2. n \in Names /\ n \in Outstanding /\ Outstanding' = Outstanding \ {n}
    BY <1>6, <2>1 DEF JoinError, Outstanding, Gone
  <2>3. err' \in {err, err \cup {n}}
    BY <1>6, <2>1 DEF JoinError, Joined
  <2>4. (pc' = "returned") = (pc = "returned")
    BY <1>6 DEF JoinError
  <2>5. Abstract!Collect(n)
    BY <2>2, <2>3, <2>4 DEF Outstanding, Abstract!Collect
  <2> QED
    BY <2>2, <2>5 DEF Abstract!Next
<1>7. CASE Return
  <2>1. Gone = runners
    BY <1>7, AllGone DEF Return
  <2>2. Outstanding = {} /\ Outstanding' = {}
    BY <1>7, <2>1 DEF Return, Outstanding, Gone
  <2>3. Abstract!Finish
    BY <1>7, <2>2 DEF Return, Outstanding, Abstract!Finish
  <2> QED
    BY <2>3 DEF Abstract!Next
<1>8. ASSUME ContextDone
      PROVE  Stutter
  BY <1>8 DEF ContextDone, Outstanding
<1>9. ASSUME UNCHANGED vars
      PROVE  Stutter
  BY <1>9 DEF vars, Outstanding
<1> QED
  BY <1>0, <1>1, <1>2, <1>3, <1>4, <1>5, <1>6, <1>7, <1>8, <1>9 DEF Next, CallerStep

\* RunParallel, seen from its caller, is a fork and a join: every step of the
\* code is a collection, the return, or invisible.
THEOREM Refinement == Spec => ImplementsForkJoin
BY InitMaps, StepMaps, Inductive, PTL DEF Spec, ImplementsForkJoin, Abstract!Spec
=============================================================================
