---------------------------- MODULE RunParallel ----------------------------
(***************************************************************************)
(* lifecycle.RunParallel (src/lifecycle/run_parallel.go): one goroutine    *)
(* per runner, whose result travels over an unbuffered channel to a loop   *)
(* that calls the termination handler and joins the errors.  A runner that *)
(* ends stops the others only if the handler calls CancelContext.          *)
(***************************************************************************)
EXTENDS Naturals, FiniteSets

CONSTANTS
  Names,       \* names runners may have
  Obedient     \* the runners that return once their context is done

ASSUME RunParallelAssumption == IsFiniteSet(Names) /\ Obedient \subseteq Names

VARIABLES
  runners,       \* argument: the runners
  hasHandler,    \* argument: whether there is a termination handler
  pc,            \* the calling goroutine
  goroutine,     \* each runner's goroutine
  failed,        \* the runners whose run returned an error
  current,       \* the runner whose termination was received last, as a set
  termErr,       \* term.Err is not nil
  nterminated,   \* number of terminations received
  err,           \* the errors joined so far, as a set of runners
  done,          \* the context of the runners is done
  altered        \* history: the runners whose term.Err the handler changed

args     == <<runners, hasHandler>>
loopVars == <<current, termErr, nterminated, err, altered>>
vars     == <<args, pc, goroutine, failed, loopVars, done>>

Init ==
  /\ runners \in SUBSET Names
  /\ hasHandler \in BOOLEAN
  /\ pc = "spawn"
  /\ goroutine = [n \in runners |-> "none"]
  /\ failed = {}
  /\ current = {}
  /\ termErr = FALSE
  /\ nterminated = 0
  /\ err = {}
  /\ done \in BOOLEAN          \* the caller's context may be done already
  /\ altered = {}

\* len(runners) == 0: nothing is run.
NothingToRun ==
  /\ pc = "spawn" /\ runners = {}
  /\ pc' = "returned"
  /\ UNCHANGED <<args, goroutine, failed, loopVars, done>>

\* One round of the loop over the map, in whatever order it yields.
Spawn(n) ==
  /\ pc = "spawn" /\ goroutine[n] = "none"
  /\ goroutine' = [goroutine EXCEPT ![n] = "running"]
  /\ pc' = IF \E m \in runners \ {n} : goroutine[m] = "none" THEN "spawn" ELSE "loop"
  /\ UNCHANGED <<args, failed, loopVars, done>>

\* run(ctx) returns: the runner is the user's code.
RunnerReturns(n) ==
  /\ goroutine[n] = "running"
  /\ goroutine' = [goroutine EXCEPT ![n] = "sending"]
  /\ failed' \in {failed, failed \cup {n}}
  /\ UNCHANGED <<args, pc, loopVars, done>>

FirstEnds     == nterminated = 0     \* a bug: the first termination ends the loop
OneTooMany    == nterminated <= Cardinality(runners)    \* a bug: off by one
MoreToCome    == nterminated < Cardinality(runners)

Counted == nterminated + 1

\* term := <-termCh, the rendezvous with one of the blocked goroutines.
Receive(n) ==
  /\ pc = "loop" /\ MoreToCome
  /\ goroutine[n] = "sending"
  /\ goroutine' = [goroutine EXCEPT ![n] = "gone"]
  /\ current' = {n}
  /\ termErr' = (n \in failed)
  /\ nterminated' = Counted
  /\ pc' = IF hasHandler THEN "handle" ELSE "join"
  /\ UNCHANGED <<args, failed, err, done, altered>>

\* terminationHandler[0](&term): the user's code.  It may cancel the context
\* and, having a pointer to term, replace or clear the error.
Handle ==
  /\ pc = "handle"
  /\ termErr' \in BOOLEAN
  /\ altered' = IF termErr' = termErr THEN altered ELSE altered \cup current
  /\ done' \in {done, TRUE}
  /\ pc' = "join"
  /\ UNCHANGED <<args, goroutine, failed, current, nterminated, err>>

LastOnly == IF termErr THEN current ELSE {}   \* a bug: earlier errors are dropped
Joined   == IF termErr THEN err \cup current ELSE err

\* err = errors.Join(err, term.Err)
JoinError ==
  /\ pc = "join"
  /\ err' = Joined
  /\ pc' = "loop"
  /\ UNCHANGED <<args, goroutine, failed, current, termErr, nterminated, done, altered>>

\* return err, and the deferred cancel.
Return ==
  /\ pc = "loop" /\ ~MoreToCome
  /\ done' = TRUE
  /\ pc' = "returned"
  /\ UNCHANGED <<args, goroutine, failed, loopVars>>

\* The caller's context is cancelled, or a handler that kept CancelContext
\* calls it later.
ContextDone ==
  /\ ~done
  /\ done' = TRUE
  /\ UNCHANGED <<args, pc, goroutine, failed, loopVars>>

CallerStep ==
  \/ NothingToRun \/ Handle \/ JoinError \/ Return
  \/ \E n \in runners : Spawn(n) \/ Receive(n)

Next ==
  \/ CallerStep
  \/ \E n \in runners : RunnerReturns(n)
  \/ ContextDone

\* The calling goroutine is scheduled, the handler returns, and an obedient
\* runner returns some time after its context is done.
Spec ==
  /\ Init /\ [][Next]_vars
  /\ WF_vars(CallerStep)
  /\ \A n \in Obedient : WF_vars(n \in runners /\ done /\ RunnerReturns(n))

-----------------------------------------------------------------------------
\* Types of the state.
TypeOK ==
  /\ runners \subseteq Names
  /\ hasHandler \in BOOLEAN
  /\ pc \in {"spawn", "loop", "handle", "join", "returned"}
  /\ goroutine \in [runners -> {"none", "running", "sending", "gone"}]
  /\ failed \subseteq runners
  /\ current \subseteq runners
  /\ termErr \in BOOLEAN
  /\ nterminated \in 0 .. Cardinality(runners)
  /\ err \subseteq runners
  /\ done \in BOOLEAN
  /\ altered \subseteq runners

\* No goroutine outlives the call: none is still running its runner, and
\* none is blocked for ever on the unbuffered channel (lines 61-76).
NoGoroutineLeft ==
  pc = "returned" => \A n \in runners : goroutine[n] = "gone"

\* Every error a runner returned is in the result, and nothing else is,
\* except where the handler changed it through its pointer (lines 67-76).
NoErrorLost ==
  pc = "returned" => \A n \in runners \ altered : n \in err <=> n \in failed

\* The call ends when each runner has returned, or obeys a context that is
\* done: no order of results and no handler can block it (lines 54-78).
Returns ==
  (\A n \in runners :
      \/ goroutine[n] \in {"sending", "gone"}
      \/ goroutine[n] # "none" /\ done /\ n \in Obedient)
    ~> pc = "returned"

\* What the caller sees of it is a fork and a join.
Abstract == INSTANCE ForkJoin WITH
  outstanding <- {n \in runners : goroutine[n] # "gone"}
                   \cup (IF pc \in {"handle", "join"} THEN current ELSE {}),
  errors <- err,
  finished <- pc = "returned"

\* RunParallel implements ForkJoin: each result is collected once, and the
\* call returns when none is outstanding (lines 40-79).
ImplementsForkJoin == Abstract!Spec

=============================================================================
