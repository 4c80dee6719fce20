------------------------------ MODULE ForkJoin ------------------------------
(***************************************************************************)
(* What lifecycle.RunParallel promises its caller: every runner's result   *)
(* is collected exactly once, in any order, and the call returns the       *)
(* collected errors when, and only when, none is outstanding.              *)
(***************************************************************************)
CONSTANT Names  \* names runners may have

VARIABLES
  outstanding,  \* the runners whose result has not been collected
  errors,       \* the runners whose result was an error
  finished      \* the call has returned

vars == <<outstanding, errors, finished>>

Init ==
  /\ outstanding \in SUBSET Names    \* the runners the caller passes
  /\ errors = {}
  /\ finished = FALSE

Collect(n) ==
  /\ n \in outstanding
  /\ outstanding' = outstanding \ {n}
  /\ errors' \in {errors, errors \cup {n}}
  /\ UNCHANGED finished

Finish ==
  /\ outstanding = {} /\ ~finished
  /\ finished' = TRUE
  /\ UNCHANGED <<outstanding, errors>>

Next == Finish \/ \E n \in Names : Collect(n)

Spec == Init /\ [][Next]_vars
=============================================================================
