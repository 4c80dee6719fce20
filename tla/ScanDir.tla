-------------------------------- MODULE ScanDir --------------------------------
(***************************************************************************)
(* The iterator that utils/fs.ScanDir returns.  Its queue of directories   *)
(* belongs to the call of ScanDir, not to one iteration: iterations that   *)
(* follow one another, or are nested, or pulled in turns, share it.        *)
(*                                                                         *)
(* The file system is external: a tree of nodes, numbered so that a        *)
(* directory comes before what is in it and entries are listed in the      *)
(* order of their names; reading a directory may fail.  A path is its      *)
(* node.  Iterations do not run in parallel: one of them moves at a time,  *)
(* while the others wait in the body of their loop.                        *)
(***************************************************************************)
EXTENDS Naturals, Sequences, FiniteSets, SequencesExt

CONSTANTS
  MaxNode,      \* nodes of the tree, without the starting point
  Iterations    \* loops over what one call of ScanDir has returned

ASSUME ScanDirAssumption == MaxNode \in Nat /\ IsFiniteSet(Iterations)

Start == 0
Nodes == 0 .. MaxNode

VARIABLES
  parent, isDir,   \* the file system
  dirs,            \* the queue
  at,              \* where each iteration is
  dir, rest,       \* what it is reading, and the entries it has not dealt with
  yielded,         \* history: the entries yielded, to whichever iteration
  failed,          \* history: the directories whose error has been yielded
  dropped,         \* history: where an iteration was broken off
  mixed            \* history: whether two iterations have taken turns

fsVars   == <<parent, isDir>>
loopVars == <<dirs, at, dir, rest>>
vars     == <<fsVars, loopVars, yielded, failed, dropped, mixed>>

Init ==
  /\ parent \in [1 .. MaxNode -> Nodes] /\ \A n \in 1 .. MaxNode : parent[n] < n
  /\ isDir \in [Nodes -> BOOLEAN] /\ \A n \in 1 .. MaxNode : isDir[parent[n]]
  /\ dirs = <<Start>>
  /\ at = [i \in Iterations |-> "out"]
  /\ dir = [i \in Iterations |-> Start]
  /\ rest = [i \in Iterations |-> <<>>]
  /\ yielded = <<>> /\ failed = {} /\ dropped = {} /\ mixed = FALSE

Increasing(s) == \A j, k \in DOMAIN s : j < k => s[j] < s[k]

\* fs.ReadDir of a directory that can be read: what is in it, in order.
In(d)      == {n \in 1 .. MaxNode : parent[n] = d}
Entries(d) == CHOOSE s \in [1 .. Cardinality(In(d)) -> In(d)] :
                ToSet(s) = In(d) /\ Increasing(s)

Waiting == \A i \in Iterations : at[i] \in {"out", "entry", "error"}

-----------------------------------------------------------------------------
\* Somebody ranges over the iterator.
Begin(i) ==
  /\ Waiting /\ at[i] = "out"
  /\ at' = [at EXCEPT ![i] = "loop"]
  /\ mixed' = (mixed \/ \E j \in Iterations : at[j] # "out")
  /\ UNCHANGED <<fsVars, dirs, dir, rest, yielded, failed, dropped>>

\* The loop ends when the queue is empty.
End(i) ==
  /\ at[i] = "loop" /\ dirs = <<>>
  /\ at' = [at EXCEPT ![i] = "out"]
  /\ UNCHANGED <<fsVars, dirs, dir, rest, yielded, failed, dropped, mixed>>

NotPopped(q) == q      \* a bug: the directory stays in the queue
Popped(q)    == Tail(q)

\* A directory is taken off the queue and read; an error is yielded.
Read(i) ==
  /\ at[i] = "loop" /\ dirs # <<>>
  /\ dirs' = Popped(dirs)
  /\ dir' = [dir EXCEPT ![i] = Head(dirs)]
  /\ \/ /\ isDir[Head(dirs)]
        /\ rest' = [rest EXCEPT ![i] = Entries(Head(dirs))]
        /\ at' = [at EXCEPT ![i] = "next"]
        /\ UNCHANGED failed
     \/ /\ at' = [at EXCEPT ![i] = "error"]
        /\ failed' = failed \cup {Head(dirs)}
        /\ UNCHANGED rest
  /\ UNCHANGED <<fsVars, yielded, dropped, mixed>>

\* The next entry is yielded, or there is none.
Yield(i) ==
  /\ at[i] = "next"
  /\ \/ /\ rest[i] = <<>>
        /\ at' = [at EXCEPT ![i] = "loop"]
        /\ UNCHANGED yielded
     \/ /\ rest[i] # <<>>
        /\ at' = [at EXCEPT ![i] = "entry"]
        /\ yielded' = Append(yielded, Head(rest[i]))
  /\ UNCHANGED <<fsVars, dirs, dir, rest, failed, dropped, mixed>>

Pushed(q, d)   == <<d>> \o q        \* a bug: depth first
Shadowed(q, d) == q                 \* a bug: := declares another dirs
Appended(q, d) == Append(q, d)

\* yield returns true: an entry that is a directory joins the queue.
Continue(i) ==
  /\ Waiting /\ at[i] = "entry"
  /\ dirs' = IF isDir[Head(rest[i])] THEN Appended(dirs, Head(rest[i])) ELSE dirs
  /\ rest' = [rest EXCEPT ![i] = Tail(@)]
  /\ at' = [at EXCEPT ![i] = "next"]
  /\ UNCHANGED <<fsVars, dir, yielded, failed, dropped, mixed>>

TriedAgain(q, d) == Append(q, d)    \* a bug: an unreadable directory is queued
SetAside(q, d)   == q

ContinueAfterError(i) ==
  /\ Waiting /\ at[i] = "error"
  /\ dirs' = SetAside(dirs, dir[i])
  /\ at' = [at EXCEPT ![i] = "loop"]
  /\ UNCHANGED <<fsVars, dir, rest, yielded, failed, dropped, mixed>>

\* yield returns false: break, return or panic in the body of the loop.
Break(i) ==
  /\ Waiting /\ at[i] \in {"entry", "error"}
  /\ at' = [at EXCEPT ![i] = "out"]
  /\ dropped' = IF at[i] = "entry" THEN dropped \cup {Head(rest[i])} ELSE dropped
  /\ rest' = [rest EXCEPT ![i] = <<>>]
  /\ UNCHANGED <<fsVars, dirs, dir, yielded, failed, mixed>>

Next ==
  \E i \in Iterations :
    \/ Begin(i) \/ End(i) \/ Read(i) \/ Yield(i)
    \/ Continue(i) \/ ContinueAfterError(i) \/ Break(i)

\* An iteration runs on, and the body of its loop comes to an end, by going on
\* or by breaking; while it runs it may range over the iterator again and
\* again, hence SF.  Nobody need begin an iteration.
Fairness ==
  \A i \in Iterations :
    /\ WF_vars(End(i) \/ Read(i) \/ Yield(i))
    /\ SF_vars(Continue(i) \/ ContinueAfterError(i) \/ Break(i))

Spec == Init /\ [][Next]_vars /\ Fairness

-----------------------------------------------------------------------------
\* No entry is yielded twice, and a directory is either read or yielded as an
\* error.
NeverTwice ==
  /\ IsInjective(yielded)
  /\ \A n \in ToSet(yielded) : parent[n] \notin failed

\* An entry that no iteration has yielded by the time the queue is empty is
\* in a directory that could not be read or was not reached, or a loop was
\* broken off at the directory or at an earlier entry of it.
LostOnlyByBreak ==
  dirs = <<>> /\ (\A i \in Iterations : at[i] = "out") =>
    \A n \in 1 .. MaxNode \ ToSet(yielded) :
      LET d == parent[n] IN
      \/ d \in failed \cup dropped
      \/ d # Start /\ d \notin ToSet(yielded)
      \/ \E m \in dropped : parent[m] = d /\ m < n

\* However many iterations share the queue, wherever they are broken off and
\* whichever of them goes on, an entry is yielded to one of them only, and an
\* error or an empty directory never hides anything else
\* (scan_dir.go:25, 34-67).
EveryEntryOnce == NeverTwice /\ LostOnlyByBreak

Place(n) == CHOOSE k \in DOMAIN yielded : yielded[k] = n

\* Breadth first: unless two iterations have taken turns, entries come in the
\* order of the directories they are in, those of one directory in the order
\* of their names.  Breaking off an iteration and beginning another does not
\* change that (scan_dir.go:23, 35-36, 52-66).
BreadthFirst ==
  ~mixed =>
    \A j, k \in DOMAIN yielded : j < k =>
      LET d == parent[yielded[j]]  e == parent[yielded[k]] IN
      \/ d = e /\ yielded[j] < yielded[k]
      \/ d # e /\ (d = Start \/ (e # Start /\ Place(d) < Place(e)))

\* Every iteration comes to an end (scan_dir.go:34-68).
IterationEnds == \A i \in Iterations : at[i] # "out" ~> at[i] = "out"
===============================================================================
