------------------------------ MODULE RouteTable ------------------------------
(***************************************************************************)
(* What router.Builder promises whoever registers routes: a table with one *)
(* entry per method and path, and the operations on it.  Registering a key *)
(* again replaces what it serves and keeps its compression options; files  *)
(* take over some entry of their path, or add one.                         *)
(***************************************************************************)
CONSTANTS
  Nil,  \* no compression
  Get   \* the method of an entry that files add

VARIABLES
  table,    \* from the keys registered to what they serve and their options
  default   \* options a new entry starts with

vars == <<table, default>>

Init == table = <<>> /\ default = Nil

\* The table with entry e for key k.
With(k, e) == [x \in DOMAIN table \cup {k} |-> IF x = k THEN e ELSE table[x]]

\* Entry k serves c from now on.
Put(k, c) ==
  /\ table' = IF k \in DOMAIN table
              THEN [table EXCEPT ![k].content = c]
              ELSE With(k, [content |-> c, opt |-> default])
  /\ UNCHANGED default

\* Files at a path replace one of its entries, whatever its method.
PutFiles(p, c) ==
  IF \E k \in DOMAIN table : k[2] = p
  THEN \E k \in DOMAIN table : k[2] = p /\ Put(k, c)
  ELSE Put(<<Get, p>>, c)

\* The same for a route of another table, which brings its options along.
Merge(k, c, o) ==
  /\ table' = With(k, [content |-> c, opt |-> o])
  /\ UNCHANGED default

MergeFiles(p, c, o) ==
  IF \E k \in DOMAIN table : k[2] = p
  THEN \E k \in DOMAIN table : k[2] = p /\ Merge(k, c, o)
  ELSE Merge(<<Get, p>>, c, o)

\* The options of one entry, of the entries to come, or of none.
SetOption(k, o) == table' = [table EXCEPT ![k].opt = o] /\ UNCHANGED default
SetDefault(o)   == default' = o /\ UNCHANGED table
Disable ==
  /\ default' = Nil
  /\ table' = [k \in DOMAIN table |-> [table[k] EXCEPT !.opt = Nil]]
===============================================================================
