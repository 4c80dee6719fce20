---------------------------- MODULE MCRouteBuilder ----------------------------
(* RouteBuilder with the routes of three other builders to extend from: a  *)
(* compressed handler and a file system; a single file that took over the  *)
(* route of a handler; and the same path for files and for a handler.      *)
(* One of the two paths lies below the other.                              *)
EXTENDS RouteBuilder

CONSTANTS p, q, h, f, n, o

MCBelow == {<<q, p>>}

SourceRoute(m, path, fs, file, opts) ==
  [method |-> m, path |-> path, handler |-> IF fs = Nil THEN h ELSE Nil, fs |-> fs,
   file |-> file, opt |-> opts]

MCSources ==
  { src \in { << SourceRoute("ALL", p, Nil, Nil, o), SourceRoute("GET", q, f, Nil, Nil) >>,
             << SourceRoute("ALL", p, f, n, Nil) >>,
             << SourceRoute("ALL", p, f, Nil, o), SourceRoute("GET", p, Nil, Nil, Nil) >> } :
      \A i \in DOMAIN src : src[i].file \in Names \cup {Nil} }

\* What ImplementsTable looks at: no operation on the table goes by the handler
\* that was built last, nor by the history.
TableView == <<proc, routes, opt, kept, live, todo>>
=============================================================================
