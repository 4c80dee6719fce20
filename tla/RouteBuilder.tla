----------------------------- MODULE RouteBuilder -----------------------------
(***************************************************************************)
(* router.Builder and stdrouter.Build (src/router): a slice of routes, the *)
(* *Route that every registration hands out, and the handler that Build    *)
(* makes of the routes.                                                    *)
(*                                                                         *)
(* The pointers are into the slice's array.  An append may move the slice  *)
(* to a new array: a *Route kept from before, and the single-file routes   *)
(* of a handler built before, then refer to an array nobody changes any    *)
(* more.  A handler built from an array that has not moved still reads it. *)
(* Paths are whole values; the path of an extended route is the joined one.*)
(* Two paths are the same, one lies below the other (/files/a below /), or *)
(* no request matches both: wildcards that overlap otherwise are left out. *)
(***************************************************************************)
EXTENDS Naturals, Sequences, SequencesExt, TLC

CONSTANTS
  Paths,      \* paths of routes
  Below,      \* pairs of them: what matches the first matches the second
  Methods,    \* methods of routes, among them All
  All,        \* router.MethodAll
  Handlers,   \* handlers, none of them nil
  Files,      \* file systems, none of them nil
  Names,      \* names of files in them, none of them empty
  Options,    \* compression options, none of them nil
  Nil,        \* a nil pointer, or an empty file name
  Sources,    \* the routes of other builders, as sequences
  MaxRoutes   \* bound on the number of routes of the builder

ASSUME RouteBuilderAssumption ==
  /\ "GET" \in Methods /\ All \in Methods /\ All \notin {"GET", "HEAD"}
  /\ Below \subseteq Paths \X Paths /\ \A p \in Paths : <<p, p>> \notin Below
  /\ Nil \notin Handlers \cup Files \cup Names \cup Options
  /\ MaxRoutes \in Nat

Route == [method : Methods, path : Paths, handler : Handlers \cup {Nil},
          fs : Files \cup {Nil}, file : Names \cup {Nil}, opt : Options \cup {Nil}]

ASSUME SourcesAssumption == Sources \subseteq Seq(Route)

\* What a call of Get, ..., All registers, and a call of File or Files.
HandlerCalls == [method : Methods, path : Paths, handler : Handlers,
                 fs : {Nil}, file : {Nil}]
FileCalls    == [method : {"GET"}, path : Paths, handler : {Nil},
                 fs : Files, file : Names \cup {Nil}]

VARIABLES
  proc,     \* the process: "up" or "panicked"
  routes,   \* b.Routes
  opt,      \* b.CompressionOptions
  kept,     \* index of the route whose *Route the caller keeps; 0 is none
  live,     \* that *Route points into the array of b.Routes
  todo,     \* the routes Extend has still to register
  mux,      \* the handler built last: what each route has become in it
  shared,   \* it points into the array of b.Routes
  old,      \* otherwise, the array it points into
  touched,  \* history: the paths registered since it was built
  enabled   \* history: compression was switched on somewhere since it was
            \* last switched off for the whole builder

vars == <<proc, routes, opt, kept, live, todo, mux, shared, old, touched, enabled>>

muxVars == <<mux, shared, old>>

Init ==
  /\ proc = "up"
  /\ routes = <<>>
  /\ opt = Nil
  /\ kept = 0 /\ live = FALSE
  /\ todo = <<>>
  /\ mux = <<>> /\ shared = TRUE /\ old = <<>>
  /\ touched = {}
  /\ enabled = FALSE

-----------------------------------------------------------------------------
(* Registration.                                                           *)

PathOnly(c)   ==     \* a bug: the method is not compared
  SelectInSeq(routes, LAMBDA r : r.path = c.path)
LastFound(c) ==      \* a bug: the loop does not stop at the first match
  SelectLastInSeq(routes, LAMBDA r : r.path = c.path /\ (c.fs = Nil => r.method = c.method))

\* The route that call c reuses, 0 if there is none: a handler looks for its
\* method and path, files look for the path only.
Slot(c) ==
  SelectInSeq(routes, LAMBDA r : r.path = c.path /\ (c.fs = Nil => r.method = c.method))

OffByOne(c) == Len(routes) + 1    \* a bug: &b.Routes[len(b.Routes)]
\* Where the route of call c is once it is registered.
Place(c) == IF Slot(c) = 0 THEN Len(routes) + 1 ELSE Slot(c)

\* A bug: Files after File still serves the old file.
NameKept(r, c) ==
  IF c.fs = Nil
  THEN [r EXCEPT !.handler = c.handler, !.fs = Nil]
  ELSE [r EXCEPT !.handler = Nil, !.fs = c.fs, !.file = IF c.file = Nil THEN @ ELSE c.file]
\* A reused route: a handler leaves the file name behind.
Reused(r, c) ==
  IF c.fs = Nil
  THEN [r EXCEPT !.handler = c.handler, !.fs = Nil]
  ELSE [r EXCEPT !.handler = Nil, !.fs = c.fs, !.file = c.file]

Fresh(c) ==
  [method |-> c.method, path |-> c.path, handler |-> c.handler, fs |-> c.fs,
   file |-> c.file, opt |-> opt]

\* ensureRoute and ensureFiles.
Registered(c) ==
  IF Slot(c) = 0 THEN Append(routes, Fresh(c))
                 ELSE [routes EXCEPT ![Slot(c)] = Reused(@, c)]

\* An append moves the slice, or finds room in its array.
MayMove(c) == {FALSE} \cup {Slot(c) = 0}

\* What is left of the pointers when the slice moves.
AfterMove(moved) ==
  /\ shared' = (shared /\ ~moved)
  /\ old' = IF moved /\ shared THEN routes ELSE old

\* Get, Post, ..., All, Method, File and Files.  The caller keeps the *Route
\* it gets, or the one it has.
Register(c) ==
  /\ proc = "up" /\ todo = <<>> /\ Place(c) <= MaxRoutes
  /\ routes' = Registered(c)
  /\ touched' = touched \cup {c.path}
  /\ \E moved \in MayMove(c) :
       /\ AfterMove(moved)
       /\ \/ kept' = Place(c) /\ live' = TRUE
          \/ kept' = kept /\ live' = (live /\ ~moved)
  /\ UNCHANGED <<proc, opt, todo, mux, enabled>>

-----------------------------------------------------------------------------
(* Extend.                                                                 *)

\* Extend(routes) begins.
Extend(src) ==
  /\ proc = "up" /\ todo = <<>> /\ Len(routes) + Len(src) <= MaxRoutes
  /\ todo' = src
  /\ UNCHANGED <<proc, routes, opt, kept, live, muxVars, touched, enabled>>

\* The registration a route of another builder amounts to: files forget the
\* method, a handler forgets the file name.
CallOf(r) ==
  IF r.fs # Nil
  THEN [method |-> "GET", path |-> r.path, handler |-> Nil, fs |-> r.fs, file |-> r.file]
  ELSE [method |-> r.method, path |-> r.path, handler |-> r.handler, fs |-> Nil, file |-> Nil]

OptionDropped(r) == opt        \* a bug: the default of this builder is used
OptionOf(r) == r.opt

\* One round of its loop: the route is registered and its options replaced.
ExtendRoute ==
  /\ proc = "up" /\ todo # <<>>
  /\ LET r == Head(todo)
         c == CallOf(r)
     IN /\ routes' = [Registered(c) EXCEPT ![Place(c)].opt = OptionOf(r)]
        /\ touched' = touched \cup {r.path}
        /\ enabled' = (enabled \/ r.opt # Nil)
        /\ \E moved \in MayMove(c) : AfterMove(moved) /\ live' = (live /\ ~moved)
  /\ todo' = Tail(todo)
  /\ UNCHANGED <<proc, opt, kept, mux>>

-----------------------------------------------------------------------------
(* Compression.                                                            *)

\* Compression(enabled, opts) of the *Route that the caller keeps.
RouteCompression(o) ==
  /\ proc = "up" /\ todo = <<>> /\ kept # 0
  /\ routes' = IF live THEN [routes EXCEPT ![kept].opt = o] ELSE routes
  /\ enabled' = (enabled \/ (live /\ o # Nil))
  /\ UNCHANGED <<proc, opt, kept, live, todo, muxVars, touched>>

RoutesForgotten == routes      \* a bug: the routes keep their options
Uncompressed == [i \in DOMAIN routes |-> [routes[i] EXCEPT !.opt = Nil]]

\* Compression(false) and Compression(true, o) of the builder.
DisableCompression ==
  /\ proc = "up" /\ todo = <<>>
  /\ opt' = Nil
  /\ routes' = Uncompressed
  /\ enabled' = FALSE
  /\ UNCHANGED <<proc, kept, live, todo, muxVars, touched>>

EnableCompression(o) ==
  /\ proc = "up" /\ todo = <<>>
  /\ opt' = o
  /\ enabled' = TRUE
  /\ UNCHANGED <<proc, routes, kept, live, todo, muxVars, touched>>

-----------------------------------------------------------------------------
(* Build.                                                                  *)

\* What a route serves: a single file, a file system, or its handler.
Content(r) ==
  [handler |-> IF r.fs = Nil THEN r.handler ELSE Nil,
   fs      |-> r.fs,
   file    |-> IF r.fs = Nil THEN Nil ELSE r.file]

IsSingleFile(c) == c.fs # Nil /\ c.file # Nil

MethodIgnored(r) == <<All, r.path>>    \* a bug: the pattern is the bare path
\* The pattern a route is registered under: files, and handlers for all
\* methods, have no method in it.
Pattern(r) ==
  IF r.fs # Nil \/ r.method = All THEN <<All, r.path>> ELSE <<r.method, r.path>>

\* wrapCompression: a route without options is not compressed, and the
\* options of the builder win over those of the route.
Effective(o) == IF o # Nil /\ opt # Nil THEN opt ELSE o

\* net/http.ServeMux compares the methods of two patterns: general is more
\* general than special.
MoreMethods(general, special) ==
  \/ general = All /\ special # All
  \/ general = "GET" /\ special = "HEAD"

\* mux.Handle refuses a pattern that it has, and one that matches a request
\* of another when neither is the more specific of the two.
Conflict(a, b) ==
  \/ a = b
  \/ <<a[2], b[2]>> \in Below /\ MoreMethods(a[1], b[1])

LoopVariable(i) == Len(mux)    \* a bug: every closure sees the last route
Captured(i) == i

\* PreparePathAndInnerHandler, wrapCompression and mux.Handle for every route.
Build ==
  /\ proc = "up" /\ todo = <<>>
  /\ IF \E i, j \in DOMAIN routes : i # j /\ Conflict(Pattern(routes[i]), Pattern(routes[j]))
     THEN proc' = "panicked" /\ UNCHANGED <<muxVars, touched>>
     ELSE /\ mux' = [i \in DOMAIN routes |->
                       [pattern |-> Pattern(routes[i]), content |-> Content(routes[i]),
                        opt |-> Effective(routes[i].opt)]]
          /\ shared' = TRUE /\ old' = <<>>
          /\ touched' = {}
          /\ UNCHANGED proc
  /\ UNCHANGED <<routes, opt, kept, live, todo, enabled>>

\* What a request for the i-th pattern of the handler gets: a single file is
\* looked up through the *Route, everything else was captured by Build.
Response(i) ==
  LET array == IF shared THEN routes ELSE old
      r     == array[Captured(i)]
  IN IF IsSingleFile(mux[i].content)
     THEN [handler |-> Nil, fs |-> r.fs, file |-> r.file]
     ELSE mux[i].content

Next ==
  \/ \E c \in HandlerCalls \cup FileCalls : Register(c)
  \/ \E src \in Sources : Extend(src)
  \/ ExtendRoute
  \/ \E o \in Options \cup {Nil} : RouteCompression(o)
  \/ DisableCompression
  \/ \E o \in Options : EnableCompression(o)
  \/ Build

Spec == Init /\ [][Next]_vars

-----------------------------------------------------------------------------
\* Types of the state.
TypeOK ==
  /\ proc \in {"up", "panicked"}
  /\ routes \in Seq(Route) /\ Len(routes) <= MaxRoutes
  /\ opt \in Options \cup {Nil}
  /\ kept \in 0 .. Len(routes)
  /\ live \in BOOLEAN /\ shared \in BOOLEAN
  /\ old \in Seq(Route)
  /\ Len(mux) <= Len(IF shared THEN routes ELSE old)
  /\ touched \subseteq Paths
  /\ enabled \in BOOLEAN

\* Two routes never have the same method and path, and only the first route
\* of a path serves files (builder.go:224-277).
KeysUnique ==
  \A i, j \in DOMAIN routes :
    i < j /\ routes[i].path = routes[j].path
      => routes[i].method # routes[j].method /\ routes[j].fs = Nil

\* However routes came about, Build panics only over a path that has files
\* and, beside them, a handler for all methods, or over a route for more
\* methods below a route for fewer; files count for all methods, whatever
\* method they were given (builder.go:254-268, std_router.go:41, 72-89).
PanicNeedsOverlap ==
  proc = "panicked" =>
    \E i, j \in DOMAIN routes :
      LET a == routes[i]
          b == routes[j]
      IN \/ /\ a.path = b.path
            /\ a.fs # Nil
            /\ b.fs = Nil /\ b.method = All
         \/ /\ <<a.path, b.path>> \in Below
            /\ b.fs = Nil /\ b.method # All
            /\ a.fs # Nil \/ a.method \in {All, "GET"}

\* A handler goes on serving what the routes were when it was built, however
\* the builder is used afterwards; only a single file whose path has been
\* registered again may change under it (std_router.go:72-90).
HandlerIsFrozen ==
  \A i \in DOMAIN mux :
    \/ Response(i) = mux[i].content
    \/ IsSingleFile(mux[i].content) /\ mux[i].pattern[2] \in touched

\* After Compression(false) nothing is compressed until somebody switches
\* compression on again, for the builder, a route or the routes it is
\* extended with (builder.go:109-125, 201-203, std_router.go:99-111).
DisabledMeansOff ==
  ~enabled => \A i \in DOMAIN routes : Effective(routes[i].opt) = Nil

\* The table of routes, by method and path.
Key(r) == <<r.method, r.path>>
Keyed  == {Key(routes[i]) : i \in DOMAIN routes}
Table  == [k \in Keyed |->
             LET r == routes[SelectInSeq(routes, LAMBDA x : Key(x) = k)]
             IN [content |-> Content(r), opt |-> r.opt]]

Abstract == INSTANCE RouteTable WITH Get <- "GET", table <- Table, default <- opt

\* Every operation of the builder does to the table what its caller means by
\* it, and nothing else: whatever moves in memory, whichever *Route is used
\* and wherever a route comes from.  An option set through a *Route from
\* before a move is lost (builder.go:109-125, 181-277, route.go:34-47).
ImplementsTable ==
  /\ Abstract!Init
  /\ [][ /\ \A c \in HandlerCalls : Register(c) => Abstract!Put(Key(c), Content(c))
         /\ \A c \in FileCalls : Register(c) => Abstract!PutFiles(c.path, Content(c))
         /\ ExtendRoute =>
              LET r == Head(todo) IN
              IF r.fs = Nil THEN Abstract!Merge(Key(r), Content(r), r.opt)
                            ELSE Abstract!MergeFiles(r.path, Content(r), r.opt)
         /\ \A o \in Options \cup {Nil} : RouteCompression(o) =>
              IF live THEN Abstract!SetOption(Key(routes[kept]), o)
                      ELSE UNCHANGED Abstract!vars
         /\ DisableCompression => Abstract!Disable
         /\ \A o \in Options : EnableCompression(o) => Abstract!SetDefault(o)
         /\ Build => UNCHANGED Abstract!vars ]_vars

=============================================================================
