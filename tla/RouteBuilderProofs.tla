--------------------------- MODULE RouteBuilderProofs ---------------------------
(***************************************************************************)
(* Proofs about RouteBuilder, for any paths, methods, handlers, files and  *)
(* options, any number of routes and any routes to extend from.            *)
(***************************************************************************)
EXTENDS RouteBuilder, SequenceTheorems, WellFoundedInduction, TLAPS

-----------------------------------------------------------------------------
(***************************************************************************)
(* The inductive invariant.                                                *)
(***************************************************************************)

Contents == [handler : Handlers \cup {Nil}, fs : Files \cup {Nil}, file : Names \cup {Nil}]
Entry    == [pattern : Methods \X Paths, content : Contents, opt : Options \cup {Nil}]

\* What TypeOK does not say: Extend leaves room for the routes to come.
TodoOK ==
  /\ todo \in Seq(Route) /\ Len(routes) + Len(todo) <= MaxRoutes
  /\ mux \in Seq(Entry)

\* The array that the handler built last reads.
Array == IF shared THEN routes ELSE old

\* Route i of the array is still the one that the i-th pattern is for, and it
\* has the same file unless its path has been registered again.
FrozenOK ==
  \A i \in 1 .. Len(mux) : IsSingleFile(mux[i].content) =>
    /\ mux[i].content.handler = Nil
    /\ Array[i].path = mux[i].pattern[2]
    /\ \/ mux[i].pattern[2] \in touched
       \/ Array[i].fs = mux[i].content.fs /\ Array[i].file = mux[i].content.file

DisabledOK == ~enabled => opt = Nil /\ \A i \in 1 .. Len(routes) : routes[i].opt = Nil

IInv == TypeOK /\ TodoOK /\ KeysUnique /\ PanicNeedsOverlap /\ FrozenOK /\ DisabledOK

-----------------------------------------------------------------------------
LEMMA InitInv == Init => IInv
<1> SUFFICES ASSUME Init PROVE IInv
  OBVIOUS
<1> USE DEF Init
<1>1. TypeOK /\ TodoOK
  <2>1. TodoOK
    BY RouteBuilderAssumption DEF TodoOK
  <2>2. routes \in Seq(Route) /\ old \in Seq(Route) /\ kept \in 0 .. Len(routes)
    OBVIOUS
  <2>3. Len(routes) <= MaxRoutes /\ Len(mux) <= Len(Array)
    BY RouteBuilderAssumption DEF Array
  <2>4. live \in BOOLEAN /\ shared \in BOOLEAN /\ enabled \in BOOLEAN
    OBVIOUS
  <2>5. proc \in {"up", "panicked"} /\ opt \in Options \cup {Nil} /\ touched \subseteq Paths
    OBVIOUS
  <2> QED
    BY <2>1, <2>2, <2>3, <2>4, <2>5 DEF TypeOK, Array
<1>2. KeysUnique /\ PanicNeedsOverlap
  BY DEF KeysUnique, PanicNeedsOverlap
<1>3. FrozenOK /\ DisabledOK
  BY EmptySeq DEF FrozenOK, DisabledOK
<1> QED
  BY <1>1, <1>2, <1>3 DEF IInv

(***************************************************************************)
(* The loops of ensureRoute and ensureFiles find the first route there is. *)
(***************************************************************************)

LEMMA Least ==
  ASSUME NEW I \in SUBSET Nat, I # {}
  PROVE  Min(I) \in I /\ \A j \in I : Min(I) <= j
<1> DEFINE R == {ss \in Nat \X Nat : ss[1] < ss[2]}
<1>1. IsWellFoundedOn(R, Nat)
  BY NatLessThanWellFounded DEF OpToRel
<1> HIDE DEF R
<1>2. PICK m \in I : \A j \in I : <<j, m>> \notin R
  BY <1>1, WFMin
<1>3. \A j \in I : m <= j
  <2> SUFFICES ASSUME NEW j \in I, j < m PROVE FALSE
    OBVIOUS
  <2>1. <<j, m>> \in R
    BY DEF R
  <2> QED
    BY <1>2, <2>1
<1> QED
  BY <1>2, <1>3 DEF Min

\* Route r is the one that call c reuses, if it is the first such route.
Fits(r, c) == r.path = c.path /\ (c.fs = Nil => r.method = c.method)

LEMMA SlotIsFirst ==
  ASSUME routes \in Seq(Route), NEW c
  PROVE  /\ Slot(c) \in 0 .. Len(routes)
         /\ Slot(c) = 0 => \A i \in 1 .. Len(routes) : ~Fits(routes[i], c)
         /\ Slot(c) # 0 => /\ Fits(routes[Slot(c)], c)
                           /\ \A i \in 1 .. Len(routes) : i < Slot(c) => ~Fits(routes[i], c)
<1> DEFINE I == {i \in 1 .. Len(routes) : Fits(routes[i], c)}
<1>1. Slot(c) = IF I # {} THEN Min(I) ELSE 0
  BY DEF Slot, SelectInSeq, Fits
<1>2. I \in SUBSET Nat /\ Len(routes) \in Nat
  BY LenProperties
<1>3. CASE I = {}
  BY <1>1, <1>2, <1>3
<1>4. CASE I # {}
  <2>1. Slot(c) \in I /\ \A j \in I : Slot(c) <= j
    BY <1>1, <1>2, <1>4, Least
  <2> QED
    BY <1>2, <2>1
<1> QED
  BY <1>3, <1>4

(***************************************************************************)
(* Registering call c leaves routes R: one route is new or reused.         *)
(***************************************************************************)

Calls == [method : Methods, path : Paths, handler : Handlers \cup {Nil},
          fs : Files \cup {Nil}, file : Names \cup {Nil}]

Places(R, c) ==
  /\ R \in Seq(Route)
  /\ Len(R) = IF Slot(c) = 0 THEN Len(routes) + 1 ELSE Len(routes)
  /\ Place(c) \in 1 .. Len(R)
  /\ \A i \in 1 .. Len(routes) : i # Place(c) => R[i] = routes[i]
  /\ R[Place(c)].path = c.path /\ R[Place(c)].fs = c.fs
  /\ R[Place(c)].method = IF Slot(c) = 0 THEN c.method ELSE routes[Slot(c)].method

LEMMA CallsTyped ==
  /\ HandlerCalls \cup FileCalls \subseteq Calls
  /\ \A r \in Route : CallOf(r) \in Calls
BY RouteBuilderAssumption DEF HandlerCalls, FileCalls, Calls, Route, CallOf

LEMMA RegisteredPlaces ==
  ASSUME TypeOK, NEW c \in Calls
  PROVE  /\ Places(Registered(c), c)
         /\ Registered(c)[Place(c)].opt = IF Slot(c) = 0 THEN opt ELSE routes[Slot(c)].opt
<1> DEFINE R == Registered(c)
<1>0. routes \in Seq(Route) /\ Len(routes) \in Nat /\ opt \in Options \cup {Nil}
  BY LenProperties DEF TypeOK
<1>1. CASE Slot(c) = 0
  <2>1. Fresh(c) \in Route /\ Fresh(c).path = c.path /\ Fresh(c).fs = c.fs
        /\ Fresh(c).method = c.method /\ Fresh(c).opt = opt
    BY <1>0 DEF Fresh, Calls, Route
  <2>2. R = Append(routes, Fresh(c)) /\ Place(c) = Len(routes) + 1
    BY <1>1 DEF Registered, Place
  <2> HIDE DEF R
  <2>3. /\ R \in Seq(Route) /\ Len(R) = Len(routes) + 1 /\ R[Len(routes) + 1] = Fresh(c)
        /\ \A i \in 1 .. Len(routes) : R[i] = routes[i]
    BY <1>0, <2>1, <2>2, AppendProperties
  <2> QED
    BY <1>0, <1>1, <2>1, <2>2, <2>3 DEF Places, R
<1>2. CASE Slot(c) # 0
  <2> DEFINE k == Slot(c)
  <2>1. k \in 1 .. Len(routes) /\ Place(c) = k
    BY <1>0, <1>2, SlotIsFirst DEF Place
  <2>2. routes[k] \in Route /\ Fits(routes[k], c)
    BY <1>0, <1>2, <2>1, SlotIsFirst, ElementOfSeq
  <2>3. /\ Reused(routes[k], c) \in Route
        /\ Reused(routes[k], c).path = c.path /\ Reused(routes[k], c).fs = c.fs
        /\ Reused(routes[k], c).method = routes[k].method
        /\ Reused(routes[k], c).opt = routes[k].opt
    BY <2>2 DEF Reused, Calls, Route, Fits
  <2>4. R = [routes EXCEPT ![k] = Reused(routes[k], c)]
    BY <1>2 DEF Registered
  <2> HIDE DEF R, k
  <2>5. /\ R \in Seq(Route) /\ Len(R) = Len(routes) /\ R[k] = Reused(routes[k], c)
        /\ \A i \in 1 .. Len(routes) : i # k => R[i] = routes[i]
    BY <1>0, <2>1, <2>3, <2>4, ExceptSeq
  <2> QED
    BY <1>0, <1>2, <2>1, <2>3, <2>5 DEF Places, R, k
<1> QED
  BY <1>1, <1>2

\* So it is with the options of the route replaced, as Extend does it.
LEMMA ReplacedPlaces ==
  ASSUME TypeOK, NEW c \in Calls, NEW o \in Options \cup {Nil}
  PROVE  LET R == [Registered(c) EXCEPT ![Place(c)].opt = o]
         IN Places(R, c) /\ R[Place(c)].opt = o
<1> DEFINE Q == Registered(c)
           k == Place(c)
           R == [Q EXCEPT ![k].opt = o]
<1>1. Places(Q, c)
  BY RegisteredPlaces
<1>2. R = [Q EXCEPT ![k] = [Q[k] EXCEPT !.opt = o]]
  OBVIOUS
<1>3. Q \in Seq(Route) /\ k \in 1 .. Len(Q)
  BY <1>1 DEF Places
<1> HIDE DEF Q, k, R
<1>4. Q[k] \in Route
  BY <1>3, ElementOfSeq
<1> DEFINE q == [Q[k] EXCEPT !.opt = o]
<1>5. q \in Route /\ q.opt = o /\ q.path = Q[k].path /\ q.fs = Q[k].fs /\ q.method = Q[k].method
  BY <1>4 DEF Route
<1> HIDE DEF q
<1>6. /\ R \in Seq(Route) /\ Len(R) = Len(Q) /\ R[k] = q
      /\ \A i \in 1 .. Len(Q) : i # k => R[i] = Q[i]
  BY <1>2, <1>3, <1>5, ExceptSeq DEF q
<1>7. Len(routes) \in Nat /\ Len(routes) <= Len(Q)
  BY <1>1, LenProperties DEF Places, TypeOK
<1>8. Places(R, c)
  BY <1>1, <1>5, <1>6, <1>7 DEF Places, k
<1> QED
  BY <1>5, <1>6, <1>8 DEF R, Q, k

LEMMA PlacesKeepsKeys ==
  ASSUME TypeOK, KeysUnique, NEW c \in Calls, Places(routes', c)
  PROVE  KeysUnique'
<1> DEFINE n == Len(routes)
           k == Place(c)
<1>0. routes \in Seq(Route) /\ n \in Nat /\ DOMAIN routes = 1 .. n
  BY LenProperties DEF TypeOK
<1>1. routes' \in Seq(Route) /\ DOMAIN routes' = 1 .. Len(routes') /\ Len(routes') \in Nat
  BY LenProperties DEF Places
<1> SUFFICES ASSUME NEW i \in 1 .. Len(routes'), NEW j \in 1 .. Len(routes'),
                    i < j, routes'[i].path = routes'[j].path
             PROVE  routes'[i].method # routes'[j].method /\ routes'[j].fs = Nil
  BY <1>1 DEF KeysUnique
<1>2. /\ Slot(c) \in 0 .. n
      /\ Slot(c) = 0 => \A m \in 1 .. n : ~Fits(routes[m], c)
      /\ Slot(c) # 0 => /\ Fits(routes[Slot(c)], c)
                        /\ \A m \in 1 .. n : m < Slot(c) => ~Fits(routes[m], c)
  BY <1>0, SlotIsFirst
<1>3. \A m \in 1 .. n : m # k => routes'[m] = routes[m]
  BY DEF Places
<1>4. CASE Slot(c) = 0
  <2>1. k = n + 1 /\ Len(routes') = n + 1
    BY <1>4 DEF Places, Place
  <2>2. CASE j = k
    <3>1. i \in 1 .. n /\ routes'[i] = routes[i] /\ ~Fits(routes[i], c)
      BY <1>0, <1>2, <1>3, <1>4, <2>1, <2>2
    <3>2. routes'[j].path = c.path /\ routes'[j].fs = c.fs /\ routes'[j].method = c.method
      BY <1>4, <2>2 DEF Places
    <3> QED
      BY <3>1, <3>2 DEF Fits
  <2>3. CASE j # k
    <3>1. i \in 1 .. n /\ j \in 1 .. n /\ routes'[i] = routes[i] /\ routes'[j] = routes[j]
      BY <1>0, <1>3, <2>1, <2>3
    <3> QED
      BY <1>0, <3>1 DEF KeysUnique
  <2> QED
    BY <2>2, <2>3
<1>5. CASE Slot(c) # 0
  <2>1. /\ k = Slot(c) /\ k \in 1 .. n /\ Len(routes') = n
        /\ routes'[k].path = c.path /\ routes'[k].fs = c.fs
        /\ routes'[k].method = routes[k].method
    BY <1>2, <1>5 DEF Places, Place
  <2>2. routes[k].path = c.path
    BY <1>2, <1>5, <2>1 DEF Fits
  <2>3. \A m \in 1 .. n : /\ routes'[m].path = routes[m].path
                          /\ routes'[m].method = routes[m].method
                          /\ m # k => routes'[m].fs = routes[m].fs
    BY <1>3, <2>1, <2>2
  <2>4. routes[i].path = routes[j].path /\ routes'[i].method # routes'[j].method
        /\ routes[j].fs = Nil
    BY <1>0, <2>1, <2>3 DEF KeysUnique
  <2>5. CASE j = k
    <3>1. ~Fits(routes[i], c)
      BY <1>2, <1>5, <2>1, <2>5
    <3> QED
      BY <2>1, <2>2, <2>4, <2>5, <3>1 DEF Fits
  <2> QED
    BY <2>1, <2>3, <2>4, <2>5
<1> QED
  BY <1>4, <1>5

LEMMA PlacesKeepsFiles ==
  ASSUME TypeOK, TodoOK, FrozenOK, NEW c \in Calls, Places(routes', c), UNCHANGED mux,
         touched' = touched \cup {c.path}, NEW moved \in MayMove(c), AfterMove(moved)
  PROVE  /\ FrozenOK'
         /\ shared' \in BOOLEAN /\ old' \in Seq(Route) /\ Len(mux') <= Len(Array')
<1>0. /\ routes \in Seq(Route) /\ old \in Seq(Route) /\ shared \in BOOLEAN
      /\ Len(routes) \in Nat /\ Len(mux) \in Nat /\ Len(mux) <= Len(Array)
  BY LenProperties DEF TypeOK, TodoOK, Array
<1>1. moved \in BOOLEAN /\ (moved => Slot(c) = 0)
  BY DEF MayMove
<1>2. CASE shared /\ ~moved
  <2>1. shared' /\ old' = old /\ Array = routes /\ Array' = routes'
    BY <1>2 DEF AfterMove, Array
  <2>2. Len(routes') >= Len(routes)
    BY <1>0 DEF Places
  <2>3. ASSUME NEW i \in 1 .. Len(mux)
        PROVE  \/ routes'[i] = routes[i]
               \/ routes'[i].path = routes[i].path /\ routes[i].path = c.path
    <3>1. i \in 1 .. Len(routes)
      BY <1>0, <2>1
    <3>2. CASE i = Place(c)
      <4>1. Slot(c) # 0 /\ i = Slot(c)
        BY <1>0, <3>1, <3>2 DEF Place
      <4>2. routes[i].path = c.path
        BY <1>0, <4>1, SlotIsFirst DEF Fits
      <4> QED
        BY <3>2, <4>2 DEF Places
    <3> QED
      BY <3>1, <3>2 DEF Places
  <2>4. FrozenOK'
    BY <2>1, <2>3 DEF FrozenOK
  <2>5. Len(routes') \in Nat
    BY LenProperties DEF Places
  <2> QED
    BY <1>0, <2>1, <2>2, <2>4, <2>5
<1>3. CASE ~(shared /\ ~moved)
  <2>1. shared' = FALSE /\ old' = Array
    BY <1>0, <1>1, <1>3 DEF AfterMove, Array
  <2>2. Array' = Array /\ Array \in Seq(Route)
    BY <1>0, <2>1 DEF Array
  <2>3. FrozenOK'
    BY <2>2 DEF FrozenOK
  <2> QED
    BY <1>0, <2>1, <2>2, <2>3
<1> QED
  BY <1>2, <1>3

-----------------------------------------------------------------------------
(***************************************************************************)
(* Every operation preserves the invariant.                                *)
(***************************************************************************)

LEMMA RegisterInv ==
  ASSUME IInv, NEW c \in HandlerCalls \cup FileCalls, Register(c)
  PROVE  IInv'
<1>1. c \in Calls
  BY CallsTyped
<1>2. /\ Places(routes', c)
      /\ routes'[Place(c)].opt = IF Slot(c) = 0 THEN opt ELSE routes[Slot(c)].opt
  BY <1>1, RegisteredPlaces DEF IInv, Register
<1>3. PICK moved \in MayMove(c) :
        /\ AfterMove(moved)
        /\ \/ kept' = Place(c) /\ live' = TRUE
           \/ kept' = kept /\ live' = (live /\ ~moved)
  BY DEF Register
<1>4. /\ FrozenOK' /\ shared' \in BOOLEAN /\ old' \in Seq(Route) /\ Len(mux') <= Len(Array')
  BY <1>1, <1>2, <1>3, PlacesKeepsFiles DEF Register, IInv
<1>5. KeysUnique'
  BY <1>1, <1>2, PlacesKeepsKeys DEF IInv
<1>6. /\ Len(routes) \in Nat /\ Len(routes') \in Nat /\ Slot(c) \in 0 .. Len(routes)
      /\ Len(routes') = (IF Slot(c) = 0 THEN Len(routes) + 1 ELSE Len(routes))
  BY <1>2, LenProperties, SlotIsFirst DEF Places, IInv, TypeOK
<1>7. Len(routes') <= MaxRoutes /\ Len(todo) = 0
  BY <1>6 DEF Register, Place, IInv, TypeOK, RouteBuilderAssumption
<1>8. kept' \in 0 .. Len(routes') /\ live' \in BOOLEAN
  <2>1. kept' \in 0 .. Len(routes')
    BY <1>2, <1>3, <1>6 DEF Places, IInv, TypeOK
  <2>2. live' \in BOOLEAN
    BY <1>3
  <2> QED
    BY <2>1, <2>2
<1>9. TypeOK'
  BY <1>1, <1>2, <1>4, <1>7, <1>8 DEF Register, Places, IInv, TypeOK, Array, Calls
<1>10. TodoOK'
  BY <1>6, <1>7 DEF Register, IInv, TodoOK
<1>11. PanicNeedsOverlap'
  BY DEF Register, PanicNeedsOverlap
<1>12. DisabledOK'
  <2> SUFFICES ASSUME ~enabled, NEW i \in 1 .. Len(routes') PROVE routes'[i].opt = Nil
    BY DEF DisabledOK, Register, IInv
  <2>1. opt = Nil /\ \A j \in 1 .. Len(routes) : routes[j].opt = Nil
    BY DEF IInv, DisabledOK
  <2>2. CASE i = Place(c)
    BY <1>2, <1>6, <2>1, <2>2 DEF Place
  <2>3. CASE i # Place(c)
    BY <1>2, <1>6, <2>1, <2>3 DEF Places, Place
  <2> QED
    BY <2>2, <2>3
<1> QED
  BY <1>4, <1>5, <1>9, <1>10, <1>11, <1>12 DEF IInv

LEMMA ExtendRouteInv ==
  ASSUME IInv, ExtendRoute
  PROVE  IInv'
<1> DEFINE r == Head(todo)
           c == CallOf(r)
<1>0. todo \in Seq(Route) /\ todo # <<>>
  BY DEF ExtendRoute, IInv, TodoOK
<1>1. r \in Route /\ c \in Calls /\ c.path = r.path /\ r.opt \in Options \cup {Nil}
  <2>1. r \in Route
    BY <1>0, HeadTailProperties
  <2> QED
    BY <2>1, CallsTyped DEF CallOf, Route
<1>2. /\ Places(routes', c) /\ routes'[Place(c)].opt = r.opt
      /\ touched' = touched \cup {c.path}
  BY <1>1, ReplacedPlaces DEF IInv, ExtendRoute, OptionOf
<1>3. PICK moved \in MayMove(c) : AfterMove(moved) /\ live' = (live /\ ~moved)
  BY DEF ExtendRoute
<1> HIDE DEF r, c
<1>4. /\ FrozenOK' /\ shared' \in BOOLEAN /\ old' \in Seq(Route) /\ Len(mux') <= Len(Array')
  BY <1>1, <1>2, <1>3, PlacesKeepsFiles DEF ExtendRoute, IInv
<1>5. KeysUnique'
  BY <1>1, <1>2, PlacesKeepsKeys DEF IInv
<1>6. /\ Len(routes) \in Nat /\ Len(routes') \in Nat /\ Slot(c) \in 0 .. Len(routes)
      /\ Len(routes') = (IF Slot(c) = 0 THEN Len(routes) + 1 ELSE Len(routes))
  BY <1>2, LenProperties, SlotIsFirst DEF Places, IInv, TypeOK
<1>7. todo' \in Seq(Route) /\ Len(todo') = Len(todo) - 1 /\ Len(todo) \in Nat \ {0}
  BY <1>0, HeadTailProperties, LenProperties, EmptySeq DEF ExtendRoute
<1>8. Len(routes') + Len(todo') <= MaxRoutes /\ Len(routes') <= MaxRoutes
  BY <1>6, <1>7, RouteBuilderAssumption DEF IInv, TodoOK
<1>9. kept' \in 0 .. Len(routes') /\ live' \in BOOLEAN
  BY <1>3, <1>6 DEF ExtendRoute, IInv, TypeOK
<1>10. enabled' \in BOOLEAN /\ (~enabled' => ~enabled /\ r.opt = Nil)
  BY DEF ExtendRoute, r, IInv, TypeOK
<1>11. TypeOK'
  BY <1>1, <1>2, <1>4, <1>8, <1>9, <1>10
  DEF ExtendRoute, Places, IInv, TypeOK, Array, Calls
<1>12. TodoOK'
  BY <1>7, <1>8 DEF ExtendRoute, IInv, TodoOK
<1>13. PanicNeedsOverlap'
  BY DEF ExtendRoute, PanicNeedsOverlap
<1>14. DisabledOK'
  <2> SUFFICES ASSUME ~enabled', NEW i \in 1 .. Len(routes')
               PROVE  opt' = Nil /\ routes'[i].opt = Nil
    BY <1>10 DEF DisabledOK, ExtendRoute, IInv
  <2>0. opt' = opt
    BY DEF ExtendRoute
  <2>1. opt = Nil /\ \A j \in 1 .. Len(routes) : routes[j].opt = Nil
    BY <1>10 DEF IInv, DisabledOK
  <2>2. CASE i = Place(c)
    BY <1>2, <1>10, <2>0, <2>1, <2>2
  <2>3. CASE i # Place(c)
    BY <1>2, <1>6, <2>0, <2>1, <2>3 DEF Places, Place
  <2> QED
    BY <2>2, <2>3
<1> QED
  BY <1>4, <1>5, <1>11, <1>12, <1>13, <1>14 DEF IInv

\* Changes of options leave the rest of every route as it is.
SameRoutes ==
  /\ routes' \in Seq(Route) /\ Len(routes') = Len(routes)
  /\ \A i \in 1 .. Len(routes) :
       /\ routes'[i].method = routes[i].method /\ routes'[i].path = routes[i].path
       /\ routes'[i].fs = routes[i].fs /\ routes'[i].file = routes[i].file
       /\ routes'[i].handler = routes[i].handler

LEMMA OptionsInv ==
  ASSUME IInv, SameRoutes, proc = "up", opt' \in Options \cup {Nil}, enabled' \in BOOLEAN,
         DisabledOK', UNCHANGED <<proc, kept, live, todo, mux, shared, old, touched>>
  PROVE  IInv'
<1>1. /\ Len(routes) \in Nat /\ DOMAIN routes = 1 .. Len(routes)
      /\ DOMAIN routes' = 1 .. Len(routes') /\ routes \in Seq(Route)
  BY LenProperties DEF SameRoutes, IInv, TypeOK
<1>2. TypeOK' /\ TodoOK'
  <2>1. Len(mux') <= Len(IF shared' THEN routes' ELSE old')
    BY DEF IInv, TypeOK, SameRoutes
  <2> QED
    BY <1>1, <2>1 DEF IInv, TypeOK, TodoOK, SameRoutes
<1>3. KeysUnique'
  BY <1>1 DEF IInv, KeysUnique, SameRoutes
<1>4. PanicNeedsOverlap'
  BY DEF PanicNeedsOverlap
<1>5. FrozenOK'
  <2>1. ASSUME NEW i \in 1 .. Len(mux)
        PROVE  /\ Array'[i].path = Array[i].path /\ Array'[i].fs = Array[i].fs
               /\ Array'[i].file = Array[i].file
    <3>1. CASE shared
      <4>1. i \in 1 .. Len(routes)
        BY <1>1, <3>1, LenProperties DEF IInv, TypeOK, TodoOK
      <4> QED
        BY <3>1, <4>1 DEF Array, SameRoutes
    <3>2. CASE ~shared
      BY <3>2 DEF Array
    <3> QED
      BY <3>1, <3>2
  <2> QED
    BY <2>1 DEF IInv, FrozenOK
<1> QED
  BY <1>2, <1>3, <1>4, <1>5 DEF IInv

LEMMA OptionReplaced ==
  ASSUME NEW r \in Route, NEW o \in Options \cup {Nil}
  PROVE  LET q == [r EXCEPT !.opt = o]
         IN /\ q \in Route /\ q.opt = o
            /\ q.method = r.method /\ q.path = r.path /\ q.fs = r.fs /\ q.file = r.file
            /\ q.handler = r.handler
BY DEF Route

LEMMA RouteOption ==
  ASSUME IInv, NEW o \in Options \cup {Nil}, RouteCompression(o)
  PROVE  /\ SameRoutes /\ kept \in 1 .. Len(routes)
         /\ live => routes'[kept].opt = o
         /\ \A i \in 1 .. Len(routes) : ~(live /\ i = kept) => routes'[i].opt = routes[i].opt
<1>1. /\ routes \in Seq(Route) /\ Len(routes) \in Nat
      /\ \A i \in 1 .. Len(routes) : routes[i] \in Route
  BY LenProperties, ElementOfSeq DEF IInv, TypeOK
<1>2. kept \in 1 .. Len(routes)
  BY <1>1 DEF RouteCompression, IInv, TypeOK
<1>3. CASE live
  <2> DEFINE q == [routes[kept] EXCEPT !.opt = o]
  <2>1. routes' = [routes EXCEPT ![kept] = q]
    BY <1>3 DEF RouteCompression
  <2>2. /\ q \in Route /\ q.opt = o /\ q.method = routes[kept].method
        /\ q.path = routes[kept].path /\ q.fs = routes[kept].fs /\ q.file = routes[kept].file
        /\ q.handler = routes[kept].handler
    BY <1>1, <1>2, OptionReplaced
  <2> HIDE DEF q
  <2>3. /\ routes' \in Seq(Route) /\ Len(routes') = Len(routes) /\ routes'[kept] = q
        /\ \A i \in 1 .. Len(routes) : i # kept => routes'[i] = routes[i]
    BY <1>1, <1>2, <2>1, <2>2, ExceptSeq
  <2>4. ASSUME NEW i \in 1 .. Len(routes)
        PROVE  /\ routes'[i].method = routes[i].method /\ routes'[i].path = routes[i].path
               /\ routes'[i].fs = routes[i].fs /\ routes'[i].file = routes[i].file
               /\ routes'[i].handler = routes[i].handler
    <3>1. CASE i = kept
      BY <2>2, <2>3, <3>1
    <3>2. CASE i # kept
      BY <2>3, <3>2
    <3> QED
      BY <3>1, <3>2
  <2>5. SameRoutes
    BY <2>3, <2>4 DEF SameRoutes
  <2>6. \A i \in 1 .. Len(routes) : i # kept => routes'[i].opt = routes[i].opt
    BY <2>3
  <2> QED
    BY <1>2, <1>3, <2>2, <2>3, <2>5, <2>6
<1>4. CASE ~live
  <2>1. routes' = routes
    BY <1>4 DEF RouteCompression
  <2> QED
    BY <1>1, <1>2, <1>4, <2>1 DEF SameRoutes
<1> QED
  BY <1>3, <1>4

LEMMA NoOptions ==
  ASSUME IInv, DisableCompression
  PROVE  SameRoutes /\ \A i \in 1 .. Len(routes) : routes'[i].opt = Nil
<1>1. /\ routes \in Seq(Route) /\ Len(routes) \in Nat /\ DOMAIN routes = 1 .. Len(routes)
      /\ \A i \in 1 .. Len(routes) : routes[i] \in Route
  BY LenProperties, ElementOfSeq DEF IInv, TypeOK
<1>2. routes' = [i \in 1 .. Len(routes) |-> [routes[i] EXCEPT !.opt = Nil]]
  BY <1>1 DEF DisableCompression, Uncompressed
<1>3. ASSUME NEW i \in 1 .. Len(routes)
      PROVE  /\ routes'[i] \in Route /\ routes'[i].opt = Nil
             /\ routes'[i].method = routes[i].method /\ routes'[i].path = routes[i].path
             /\ routes'[i].fs = routes[i].fs /\ routes'[i].file = routes[i].file
             /\ routes'[i].handler = routes[i].handler
  <2>1. routes[i] \in Route /\ routes'[i] = [routes[i] EXCEPT !.opt = Nil]
    BY <1>1, <1>2
  <2>2. Nil \in Options \cup {Nil}
    OBVIOUS
  <2> QED
    BY <2>1, <2>2, OptionReplaced
<1>4. routes' \in Seq(Route) /\ Len(routes') = Len(routes)
  BY <1>1, <1>2, <1>3, LenProperties
<1> QED
  BY <1>3, <1>4 DEF SameRoutes

LEMMA CompressionInv ==
  ASSUME IInv,
         \/ \E o \in Options \cup {Nil} : RouteCompression(o)
         \/ DisableCompression
         \/ \E o \in Options : EnableCompression(o)
  PROVE  IInv'
<1>1. ASSUME NEW o \in Options \cup {Nil}, RouteCompression(o)
      PROVE  IInv'
  <2>1. /\ opt' = opt /\ opt \in Options \cup {Nil} /\ enabled' \in BOOLEAN /\ proc = "up"
        /\ UNCHANGED <<proc, kept, live, todo, mux, shared, old, touched>>
    BY <1>1 DEF RouteCompression, IInv, TypeOK, muxVars
  <2>2. /\ SameRoutes /\ (live => routes'[kept].opt = o)
        /\ \A i \in 1 .. Len(routes) : ~(live /\ i = kept) => routes'[i].opt = routes[i].opt
    BY <1>1, RouteOption
  <2>3. ~enabled' => ~enabled /\ (live => o = Nil)
    BY <1>1 DEF RouteCompression
  <2>4. DisabledOK'
    BY <2>1, <2>2, <2>3 DEF IInv, DisabledOK, SameRoutes
  <2> QED
    BY <2>1, <2>2, <2>4, OptionsInv
<1>2. CASE DisableCompression
  <2>1. SameRoutes /\ DisabledOK'
    BY <1>2, NoOptions DEF DisableCompression, DisabledOK, SameRoutes
  <2> QED
    BY <1>2, <2>1, OptionsInv DEF DisableCompression, muxVars
<1>3. ASSUME NEW o \in Options, EnableCompression(o)
      PROVE  IInv'
  <2>1. SameRoutes /\ DisabledOK'
    BY <1>3 DEF EnableCompression, SameRoutes, DisabledOK, IInv, TypeOK
  <2> QED
    BY <1>3, <2>1, OptionsInv DEF EnableCompression, muxVars
<1> QED
  BY <1>1, <1>2, <1>3

LEMMA ConflictsOverlap ==
  ASSUME IInv, NEW i \in DOMAIN routes, NEW j \in DOMAIN routes, i # j,
         Conflict(Pattern(routes[i]), Pattern(routes[j]))
  PROVE  \E m, n \in DOMAIN routes :
           LET a == routes[m]
               b == routes[n]
           IN \/ /\ a.path = b.path
                 /\ a.fs # Nil
                 /\ b.fs = Nil /\ b.method = All
              \/ /\ <<a.path, b.path>> \in Below
                 /\ b.fs = Nil /\ b.method # All
                 /\ a.fs # Nil \/ a.method \in {All, "GET"}
<1> DEFINE a == routes[i]
           b == routes[j]
<1>0. i \in Nat /\ j \in Nat
  BY LenProperties DEF IInv, TypeOK
<1>1. \A r : /\ Pattern(r)[2] = r.path
             /\ Pattern(r)[1] = IF r.fs # Nil \/ r.method = All THEN All ELSE r.method
  BY DEF Pattern
<1>2. CASE Pattern(a) = Pattern(b)
  <2>1. a.path = b.path /\ a.method # b.method
    BY <1>0, <1>1, <1>2 DEF IInv, KeysUnique
  <2>2. a.fs = Nil \/ b.fs = Nil
    BY <1>0, <2>1 DEF IInv, KeysUnique
  <2>3. \/ a.fs # Nil /\ b.fs = Nil /\ b.method = All
        \/ b.fs # Nil /\ a.fs = Nil /\ a.method = All
    BY <1>1, <1>2, <2>1, <2>2
  <2> QED
    BY <2>1, <2>3
<1>3. CASE /\ <<Pattern(a)[2], Pattern(b)[2]>> \in Below
           /\ MoreMethods(Pattern(a)[1], Pattern(b)[1])
  <2>1. /\ b.fs = Nil /\ b.method # All
        /\ a.fs # Nil \/ a.method \in {All, "GET"}
    BY <1>1, <1>3, RouteBuilderAssumption DEF MoreMethods
  <2> QED
    BY <1>1, <1>3, <2>1
<1> QED
  BY <1>2, <1>3 DEF Conflict

LEMMA BuildInv ==
  ASSUME IInv, Build
  PROVE  IInv'
<1>0. /\ routes \in Seq(Route) /\ Len(routes) \in Nat /\ DOMAIN routes = 1 .. Len(routes)
      /\ \A i \in 1 .. Len(routes) : routes[i] \in Route
      /\ UNCHANGED <<routes, opt, kept, live, todo, enabled>>
  BY LenProperties, ElementOfSeq DEF IInv, TypeOK, Build
<1>1. KeysUnique' /\ DisabledOK'
  BY <1>0 DEF IInv, KeysUnique, DisabledOK
<1>2. CASE \E i, j \in DOMAIN routes : i # j /\ Conflict(Pattern(routes[i]), Pattern(routes[j]))
  <2>1. proc' = "panicked" /\ UNCHANGED <<mux, shared, old, touched>>
    BY <1>2 DEF Build, muxVars
  <2>2. PanicNeedsOverlap'
    BY <1>0, <1>2, ConflictsOverlap DEF PanicNeedsOverlap
  <2>3. TypeOK' /\ TodoOK' /\ FrozenOK'
    BY <1>0, <2>1 DEF IInv, TypeOK, TodoOK, FrozenOK, Array
  <2> QED
    BY <1>1, <2>2, <2>3 DEF IInv
<1>3. CASE ~\E i, j \in DOMAIN routes : i # j /\ Conflict(Pattern(routes[i]), Pattern(routes[j]))
  <2>1. /\ mux' = [i \in 1 .. Len(routes) |->
                     [pattern |-> Pattern(routes[i]), content |-> Content(routes[i]),
                      opt |-> Effective(routes[i].opt)]]
        /\ proc' = "up" /\ shared' = TRUE /\ old' = <<>> /\ touched' = {}
    BY <1>0, <1>3 DEF Build
  <2>2. ASSUME NEW i \in 1 .. Len(routes)
        PROVE  /\ mux'[i] \in Entry /\ mux'[i].content = Content(routes[i])
               /\ mux'[i].pattern[2] = routes[i].path
    <3>1. Pattern(routes[i]) \in Methods \X Paths /\ Pattern(routes[i])[2] = routes[i].path
      BY <1>0, RouteBuilderAssumption DEF Pattern, Route
    <3>2. Content(routes[i]) \in Contents
      BY <1>0 DEF Content, Contents, Route
    <3>3. Effective(routes[i].opt) \in Options \cup {Nil}
      BY <1>0 DEF Effective, Route, IInv, TypeOK
    <3> QED
      BY <2>1, <3>1, <3>2, <3>3 DEF Entry
  <2>3. mux' \in Seq(Entry) /\ Len(mux') = Len(routes)
    <3>1. mux' \in [1 .. Len(routes) -> Entry]
      BY <2>1, <2>2
    <3> QED
      BY <1>0, <3>1, LenProperties
  <2>4. TodoOK'
    BY <1>0, <2>3 DEF IInv, TodoOK
  <2>5. Array' = routes
    BY <1>0, <2>1 DEF Array
  <2>6. TypeOK'
    <3>1. Len(mux') <= Len(IF shared' THEN routes' ELSE old')
      BY <1>0, <2>1, <2>3
    <3>2. old' \in Seq(Route) /\ touched' \subseteq Paths /\ shared' \in BOOLEAN
      BY <2>1
    <3> QED
      BY <1>0, <2>1, <3>1, <3>2 DEF IInv, TypeOK
  <2>7. FrozenOK'
    <3>1. ASSUME NEW i \in 1 .. Len(mux'), IsSingleFile(mux'[i].content)
          PROVE  /\ mux'[i].content.handler = Nil /\ Array'[i].path = mux'[i].pattern[2]
                 /\ Array'[i].fs = mux'[i].content.fs /\ Array'[i].file = mux'[i].content.file
      <4>1. i \in 1 .. Len(routes) /\ Array'[i] = routes[i] /\ mux'[i].content = Content(routes[i])
        BY <2>2, <2>3, <2>5
      <4>2. mux'[i].content.fs # Nil /\ mux'[i].content.file # Nil
        BY <3>1 DEF IsSingleFile
      <4> QED
        BY <2>2, <4>1, <4>2 DEF Content
    <3> QED
      BY <3>1 DEF FrozenOK
  <2>8. PanicNeedsOverlap'
    BY <2>1 DEF PanicNeedsOverlap
  <2> QED
    BY <1>1, <2>4, <2>6, <2>7, <2>8 DEF IInv
<1> QED
  BY <1>2, <1>3

LEMMA NextInv ==
  ASSUME IInv, Next
  PROVE  IInv'
<1>1. ASSUME NEW src \in Sources, Extend(src)
      PROVE  IInv'
  <2>1. /\ todo' \in Seq(Route) /\ Len(routes) + Len(todo') <= MaxRoutes
        /\ UNCHANGED <<proc, routes, opt, kept, live, mux, shared, old, touched, enabled>>
    BY <1>1, SourcesAssumption DEF Extend, muxVars
  <2>2. TypeOK' /\ TodoOK'
    BY <2>1 DEF IInv, TypeOK, TodoOK
  <2>3. KeysUnique' /\ PanicNeedsOverlap'
    BY <2>1 DEF IInv, KeysUnique, PanicNeedsOverlap
  <2>4. FrozenOK' /\ DisabledOK'
    BY <2>1 DEF IInv, FrozenOK, Array, DisabledOK
  <2> QED
    BY <2>2, <2>3, <2>4 DEF IInv
<1> QED
  BY <1>1, RegisterInv, ExtendRouteInv, CompressionInv, BuildInv DEF Next

-----------------------------------------------------------------------------
(***************************************************************************)
(* Theorems.                                                               *)
(***************************************************************************)

\* The invariant holds of every behaviour.
THEOREM Inductive == Spec => []IInv
<1>1. IInv /\ UNCHANGED vars => IInv'
  <2> SUFFICES ASSUME IInv, UNCHANGED vars PROVE IInv'
    OBVIOUS
  <2>1. UNCHANGED <<proc, routes, opt, kept, live, todo, mux, shared, old, touched, enabled>>
    BY DEF vars
  <2>2. TypeOK' /\ TodoOK'
    BY <2>1 DEF IInv, TypeOK, TodoOK
  <2>3. KeysUnique' /\ PanicNeedsOverlap'
    BY <2>1 DEF IInv, KeysUnique, PanicNeedsOverlap
  <2>4. FrozenOK' /\ DisabledOK'
    BY <2>1 DEF IInv, FrozenOK, Array, DisabledOK
  <2> QED
    BY <2>2, <2>3, <2>4 DEF IInv
<1>2. IInv /\ [Next]_vars => IInv'
  BY <1>1, NextInv
<1> QED
  BY InitInv, <1>2, PTL DEF Spec

\* The state is well-typed, and every pattern of a handler has a route behind
\* it in the array that the handler reads.
THEOREM TypeCorrect == Spec => []TypeOK
<1>1. IInv => TypeOK
  BY DEF IInv
<1> QED
  BY <1>1, Inductive, PTL

\* Registering never makes two routes of one method and path, and the files of
\* a path are its first route, also when the routes come from other builders.
THEOREM RoutesAreUnique == Spec => []KeysUnique
<1>1. IInv => KeysUnique
  BY DEF IInv
<1> QED
  BY <1>1, Inductive, PTL

\* Build panics only over files beside a handler for all methods, or over a
\* route for more methods below one for fewer.
THEOREM PanicsOnlyOnOverlap == Spec => []PanicNeedsOverlap
<1>1. IInv => PanicNeedsOverlap
  BY DEF IInv
<1> QED
  BY <1>1, Inductive, PTL

\* A handler that has been built serves what it was built from, except for
\* single files whose path has been registered again.
THEOREM HandlerStays == Spec => []HandlerIsFrozen
<1>1. IInv => HandlerIsFrozen
  <2> SUFFICES ASSUME IInv, NEW i \in 1 .. Len(mux), IsSingleFile(mux[i].content),
                      mux[i].pattern[2] \notin touched
               PROVE  Response(i) = mux[i].content
    BY LenProperties DEF HandlerIsFrozen, Response, IInv, TodoOK
  <2>1. /\ mux[i].content.handler = Nil
        /\ Array[i].fs = mux[i].content.fs /\ Array[i].file = mux[i].content.file
    BY DEF IInv, FrozenOK
  <2>2. mux[i].content \in Contents
    <3>1. mux[i] \in Entry
      BY ElementOfSeq DEF IInv, TodoOK
    <3> QED
      BY <3>1 DEF Entry
  <2>3. Response(i) = [handler |-> Nil, fs |-> Array[i].fs, file |-> Array[i].file]
    BY DEF Response, Captured, Array
  <2> QED
    BY <2>1, <2>2, <2>3 DEF Contents
<1> QED
  BY <1>1, Inductive, PTL

\* Compression that has been switched off stays off until somebody switches
\* it on again.
THEOREM DisabledStaysOff == Spec => []DisabledMeansOff
<1>1. IInv => DisabledMeansOff
  BY LenProperties DEF IInv, TypeOK, DisabledOK, DisabledMeansOff, Effective
<1> QED
  BY <1>1, Inductive, PTL

-----------------------------------------------------------------------------
(***************************************************************************)
(* The table that the routes stand for.                                    *)
(***************************************************************************)

EntryOf(r) == [content |-> Content(r), opt |-> r.opt]

IsTable(f, R) ==
  /\ f = [k \in DOMAIN f |-> f[k]]
  /\ DOMAIN f = {Key(R[i]) : i \in 1 .. Len(R)}
  /\ \A i \in 1 .. Len(R) : f[Key(R[i])] = EntryOf(R[i])

LEMMA KeysDiffer ==
  IInv => \A i, j \in 1 .. Len(routes) : Key(routes[i]) = Key(routes[j]) => i = j
<1> SUFFICES ASSUME IInv, NEW i \in 1 .. Len(routes), NEW j \in 1 .. Len(routes),
                    Key(routes[i]) = Key(routes[j])
             PROVE  i = j
  OBVIOUS
<1>1. routes[i].method = routes[j].method /\ routes[i].path = routes[j].path
  BY DEF Key
<1>2. DOMAIN routes = 1 .. Len(routes) /\ Len(routes) \in Nat
  BY LenProperties DEF IInv, TypeOK
<1> QED
  BY <1>1, <1>2 DEF IInv, KeysUnique

LEMMA TableIsTable == IInv => IsTable(Table, routes)
<1> SUFFICES ASSUME IInv PROVE IsTable(Table, routes)
  OBVIOUS
<1> DEFINE found(k) == SelectInSeq(routes, LAMBDA x : Key(x) = k)
<1>0. DOMAIN routes = 1 .. Len(routes) /\ Len(routes) \in Nat
  BY LenProperties DEF IInv, TypeOK
<1>1. ASSUME NEW i \in 1 .. Len(routes)
      PROVE  found(Key(routes[i])) = i
  <2> DEFINE I == {j \in 1 .. Len(routes) : Key(routes[j]) = Key(routes[i])}
  <2>1. I = {i}
    BY KeysDiffer
  <2>2. Min(I) = i
    BY <1>0, <2>1, Least
  <2> QED
    BY <2>1, <2>2 DEF SelectInSeq
<1>2. Table = [k \in Keyed |-> EntryOf(routes[found(k)])]
  BY DEF Table, EntryOf
<1> HIDE DEF found
<1>3. Keyed = {Key(routes[i]) : i \in 1 .. Len(routes)}
  BY <1>0 DEF Keyed
<1> QED
  BY <1>1, <1>2, <1>3 DEF IsTable

\* A table is determined by the routes.
LEMMA TablesEqual ==
  ASSUME NEW f, NEW g, f = [k \in DOMAIN f |-> f[k]], g = [k \in DOMAIN g |-> g[k]],
         DOMAIN f = DOMAIN g, \A k \in DOMAIN f : f[k] = g[k]
  PROVE  f = g
OBVIOUS

LEMMA ContentPlaced ==
  ASSUME TypeOK, NEW c \in Calls
  PROVE  Content(Registered(c)[Place(c)]) = Content(c)
<1>0. routes \in Seq(Route) /\ Len(routes) \in Nat
  BY LenProperties DEF TypeOK
<1>1. CASE Slot(c) = 0
  <2>1. Fresh(c) \in Route
    BY <1>0 DEF Fresh, Calls, Route, TypeOK
  <2>2. Registered(c)[Place(c)] = Fresh(c)
    BY <1>0, <1>1, <2>1, AppendProperties DEF Registered, Place
  <2> QED
    BY <2>2 DEF Fresh, Content
<1>2. CASE Slot(c) # 0
  <2>1. Slot(c) \in 1 .. Len(routes)
    BY <1>0, <1>2, SlotIsFirst
  <2>2. Registered(c)[Place(c)] = Reused(routes[Slot(c)], c)
    BY <1>0, <1>2, <2>1 DEF Registered, Place
  <2>3. routes[Slot(c)] \in Route
    BY <1>0, <2>1, ElementOfSeq
  <2> QED
    BY <2>2, <2>3 DEF Reused, Content, Route, Calls
<1> QED
  BY <1>1, <1>2

LEMMA ContentReplaced ==
  ASSUME TypeOK, NEW c \in Calls, NEW o \in Options \cup {Nil}
  PROVE  Content([Registered(c) EXCEPT ![Place(c)].opt = o][Place(c)]) = Content(c)
<1> DEFINE Q == Registered(c)
           k == Place(c)
<1>1. Q \in Seq(Route) /\ k \in 1 .. Len(Q)
  BY RegisteredPlaces DEF Places
<1>2. Content(Q[k]) = Content(c)
  BY ContentPlaced
<1> HIDE DEF Q, k
<1>3. [Q EXCEPT ![k].opt = o][k] = [Q[k] EXCEPT !.opt = o]
  BY <1>1, LenProperties
<1>4. Q[k] \in Route
  BY <1>1, ElementOfSeq
<1>5. Content([Q[k] EXCEPT !.opt = o]) = Content(Q[k])
  BY <1>4 DEF Content, Route
<1> QED
  BY <1>2, <1>3, <1>5 DEF Q, k

\* What registering a call does to the table.
LEMMA TableOfPlaces ==
  ASSUME IInv, IInv', NEW c \in Calls, Places(routes', c),
         IsTable(Table, routes), IsTable(Table', routes')
  PROVE  LET r == routes'[Place(c)]
             k == Key(r)
         IN /\ DOMAIN Table' = DOMAIN Table \cup {k}
            /\ Table'[k] = EntryOf(r)
            /\ \A x \in DOMAIN Table : x # k => Table'[x] = Table[x]
            /\ Slot(c) = 0 => k \notin DOMAIN Table
            /\ Slot(c) # 0 => /\ Slot(c) \in 1 .. Len(routes)
                              /\ k = Key(routes[Slot(c)]) /\ k \in DOMAIN Table
                              /\ Table[k] = EntryOf(routes[Slot(c)])
<1> DEFINE p == Place(c)
           n == Len(routes)
           r == routes'[p]
           k == Key(r)
<1>0. routes \in Seq(Route) /\ n \in Nat /\ Len(routes') \in Nat
  BY LenProperties DEF IInv, TypeOK
<1>1. /\ Slot(c) \in 0 .. n
      /\ Slot(c) # 0 => Fits(routes[Slot(c)], c)
  BY <1>0, SlotIsFirst
<1>2. /\ p \in 1 .. Len(routes')
      /\ \A i \in 1 .. n : i # p => routes'[i] = routes[i]
      /\ Len(routes') = IF Slot(c) = 0 THEN n + 1 ELSE n
      /\ p = IF Slot(c) = 0 THEN n + 1 ELSE Slot(c)
  BY DEF Places, Place
<1>3. \A i, j \in 1 .. Len(routes') : Key(routes'[i]) = Key(routes'[j]) => i = j
  <2>1. (IInv => \A i, j \in 1 .. Len(routes) : Key(routes[i]) = Key(routes[j]) => i = j)'
    BY KeysDiffer, PTL
  <2> QED
    BY <2>1
<1>4. Slot(c) # 0 => Key(routes[p]) = k
  BY <1>1, <1>2 DEF Places, Key, Fits
<1> HIDE DEF p, n, r, k
<1>5. ASSUME NEW i \in 1 .. n
      PROVE  i \in 1 .. Len(routes') /\ (i = p => Slot(c) # 0)
  BY <1>0, <1>2
<1>6. \A i \in 1 .. n : Key(routes'[i]) = Key(routes[i])
  <2> SUFFICES ASSUME NEW i \in 1 .. n PROVE Key(routes'[i]) = Key(routes[i])
    OBVIOUS
  <2>1. CASE i = p
    BY <1>4, <1>5, <2>1 DEF r, k
  <2> QED
    BY <1>2, <2>1
<1>7. /\ DOMAIN Table = {Key(routes[i]) : i \in 1 .. n}
      /\ DOMAIN Table' = {Key(routes'[i]) : i \in 1 .. Len(routes')}
      /\ \A i \in 1 .. n : Table[Key(routes[i])] = EntryOf(routes[i])
      /\ \A i \in 1 .. Len(routes') : Table'[Key(routes'[i])] = EntryOf(routes'[i])
  BY DEF IsTable, n
<1>8. DOMAIN Table' = DOMAIN Table \cup {k}
  <2>1. \A i \in 1 .. Len(routes') : i \in 1 .. n \/ i = p
    BY <1>0, <1>2
  <2> QED
    BY <1>2, <1>5, <1>6, <1>7, <2>1 DEF r, k
<1>9. Table'[k] = EntryOf(r)
  BY <1>2, <1>7 DEF r, k
<1>10. ASSUME NEW x \in DOMAIN Table, x # k
       PROVE  Table'[x] = Table[x]
  <2>1. PICK i \in 1 .. n : x = Key(routes[i])
    BY <1>7
  <2>2. i # p
    BY <1>6, <1>10, <2>1 DEF r, k
  <2> QED
    BY <1>2, <1>5, <1>7, <2>1, <2>2
<1>11. ASSUME Slot(c) = 0
       PROVE  k \notin DOMAIN Table
  <2> SUFFICES ASSUME NEW i \in 1 .. n, k = Key(routes[i]) PROVE FALSE
    BY <1>7
  <2>1. i # p /\ i \in 1 .. Len(routes')
    BY <1>5, <1>11
  <2>2. Key(routes'[i]) = Key(routes'[p])
    BY <1>6 DEF r, k
  <2> QED
    BY <1>2, <1>3, <2>1, <2>2
<1>12. ASSUME Slot(c) # 0
       PROVE  /\ Slot(c) \in 1 .. n /\ k = Key(routes[Slot(c)]) /\ k \in DOMAIN Table
              /\ Table[k] = EntryOf(routes[Slot(c)])
  <2>1. Slot(c) \in 1 .. n /\ p = Slot(c)
    BY <1>0, <1>1, <1>2, <1>12
  <2> QED
    BY <1>4, <1>7, <1>12, <2>1
<1> QED
  BY <1>8, <1>9, <1>10, <1>11, <1>12 DEF p, n, r, k

-----------------------------------------------------------------------------
(***************************************************************************)
(* Every operation does to the table what its caller means by it.          *)
(***************************************************************************)

\* Putting content into the table, with the options that are there, and with
\* options from elsewhere.
LEMMA PutPlaces ==
  ASSUME IInv, IInv', NEW c \in Calls, Places(routes', c), UNCHANGED opt,
         IsTable(Table, routes), IsTable(Table', routes'),
         Content(routes'[Place(c)]) = Content(c),
         routes'[Place(c)].opt = IF Slot(c) = 0 THEN opt ELSE routes[Slot(c)].opt
  PROVE  Abstract!Put(Key(routes'[Place(c)]), Content(c))
<1> DEFINE r == routes'[Place(c)]
           k == Key(r)
<1>1. /\ DOMAIN Table' = DOMAIN Table \cup {k}
      /\ Table'[k] = [content |-> Content(c), opt |-> r.opt]
      /\ \A x \in DOMAIN Table : x # k => Table'[x] = Table[x]
      /\ Slot(c) = 0 => k \notin DOMAIN Table
      /\ Slot(c) # 0 => k \in DOMAIN Table /\ Table[k] = EntryOf(routes[Slot(c)])
  BY TableOfPlaces DEF EntryOf
<1>2. Table = [x \in DOMAIN Table |-> Table[x]] /\ Table' = [x \in DOMAIN Table' |-> Table'[x]]
  BY DEF IsTable
<1>3. r.opt = IF Slot(c) = 0 THEN opt ELSE routes[Slot(c)].opt
  OBVIOUS
<1> HIDE DEF r, k
<1>4. CASE Slot(c) = 0
  <2> DEFINE g == [x \in DOMAIN Table \cup {k} |->
                     IF x = k THEN [content |-> Content(c), opt |-> opt] ELSE Table[x]]
  <2>1. Table' = g
    BY <1>1, <1>2, <1>3, <1>4
  <2> QED
    BY <1>1, <1>4, <2>1 DEF Abstract!Put, Abstract!With, r, k
<1>5. CASE Slot(c) # 0
  <2> DEFINE g == [Table EXCEPT ![k].content = Content(c)]
  <2>1. DOMAIN g = DOMAIN Table /\ g = [x \in DOMAIN g |-> g[x]]
    BY <1>2
  <2>2. g[k] = [content |-> Content(c), opt |-> r.opt]
    BY <1>1, <1>3, <1>5 DEF EntryOf
  <2>3. \A x \in DOMAIN Table : x # k => g[x] = Table[x]
    BY <1>2
  <2>4. DOMAIN Table' = DOMAIN g /\ \A x \in DOMAIN Table' : Table'[x] = g[x]
    BY <1>1, <1>5, <2>1, <2>2, <2>3
  <2> HIDE DEF g
  <2>5. Table' = g
    BY <1>2, <2>1, <2>4, TablesEqual
  <2> QED
    BY <1>1, <1>5, <2>5 DEF Abstract!Put, r, k, g
<1> QED
  BY <1>4, <1>5

LEMMA MergePlaces ==
  ASSUME IInv, IInv', NEW c \in Calls, Places(routes', c), UNCHANGED opt,
         IsTable(Table, routes), IsTable(Table', routes'),
         Content(routes'[Place(c)]) = Content(c), NEW o, routes'[Place(c)].opt = o
  PROVE  Abstract!Merge(Key(routes'[Place(c)]), Content(c), o)
<1> DEFINE r == routes'[Place(c)]
           k == Key(r)
<1>1. /\ DOMAIN Table' = DOMAIN Table \cup {k}
      /\ Table'[k] = [content |-> Content(c), opt |-> o]
      /\ \A x \in DOMAIN Table : x # k => Table'[x] = Table[x]
  BY TableOfPlaces DEF EntryOf
<1>2. Table' = [x \in DOMAIN Table' |-> Table'[x]]
  BY DEF IsTable
<1> HIDE DEF r, k
<1> DEFINE g == [x \in DOMAIN Table \cup {k} |->
                   IF x = k THEN [content |-> Content(c), opt |-> o] ELSE Table[x]]
<1>3. Table' = g
  BY <1>1, <1>2
<1> QED
  BY <1>3 DEF Abstract!Merge, Abstract!With, r, k

\* Which entry a call reaches: that of its key, or for files some entry of the
\* path if there is one.
LEMMA KeyPlaced ==
  ASSUME IInv, NEW c \in Calls, Places(routes', c), IsTable(Table, routes)
  PROVE  /\ c.fs = Nil => Key(routes'[Place(c)]) = Key(c)
         /\ Key(routes'[Place(c)])[2] = c.path
         /\ c.fs # Nil =>
              \/ \E k \in DOMAIN Table : k[2] = c.path /\ k = Key(routes'[Place(c)])
              \/ /\ \A k \in DOMAIN Table : k[2] # c.path
                 /\ Key(routes'[Place(c)]) = Key(c)
<1>0. routes \in Seq(Route) /\ Len(routes) \in Nat
  BY LenProperties DEF IInv, TypeOK
<1>1. /\ Slot(c) \in 0 .. Len(routes)
      /\ Slot(c) = 0 => \A i \in 1 .. Len(routes) : ~Fits(routes[i], c)
      /\ Slot(c) # 0 => Fits(routes[Slot(c)], c)
  BY <1>0, SlotIsFirst
<1>2. DOMAIN Table = {Key(routes[i]) : i \in 1 .. Len(routes)}
  BY DEF IsTable
<1>3. \A x : Key(x) = <<x.method, x.path>> /\ Key(x)[2] = x.path
  BY DEF Key
<1>4. CASE Slot(c) = 0
  <2>1. Key(routes'[Place(c)]) = Key(c)
    BY <1>4 DEF Places, Key
  <2>2. c.fs # Nil => \A k \in DOMAIN Table : k[2] # c.path
    BY <1>1, <1>2, <1>3, <1>4 DEF Fits
  <2> QED
    BY <1>3, <2>1, <2>2
<1>5. CASE Slot(c) # 0
  <2>1. /\ routes'[Place(c)].path = c.path
        /\ routes'[Place(c)].method = routes[Slot(c)].method
        /\ routes[Slot(c)].path = c.path /\ (c.fs = Nil => routes[Slot(c)].method = c.method)
    BY <1>1, <1>5 DEF Places, Fits
  <2>2. Key(routes'[Place(c)]) = Key(routes[Slot(c)]) /\ Key(routes[Slot(c)]) \in DOMAIN Table
    BY <1>0, <1>1, <1>2, <1>5, <2>1 DEF Key
  <2> QED
    BY <1>3, <2>1, <2>2
<1> QED
  BY <1>4, <1>5

\* Operations on options: the keys stay.
LEMMA TableOfOptions ==
  ASSUME IInv, SameRoutes, IsTable(Table, routes), IsTable(Table', routes')
  PROVE  /\ DOMAIN Table' = DOMAIN Table
         /\ \A i \in 1 .. Len(routes) :
              /\ Key(routes[i]) \in DOMAIN Table
              /\ Table'[Key(routes[i])]
                   = [Table[Key(routes[i])] EXCEPT !.opt = routes'[i].opt]
<1>0. routes \in Seq(Route) /\ Len(routes) \in Nat
  BY LenProperties DEF IInv, TypeOK
<1>1. ASSUME NEW i \in 1 .. Len(routes)
      PROVE  Key(routes'[i]) = Key(routes[i])
  BY DEF SameRoutes, Key
<1>2. DOMAIN Table' = DOMAIN Table
  BY <1>1 DEF IsTable, SameRoutes
<1>3. ASSUME NEW i \in 1 .. Len(routes)
      PROVE  EntryOf(routes'[i]) = [EntryOf(routes[i]) EXCEPT !.opt = routes'[i].opt]
  <2>1. Content(routes'[i]) = Content(routes[i])
    BY DEF SameRoutes, Content
  <2> QED
    BY <2>1 DEF EntryOf
<1>4. ASSUME NEW i \in 1 .. Len(routes)
      PROVE  /\ Table[Key(routes[i])] = EntryOf(routes[i]) /\ Key(routes[i]) \in DOMAIN Table
             /\ Table'[Key(routes[i])] = EntryOf(routes'[i])
  BY <1>1 DEF IsTable, SameRoutes
<1> QED
  BY <1>2, <1>3, <1>4

LEMMA RegisterImplements ==
  ASSUME IInv, IInv', IsTable(Table, routes), IsTable(Table', routes')
  PROVE  /\ \A c \in HandlerCalls : Register(c) => Abstract!Put(Key(c), Content(c))
         /\ \A c \in FileCalls : Register(c) => Abstract!PutFiles(c.path, Content(c))
<1>1. ASSUME NEW c \in HandlerCalls \cup FileCalls, Register(c)
      PROVE  /\ c \in Calls /\ Places(routes', c)
             /\ Abstract!Put(Key(routes'[Place(c)]), Content(c))
  <2>1. c \in Calls /\ TypeOK /\ routes' = Registered(c) /\ UNCHANGED opt
    BY <1>1, CallsTyped DEF Register, IInv
  <2>2. /\ Places(routes', c) /\ Content(routes'[Place(c)]) = Content(c)
        /\ routes'[Place(c)].opt = IF Slot(c) = 0 THEN opt ELSE routes[Slot(c)].opt
    BY <2>1, RegisteredPlaces, ContentPlaced
  <2> QED
    BY <2>1, <2>2, PutPlaces
<1>2. ASSUME NEW c \in HandlerCalls, Register(c)
      PROVE  Abstract!Put(Key(c), Content(c))
  <2>1. Key(routes'[Place(c)]) = Key(c)
    BY <1>1, <1>2, KeyPlaced DEF HandlerCalls
  <2> QED
    BY <1>1, <1>2, <2>1
<1>3. ASSUME NEW c \in FileCalls, Register(c)
      PROVE  Abstract!PutFiles(c.path, Content(c))
  <2> DEFINE k == Key(routes'[Place(c)])
  <2>1. Abstract!Put(k, Content(c)) /\ k[2] = c.path
    BY <1>1, <1>3, KeyPlaced
  <2>2. \/ k \in DOMAIN Table
        \/ (\A x \in DOMAIN Table : x[2] # c.path) /\ k = Key(c)
    BY <1>1, <1>3, KeyPlaced, RouteBuilderAssumption DEF FileCalls
  <2>3. Key(c) = <<"GET", c.path>>
    BY DEF Key, FileCalls
  <2> HIDE DEF k
  <2> QED
    BY <2>1, <2>2, <2>3 DEF Abstract!PutFiles
<1> QED
  BY <1>2, <1>3

LEMMA ExtendImplements ==
  ASSUME IInv, IInv', IsTable(Table, routes), IsTable(Table', routes'), ExtendRoute
  PROVE  LET r == Head(todo)
         IN IF r.fs = Nil THEN Abstract!Merge(Key(r), Content(r), r.opt)
                          ELSE Abstract!MergeFiles(r.path, Content(r), r.opt)
<1> DEFINE r == Head(todo)
           c == CallOf(r)
           k == Key(routes'[Place(c)])
<1>1. r \in Route /\ c \in Calls /\ r.opt \in Options \cup {Nil}
  <2>1. r \in Route
    BY HeadTailProperties DEF ExtendRoute, IInv, TodoOK
  <2> QED
    BY <2>1, CallsTyped DEF Route
<1>2. /\ TypeOK /\ UNCHANGED opt
      /\ routes' = [Registered(c) EXCEPT ![Place(c)].opt = r.opt]
  BY DEF ExtendRoute, OptionOf, IInv
<1>3. Places(routes', c) /\ routes'[Place(c)].opt = r.opt
  BY <1>1, <1>2, ReplacedPlaces
<1>4. Content(routes'[Place(c)]) = Content(c)
  BY <1>1, <1>2, ContentReplaced
<1>5. /\ Content(c) = Content(r) /\ c.path = r.path /\ c.fs = r.fs
      /\ r.fs = Nil => Key(c) = Key(r)
      /\ r.fs # Nil => Key(c) = <<"GET", r.path>>
  BY <1>1 DEF CallOf, Content, Key, Route
<1> HIDE DEF r, c
<1>6. Abstract!Merge(k, Content(c), r.opt)
  BY <1>1, <1>2, <1>3, <1>4, MergePlaces
<1>7. /\ c.fs = Nil => k = Key(c)
      /\ k[2] = c.path
      /\ c.fs # Nil => \/ k \in DOMAIN Table
                       \/ (\A x \in DOMAIN Table : x[2] # c.path) /\ k = Key(c)
  BY <1>1, <1>3, KeyPlaced
<1> HIDE DEF k
<1>8. CASE r.fs = Nil
  BY <1>5, <1>6, <1>7, <1>8 DEF r
<1>9. CASE r.fs # Nil
  <2>1. Abstract!MergeFiles(r.path, Content(r), r.opt)
    BY <1>5, <1>6, <1>7, <1>9 DEF Abstract!MergeFiles
  <2> QED
    BY <1>9, <2>1 DEF r
<1> QED
  BY <1>8, <1>9

LEMMA OptionsImplement ==
  ASSUME IInv, IInv', IsTable(Table, routes), IsTable(Table', routes')
  PROVE  /\ \A o \in Options \cup {Nil} : RouteCompression(o) =>
              IF live THEN Abstract!SetOption(Key(routes[kept]), o)
                      ELSE UNCHANGED Abstract!vars
         /\ DisableCompression => Abstract!Disable
<1>0. /\ Table = [x \in DOMAIN Table |-> Table[x]] /\ Table' = [x \in DOMAIN Table' |-> Table'[x]]
      /\ DOMAIN Table = {Key(routes[i]) : i \in 1 .. Len(routes)}
      /\ \A i \in 1 .. Len(routes) : Table[Key(routes[i])] = EntryOf(routes[i])
  BY DEF IsTable
<1>1. ASSUME NEW o \in Options \cup {Nil}, RouteCompression(o)
      PROVE  IF live THEN Abstract!SetOption(Key(routes[kept]), o)
                     ELSE UNCHANGED Abstract!vars
  <2>1. /\ SameRoutes /\ kept \in 1 .. Len(routes) /\ (live => routes'[kept].opt = o)
        /\ \A i \in 1 .. Len(routes) : ~(live /\ i = kept) => routes'[i].opt = routes[i].opt
    BY <1>1, RouteOption
  <2>2. /\ DOMAIN Table' = DOMAIN Table
        /\ \A i \in 1 .. Len(routes) :
             Table'[Key(routes[i])] = [Table[Key(routes[i])] EXCEPT !.opt = routes'[i].opt]
    BY <2>1, TableOfOptions
  <2>3. UNCHANGED opt
    BY <1>1 DEF RouteCompression
  <2>4. ASSUME NEW i \in 1 .. Len(routes), ~(live /\ i = kept)
        PROVE  Table'[Key(routes[i])] = Table[Key(routes[i])]
    <3>1. Table[Key(routes[i])] = EntryOf(routes[i])
      BY <1>0
    <3>2. routes'[i].opt = EntryOf(routes[i]).opt
      BY <2>1, <2>4 DEF EntryOf
    <3>3. [EntryOf(routes[i]) EXCEPT !.opt = EntryOf(routes[i]).opt] = EntryOf(routes[i])
      BY DEF EntryOf
    <3>4. Table'[Key(routes[i])] = [Table[Key(routes[i])] EXCEPT !.opt = routes'[i].opt]
      BY <2>2
    <3> QED
      BY <3>1, <3>2, <3>3, <3>4
  <2>5. CASE live
    <3> DEFINE k == Key(routes[kept])
               g == [Table EXCEPT ![k].opt = o]
    <3>1. g[k] = [Table[k] EXCEPT !.opt = o] /\ DOMAIN g = DOMAIN Table
          /\ \A x \in DOMAIN Table : x # k => g[x] = Table[x]
      BY <1>0, <2>1
    <3>2. g = [x \in DOMAIN g |-> g[x]]
      BY <1>0
    <3> HIDE DEF g
    <3>3. ASSUME NEW x \in DOMAIN Table'
          PROVE  Table'[x] = g[x]
      <4>1. PICK i \in 1 .. Len(routes) : x = Key(routes[i])
        BY <1>0, <2>2
      <4>2. CASE i = kept
        BY <2>1, <2>2, <2>5, <3>1, <4>1, <4>2
      <4>3. CASE i # kept
        <5>1. x # k
          BY <2>1, <4>1, <4>3, KeysDiffer
        <5> QED
          BY <1>0, <2>2, <2>4, <3>1, <4>1, <4>3, <5>1
      <4> QED
        BY <4>2, <4>3
    <3>4. Table' = g
      BY <1>0, <2>2, <3>1, <3>2, <3>3, TablesEqual
    <3> QED
      BY <2>3, <2>5, <3>4 DEF Abstract!SetOption, g
  <2>6. CASE ~live
    <3>1. Table' = Table
      BY <1>0, <2>2, <2>4, <2>6, TablesEqual
    <3> QED
      BY <2>3, <2>6, <3>1 DEF Abstract!vars
  <2> QED
    BY <2>5, <2>6
<1>2. ASSUME DisableCompression
      PROVE  Abstract!Disable
  <2>1. SameRoutes /\ \A i \in 1 .. Len(routes) : routes'[i].opt = Nil
    BY <1>2, NoOptions
  <2>2. /\ DOMAIN Table' = DOMAIN Table
        /\ \A i \in 1 .. Len(routes) :
             Table'[Key(routes[i])] = [Table[Key(routes[i])] EXCEPT !.opt = Nil]
    BY <2>1, TableOfOptions
  <2>3. Table' = [x \in DOMAIN Table |-> [Table[x] EXCEPT !.opt = Nil]]
    <3> DEFINE g == [x \in DOMAIN Table |-> [Table[x] EXCEPT !.opt = Nil]]
    <3>1. DOMAIN g = DOMAIN Table' /\ g = [x \in DOMAIN g |-> g[x]]
      BY <2>2
    <3>2. ASSUME NEW x \in DOMAIN Table'
          PROVE  Table'[x] = g[x]
      <4>1. PICK i \in 1 .. Len(routes) : x = Key(routes[i])
        BY <1>0, <2>2
      <4>2. Table'[x] = [Table[x] EXCEPT !.opt = Nil]
        BY <2>1, <2>2, <4>1
      <4> QED
        BY <2>2, <4>2
    <3> HIDE DEF g
    <3>3. Table' = g
      BY <1>0, <3>1, <3>2, TablesEqual
    <3> QED
      BY <3>3 DEF g
  <2> QED
    BY <1>2, <2>3 DEF Abstract!Disable, DisableCompression
<1> QED
  BY <1>1, <1>2

\* What the builder does is what RouteTable promises: every operation, whatever
\* routes there are and wherever the pointers point.
THEOREM BuilderIsTable == Spec => ImplementsTable
<1>1. Init => Abstract!Init
  <2> SUFFICES ASSUME Init PROVE Table = <<>> /\ opt = Nil
    BY DEF Abstract!Init
  <2>1. Keyed = {} /\ opt = Nil
    BY DEF Init, Keyed
  <2> QED
    BY <2>1 DEF Table
<1> DEFINE Step ==
      /\ \A c \in HandlerCalls : Register(c) => Abstract!Put(Key(c), Content(c))
      /\ \A c \in FileCalls : Register(c) => Abstract!PutFiles(c.path, Content(c))
      /\ ExtendRoute =>
           LET r == Head(todo) IN
           IF r.fs = Nil THEN Abstract!Merge(Key(r), Content(r), r.opt)
                         ELSE Abstract!MergeFiles(r.path, Content(r), r.opt)
      /\ \A o \in Options \cup {Nil} : RouteCompression(o) =>
           IF live THEN Abstract!SetOption(Key(routes[kept]), o)
                   ELSE UNCHANGED Abstract!vars
      /\ DisableCompression => Abstract!Disable
      /\ \A o \in Options : EnableCompression(o) => Abstract!SetDefault(o)
      /\ Build => UNCHANGED Abstract!vars
<1>2. IInv /\ IInv' /\ IsTable(Table, routes) /\ IsTable(Table', routes') => Step
  <2> SUFFICES ASSUME IInv, IInv', IsTable(Table, routes), IsTable(Table', routes')
               PROVE  Step
    OBVIOUS
  <2>1. ASSUME UNCHANGED routes
        PROVE  Table' = Table
    BY <2>1, TablesEqual DEF IsTable
  <2>2. ASSUME NEW o \in Options, EnableCompression(o)
        PROVE  Abstract!SetDefault(o)
    BY <2>1, <2>2 DEF EnableCompression, Abstract!SetDefault
  <2>3. ASSUME Build
        PROVE  UNCHANGED Abstract!vars
    BY <2>1, <2>3 DEF Build, Abstract!vars
  <2> QED
    BY <2>2, <2>3, RegisterImplements, ExtendImplements, OptionsImplement
<1>3. IInv => IsTable(Table, routes)
  BY TableIsTable
<1> HIDE DEF Step
<1>4. Spec => []IsTable(Table, routes)
  BY <1>3, Inductive, PTL
<1>5. IInv /\ IInv' /\ IsTable(Table, routes) /\ IsTable(Table, routes)' => Step
  <2>1. IsTable(Table, routes)' = IsTable(Table', routes')
    BY DEF IsTable
  <2> QED
    BY <1>2, <2>1
<1>6. Spec => [][Step]_vars
  BY <1>4, <1>5, Inductive, PTL
<1> QED
  BY <1>1, <1>6, PTL DEF Spec, ImplementsTable, Step
=============================================================================
