---------------------------- MODULE UtilityProofs -----------------------------
(***************************************************************************)
(* What the helpers of a handler mean, for every input: the numbers of     *)
(* PaginationMeta for every limit, and any offset and total that a float   *)
(* can divide; which requests utils/http.Jsoner accepts, and how it        *)
(* refuses the rest; and what utils/fs.ScanDir yields, for every tree and  *)
(* any number of iterations.                                               *)
(***************************************************************************)
EXTENDS Page, RequestJsoner, ScanDir, SequenceTheorems, FiniteSetTheorems,
        WellFoundedInduction, TLAPS

-----------------------------------------------------------------------------
(***************************************************************************)
(* Pages.                                                                  *)
(***************************************************************************)

\* Page k, of limit entries, begins with entry k * limit.
Holds(k, limit, off) == k * limit <= off /\ off < (k + 1) * limit

LEMMA FloorHolds ==
  ASSUME NEW a \in Int, NEW b \in Nat \ {0}
  PROVE  /\ Floor(a, b) \in Int
         /\ Holds(Floor(a, b), b, a)
BY SMT DEF Floor, Holds

LEMMA CeilCovers ==
  ASSUME NEW a \in Int, NEW b \in Nat \ {0}
  PROVE  /\ Ceil(a, b) \in Int
         /\ (Ceil(a, b) - 1) * b < a /\ a <= Ceil(a, b) * b
<1> DEFINE f == Floor(-a, b)
<1>1. f \in Int /\ f * b <= -a /\ -a < (f + 1) * b
  BY FloorHolds DEF Holds
<1> HIDE DEF f
<1>2. ASSUME NEW n \in Int, n * b <= -a, -a < (n + 1) * b
      PROVE  (-n - 1) * b < a /\ a <= (-n) * b
  BY <1>2, SMT
<1>3. Ceil(a, b) = -f
  BY DEF Ceil, f
<1> QED
  BY <1>1, <1>2, <1>3

(* Multiples of a positive number are ordered as the factors are.          *)
LEMMA FactorsOrdered ==
  ASSUME NEW b \in Nat \ {0}, NEW m \in Int, NEW n \in Int, m * b < n * b
  PROVE  m < n
<1>1. ASSUME n <= m PROVE FALSE
  <2>1. (m - n) \in Nat /\ (m - n) * b \in Nat
    BY <1>1, SMT
  <2>2. (m - n) * b = m * b - n * b
    BY SMT
  <2> QED
    BY <2>1, <2>2, SMT
<1> QED
  BY <1>1

-----------------------------------------------------------------------------
\* With a positive limit, and fewer than 2^53 entries, totalPages is the least
\* number of pages that hold every entry: the last page is neither empty nor
\* followed by entries (page.go:46-53).
THEOREM PagesHoldTotal ==
  ASSUME NEW limit \in Nat \ {0}, NEW total \in Nat, IsPrecise(total)
  PROVE  LET pages == TotalPages(limit, total)
         IN /\ pages \in Nat
            /\ total <= pages * limit
            /\ pages > 0 => (pages - 1) * limit < total
<1> DEFINE pages == TotalPages(limit, total)
<1>1. CASE total = 0
  BY <1>1, SMT DEF TotalPages
<1>2. CASE total # 0
  <2>1. pages = Ceil(total, limit)
    BY <1>2 DEF TotalPages, CeilOf
  <2>2. pages \in Int /\ (pages - 1) * limit < total /\ total <= pages * limit
    BY <2>1, CeilCovers
  <2> HIDE DEF pages
  <2>3. 0 * limit < pages * limit
    BY <1>2, <2>2, SMT
  <2>4. 0 < pages
    BY <2>2, <2>3, FactorsOrdered
  <2> QED
    BY <2>2, <2>4 DEF pages
<1> QED
  BY <1>1, <1>2

\* With a positive limit, and an offset and a total below 2^53, currentPage is
\* the page that holds the offset.  It is one of totalPages whenever there is
\* an entry at the offset, and a page that is one of them has an entry: only an
\* offset beyond the end gets a page that does not exist.  Of a larger offset,
\* which a client may send, nothing of the kind holds (page.go:43-62).
THEOREM CurrentPageExists ==
  ASSUME NEW limit \in Nat \ {0}, NEW off \in Nat, NEW total \in Nat,
         IsPrecise(off), IsPrecise(total)
  PROVE  LET page == CurrentPage(limit, off)
         IN /\ page \in Nat
            /\ Holds(page, limit, off)
            /\ page < TotalPages(limit, total) => page * limit < total
            /\ off < total => page < TotalPages(limit, total)
<1> DEFINE page  == CurrentPage(limit, off)
           pages == TotalPages(limit, total)
<1>1. page \in Int /\ Holds(page, limit, off)
  <2>1. CASE off = 0
    BY <2>1, SMT DEF CurrentPage, Holds
  <2>2. CASE off # 0
    BY <2>2, FloorHolds DEF CurrentPage, FloorOf
  <2> QED
    BY <2>1, <2>2
<1>2. pages \in Nat /\ total <= pages * limit /\ (pages > 0 => (pages - 1) * limit < total)
  BY PagesHoldTotal
<1> HIDE DEF page, pages
<1>3. page >= 0
  <2>1. 0 * limit < (page + 1) * limit
    BY <1>1, SMT DEF Holds
  <2> QED
    BY <1>1, <2>1, FactorsOrdered, SMT
<1>4. ASSUME page < pages PROVE page * limit < total
  <2>1. page * limit <= (pages - 1) * limit
    BY <1>1, <1>2, <1>4, SMT
  <2> QED
    BY <1>1, <1>2, <1>3, <1>4, <2>1, SMT
<1>5. ASSUME off < total PROVE page < pages
  <2>1. page * limit < pages * limit
    BY <1>1, <1>2, <1>5, SMT DEF Holds
  <2> QED
    BY <1>1, <1>2, <2>1, FactorsOrdered
<1> QED
  BY <1>1, <1>3, <1>4, <1>5 DEF page, pages

\* A negative limit, which FromURLValues lets pass, makes a page count that is
\* not positive, whatever there is to page, up to 2^53 entries
\* (pager.go:40-51, page.go:46-53).
THEOREM NegativeLimitHasNoPages ==
  ASSUME NEW limit \in Int, limit < 0, NEW total \in Nat, IsPrecise(total)
  PROVE  TotalPages(limit, total) <= 0
<1>1. CASE total = 0
  BY <1>1 DEF TotalPages
<1>2. CASE total # 0
  <2>1. -limit \in Nat \ {0} /\ ~(limit > 0) /\ limit # 0
    OBVIOUS
  <2>2. TotalPages(limit, total) = -(total \div (-limit))
    BY <1>2, <2>1, SMT DEF TotalPages, CeilOf, Ceil, Floor
  <2>3. total \div (-limit) \in Nat
    BY <2>1, SMT
  <2> QED
    BY <2>2, <2>3
<1> QED
  BY <1>1, <1>2

\* A query that says limit=0 gets everything on one page, whatever default
\* the handler fills in: Or takes the zero for a limit, and Fill for none
\* (pager.go:40-51, selector.go:18-51, page.go:40-62).
THEOREM ZeroLimitIsEntire ==
  ASSUME NEW q, NEW NaN, NEW default, NEW offset, NEW last, NEW total \in Nat,
         q.limit = 0, FromURLValues(q, NaN).err = "nil",
         0 # Nil, \A l, o, x : Selector(l, o, x) # Nil
  PROVE  LET meta == Fill(Or(FromURLValues(q, NaN).sel, default, offset, last), total)
         IN /\ meta.totalPages = IF total = 0 THEN 0 ELSE 1
            /\ meta.currentPage = 0
<1> DEFINE s   == FromURLValues(q, NaN).sel
           sel == Or(s, default, offset, last)
<1>1. s = Selector(0, q.offset, q.last)
  BY DEF FromURLValues
<1>2. sel = Selector(0, Given(q.offset, offset), Given(q.last, last))
  <2>1. s # Nil /\ s.limit = 0 /\ s.offset = q.offset /\ s.last = q.last
    BY <1>1 DEF Selector
  <2> HIDE DEF s
  <2>2. Given(s.limit, default) = 0
    BY <2>1 DEF Given
  <2> QED
    BY <2>1, <2>2 DEF Or
<1>3. sel.limit = 0 /\ sel # Nil
  BY <1>2 DEF Selector
<1> HIDE DEF sel
<1>4. LimitOr(sel, 0) = 0
  BY <1>3 DEF LimitOr, OrDefault
<1>5. /\ Fill(sel, total).totalPages = IF total = 0 THEN 0 ELSE 1
      /\ Fill(sel, total).currentPage = 0
  BY <1>4 DEF Fill, TotalPages, CurrentPage
<1> QED
  BY <1>5 DEF sel

\* A page made by SetSingle is the only one there is, unless it is empty
\* (page.go:27-37, selector.go:9-16).
THEOREM SingleIsOnePage ==
  ASSUME NEW size \in Nat, 0 # Nil, \A l, o, x : Selector(l, o, x) # Nil
  PROVE  LET meta == SetSingle(size)
         IN /\ meta.totalPages = IF size = 0 THEN 0 ELSE 1
            /\ meta.currentPage = 0
            /\ meta.currentPageSize = meta.totalEntries
<1>1. Entire = Selector(0, 0, Nil) /\ Entire.limit = 0 /\ Entire # Nil
  BY DEF Entire, Or, Selector
<1>2. LimitOr(Entire, 0) = 0
  BY <1>1 DEF LimitOr, OrDefault
<1> QED
  BY <1>2 DEF SetSingle, FillMeta, Fill, TotalPages, CurrentPage

-----------------------------------------------------------------------------
(***************************************************************************)
(* Requests with a JSON body.                                              *)
(***************************************************************************)

LEMMA DecodeOk ==
  ASSUME NEW b, b.first \in {"value"} \cup Errors
  PROVE  Decode(b) = "ok" <=> b.first = "value" /\ b.rest = "EOF"
BY DEF Decode, Errors

\* Only a body that is one value to its last byte, within the limit and with
\* no field that is not allowed, is accepted: what follows the first value is
\* looked at, and counted, as well (utils/http/jsoner.go:84-112,
\* data/jsoner/jsoner.go:82-108).
THEOREM AcceptedIsOneValue ==
  ASSUME NEW r \in Requests, NEW opt \in DecodeOptions
  PROVE  ~HasErr(DecodeRequest(r, opt)) <=>
           /\ r.contentType # "other"
           /\ r.body.first = "value" /\ r.body.rest = "EOF"
           /\ r.unknownFields => opt.unknownFieldsAllowed
           /\ Limited(opt) => r.firstSize <= MaxSize(opt) /\ r.size <= MaxSize(opt)
<1> DEFINE b == Through(r, opt)
<1>1. b.first \in {"value"} \cup Errors
  BY DEF Through, Requests, Bodies, Errors
<1>2. /\ r.firstSize \in Nat /\ r.size \in Nat
      /\ Limited(opt) => MaxSize(opt) \in Int
  BY DEF Requests, DecodeOptions, MaxSize, MaxSizeDefault, Limited
<1>3. b.first = "value" /\ b.rest = "EOF" <=>
        /\ r.body.first = "value" /\ r.body.rest = "EOF"
        /\ r.unknownFields => opt.unknownFieldsAllowed
        /\ Limited(opt) => r.firstSize <= MaxSize(opt) /\ r.size <= MaxSize(opt)
  BY <1>2 DEF Through
<1>4. Decode(b) = "ok" <=> b.first = "value" /\ b.rest = "EOF"
  BY <1>1, DecodeOk
<1>5. ~HasErr(DecodeRequest(r, opt)) <=> r.contentType # "other" /\ Decode(b) = "ok"
  BY DEF HasErr, AsHTTPStatus, DecodeRequest
<1> QED
  BY <1>3, <1>4, <1>5

\* A body that is too large is refused with status 400 and never with the 413
\* that AsHTTPStatus has for it: nobody sets MaxBytesError, and the error of
\* the reader counts as an unknown one, or as a second value if it comes after
\* the first (utils/http/jsoner.go:31-40, 99-112).
THEOREM TooLargeIsBadRequest ==
  ASSUME NEW r \in Requests, NEW opt \in DecodeOptions, r.contentType # "other",
         Limited(opt), r.size > MaxSize(opt)
  PROVE  AsHTTPStatus(DecodeRequest(r, opt)) = 400
<1>1. HasErr(DecodeRequest(r, opt))
  <2>1. r.size \in Nat /\ MaxSize(opt) \in Int
    BY DEF Requests, DecodeOptions, MaxSize, MaxSizeDefault
  <2> QED
    BY <2>1, AcceptedIsOneValue
<1> QED
  BY <1>1 DEF HasErr, AsHTTPStatus, DecodeRequest

-----------------------------------------------------------------------------
(***************************************************************************)
(* Scans.  First, sequences as sets.                                       *)
(***************************************************************************)

LEMMA Split ==
  ASSUME NEW S \in SUBSET Nat, NEW s \in Seq(S), s # <<>>
  PROVE  /\ Head(s) \in S /\ Tail(s) \in Seq(S)
         /\ ToSet(s) = {Head(s)} \cup ToSet(Tail(s))
         /\ IsInjective(s) => IsInjective(Tail(s)) /\ Head(s) \notin ToSet(Tail(s))
         /\ Increasing(s) => Increasing(Tail(s)) /\ \A m \in ToSet(Tail(s)) : Head(s) < m
<1> DEFINE t == Tail(s)
<1>1. /\ Head(s) \in S /\ t \in Seq(S) /\ Len(t) = Len(s) - 1
      /\ \A k \in 1 .. Len(t) : t[k] = s[k + 1]
  BY HeadTailProperties
<1>2. /\ Len(s) \in Nat /\ DOMAIN s = 1 .. Len(s) /\ DOMAIN t = 1 .. Len(t)
      /\ s \in [1 .. Len(s) -> S] /\ Len(t) \in Nat
  BY <1>1, LenProperties
<1>3. Len(s) >= 1 /\ Head(s) = s[1]
  BY <1>2, EmptySeq
<1> HIDE DEF t
<1>4. \A k \in 1 .. Len(s) : k # 1 => k - 1 \in 1 .. Len(t) /\ s[k] = t[k - 1]
  BY <1>1, <1>2
<1>5. \A k \in 1 .. Len(t) : k + 1 \in 1 .. Len(s) /\ t[k] = s[k + 1]
  BY <1>1, <1>2
<1>6. ToSet(s) = {Head(s)} \cup ToSet(t)
  <2>1. ASSUME NEW e \in ToSet(s) PROVE e = Head(s) \/ e \in ToSet(t)
    <3>1. PICK k \in 1 .. Len(s) : e = s[k]
      BY <1>2 DEF ToSet
    <3> QED
      BY <1>2, <1>3, <1>4, <3>1 DEF ToSet
  <2>2. ASSUME NEW e \in ToSet(t) PROVE e \in ToSet(s)
    <3>1. PICK k \in 1 .. Len(t) : e = t[k]
      BY <1>2 DEF ToSet
    <3> QED
      BY <1>2, <1>5, <3>1 DEF ToSet
  <2>3. Head(s) \in ToSet(s)
    BY <1>2, <1>3 DEF ToSet
  <2> QED
    BY <2>1, <2>2, <2>3
<1>7. ASSUME IsInjective(s)
      PROVE  IsInjective(t) /\ Head(s) \notin ToSet(t)
  <2>1. ASSUME NEW j \in 1 .. Len(t), NEW k \in 1 .. Len(t), t[j] = t[k]
        PROVE  j = k
    BY <1>2, <1>5, <1>7, <2>1 DEF IsInjective
  <2>2. ASSUME NEW k \in 1 .. Len(t)
        PROVE  t[k] # Head(s)
    BY <1>2, <1>3, <1>5, <1>7 DEF IsInjective
  <2>3. IsInjective(t)
    BY <1>2, <2>1 DEF IsInjective
  <2>4. Head(s) \notin ToSet(t)
    BY <1>2, <2>2 DEF ToSet
  <2> QED
    BY <2>3, <2>4
<1>8. ASSUME Increasing(s)
      PROVE  Increasing(t) /\ \A m \in ToSet(t) : Head(s) < m
  <2>1. ASSUME NEW j \in 1 .. Len(t), NEW k \in 1 .. Len(t), j < k
        PROVE  t[j] < t[k]
    BY <1>2, <1>5, <1>8, <2>1 DEF Increasing
  <2>2. ASSUME NEW k \in 1 .. Len(t)
        PROVE  Head(s) < t[k]
    <3>1. 1 \in DOMAIN s /\ k + 1 \in DOMAIN s /\ 1 < k + 1 /\ t[k] = s[k + 1]
      BY <1>2, <1>3, <1>5
    <3> QED
      BY <1>3, <1>8, <3>1 DEF Increasing
  <2>3. Increasing(t)
    BY <1>2, <2>1 DEF Increasing
  <2>4. \A m \in ToSet(t) : Head(s) < m
    BY <1>2, <2>2 DEF ToSet
  <2> QED
    BY <2>3, <2>4
<1> QED
  BY <1>1, <1>6, <1>7, <1>8 DEF t

LEMMA Added ==
  ASSUME NEW S, NEW s \in Seq(S), NEW e \in S
  PROVE  /\ Append(s, e) \in Seq(S)
         /\ ToSet(Append(s, e)) = ToSet(s) \cup {e}
         /\ IsInjective(s) /\ e \notin ToSet(s) => IsInjective(Append(s, e))
<1> DEFINE t == Append(s, e)
<1>1. /\ t \in Seq(S) /\ Len(t) = Len(s) + 1 /\ t[Len(s) + 1] = e
      /\ \A k \in 1 .. Len(s) : t[k] = s[k]
  BY AppendProperties
<1>2. Len(s) \in Nat /\ DOMAIN s = 1 .. Len(s) /\ DOMAIN t = 1 .. Len(t)
  BY <1>1, LenProperties
<1> HIDE DEF t
<1>3. \A k \in 1 .. Len(t) : k \in 1 .. Len(s) \/ k = Len(s) + 1
  BY <1>1, <1>2
<1>4. \A k \in 1 .. Len(s) : k \in 1 .. Len(t) /\ t[k] = s[k]
  BY <1>1, <1>2
<1>5. Len(s) + 1 \in 1 .. Len(t)
  BY <1>1, <1>2
<1>6. ToSet(t) = ToSet(s) \cup {e}
  BY <1>1, <1>2, <1>3, <1>4, <1>5 DEF ToSet
<1>7. ASSUME IsInjective(s), e \notin ToSet(s)
      PROVE  IsInjective(t)
  BY <1>1, <1>2, <1>3, <1>4, <1>7 DEF IsInjective, ToSet
<1> QED
  BY <1>1, <1>6, <1>7 DEF t

LEMMA Members ==
  ASSUME NEW S, NEW s \in Seq(S)
  PROVE  ToSet(s) \subseteq S
BY LenProperties DEF ToSet

LEMMA Empty ==
  ToSet(<<>>) = {} /\ IsInjective(<<>>) /\ Increasing(<<>>)
BY DEF ToSet, IsInjective, Increasing

\* Every finite set of numbers can be listed in order: the least n that bounds
\* a set that cannot would be in it, and without n the set can be.
Listed(S) == \E s \in [1 .. Cardinality(S) -> S] : ToSet(s) = S /\ Increasing(s)

LEMMA ListedWithout ==
  ASSUME NEW n \in Nat, n # 0, NEW S \in SUBSET (1 .. n), n \in S, Listed(S \ {n})
  PROVE  Listed(S)
<1> DEFINE T == S \ {n}
           c == Cardinality(T)
<1>1. IsFiniteSet(T) /\ c \in Nat /\ S = T \cup {n} /\ n \notin T
  <2>1. IsFiniteSet(1 .. n) /\ T \in SUBSET (1 .. n)
    BY FS_Interval, 1 \in Int
  <2>2. IsFiniteSet(T)
    BY <2>1, FS_Subset
  <2> QED
    BY <2>2, FS_CardinalityType
<1>2. Cardinality(S) = c + 1
  BY <1>1, FS_AddElement
<1>3. PICK t \in [1 .. c -> T] : ToSet(t) = T /\ Increasing(t)
  BY DEF Listed
<1> HIDE DEF c
<1> DEFINE s == [k \in 1 .. c + 1 |-> IF k = c + 1 THEN n ELSE t[k]]
<1>4. /\ s \in [1 .. c + 1 -> S] /\ s[c + 1] = n
      /\ \A k \in 1 .. c : s[k] = t[k] /\ t[k] < n
      /\ \A k \in 1 .. c + 1 : k \in 1 .. c \/ k = c + 1
  <2>1. \A k \in 1 .. c : t[k] \in S /\ t[k] < n
    <3>1. \A e \in T : e \in S /\ e < n
      OBVIOUS
    <3> HIDE DEF T
    <3> QED
      BY <3>1
  <2>2. \A k \in 1 .. c + 1 : k \in 1 .. c \/ k = c + 1
    BY <1>1
  <2>3. c + 1 \in 1 .. c + 1 /\ \A k \in 1 .. c : k \in 1 .. c + 1 /\ k # c + 1
    BY <1>1
  <2> QED
    BY <2>1, <2>2, <2>3
<1>5. ToSet(s) = S
  <2>1. ToSet(s) = {s[k] : k \in 1 .. c + 1} /\ T = {t[k] : k \in 1 .. c}
    BY <1>3 DEF ToSet
  <2>2. c + 1 \in 1 .. c + 1 /\ \A k \in 1 .. c : k \in 1 .. c + 1
    BY <1>1
  <2>3. ASSUME NEW e \in T PROVE e \in ToSet(s)
    BY <1>4, <2>1, <2>2
  <2>4. ASSUME NEW e \in ToSet(s) PROVE e \in S
    BY <1>4, <2>1
  <2>5. n \in ToSet(s)
    BY <1>4, <2>1, <2>2
  <2> HIDE DEF s, T
  <2> QED
    BY <1>1, <2>3, <2>4, <2>5
<1>6. Increasing(s)
  <2>1. \A j, k \in 1 .. c : j < k => t[j] < t[k]
    BY <1>3 DEF Increasing
  <2>2. DOMAIN s = 1 .. c + 1
    OBVIOUS
  <2> HIDE DEF s
  <2> QED
    BY <1>1, <1>4, <2>1, <2>2 DEF Increasing
<1> QED
  BY <1>2, <1>4, <1>5, <1>6 DEF Listed

\* fs.ReadDir has a result for every directory.
LEMMA AllListed ==
  ASSUME NEW n \in Nat, NEW S \in SUBSET (1 .. n)
  PROVE  Listed(S)
<1> DEFINE Bad == {m \in Nat : \E A \in SUBSET (1 .. m) : ~Listed(A)}
           R == {ss \in Nat \X Nat : ss[1] < ss[2]}
<1> SUFFICES ASSUME Bad # {} PROVE FALSE
  OBVIOUS
<1>1. IsWellFoundedOn(R, Nat)
  BY NatLessThanWellFounded DEF OpToRel
<1> HIDE DEF R
<1>2. PICK m \in Bad : \A k \in Bad : <<k, m>> \notin R
  BY <1>1, WFMin
<1>3. PICK A \in SUBSET (1 .. m) : ~Listed(A)
  OBVIOUS
<1>4. A # {}
  <2>1. <<>> \in [1 .. 0 -> {}] /\ Cardinality({}) = 0
    BY FS_EmptySet
  <2> QED
    BY <1>3, <2>1, Empty DEF Listed
<1>5. m # 0 /\ m - 1 \in Nat /\ m - 1 \notin Bad
  <2>1. m # 0 /\ m - 1 \in Nat
    <3>1. m \in Nat /\ A \subseteq 1 .. m
      OBVIOUS
    <3>2. m # 0
      <4>1. ASSUME m = 0 PROVE A = {}
        BY <3>1, <4>1
      <4> QED
        BY <1>4, <4>1
    <3> QED
      BY <3>1, <3>2
  <2>2. <<m - 1, m>> \in R
    BY <2>1 DEF R
  <2> QED
    BY <1>2, <2>1, <2>2
<1>6. A \ {m} \in SUBSET (1 .. m - 1)
  BY <1>3, <1>5
<1>7. Listed(A \ {m})
  BY <1>5, <1>6
<1>8. CASE m \in A
  BY <1>3, <1>5, <1>7, <1>8, ListedWithout
<1>9. CASE m \notin A
  BY <1>3, <1>7, <1>9
<1> QED
  BY <1>8, <1>9
-----------------------------------------------------------------------------
(***************************************************************************)
(* The inductive invariant of a scan.                                      *)
(***************************************************************************)

LEMMA EntriesListed ==
  ASSUME NEW d
  PROVE  /\ Entries(d) \in Seq(1 .. MaxNode) /\ ToSet(Entries(d)) = In(d)
         /\ Increasing(Entries(d))
<1>1. In(d) \in SUBSET (1 .. MaxNode) /\ MaxNode \in Nat
  BY ScanDirAssumption DEF In
<1>2. Listed(In(d))
  BY <1>1, AllListed
<1>3. /\ Entries(d) \in [1 .. Cardinality(In(d)) -> In(d)]
      /\ ToSet(Entries(d)) = In(d) /\ Increasing(Entries(d))
  BY <1>2 DEF Listed, Entries
<1>4. Cardinality(In(d)) \in Nat
  <2>1. IsFiniteSet(1 .. MaxNode)
    BY <1>1, FS_Interval
  <2>2. IsFiniteSet(In(d))
    BY <1>1, <2>1, FS_Subset
  <2> QED
    BY <2>2, FS_CardinalityType
<1>5. Entries(d) \in [1 .. Cardinality(In(d)) -> 1 .. MaxNode]
  BY <1>1, <1>3
<1>6. ASSUME NEW c \in Nat, NEW s \in [1 .. c -> 1 .. MaxNode]
      PROVE  s \in Seq(1 .. MaxNode)
  BY SeqDef
<1> QED
  BY <1>3, <1>4, <1>5, <1>6

Queue  == ToSet(dirs)
Seen   == ToSet(yielded)
Out(i) == at[i] = "out"

Reached(d) == d = Start \/ d \in Seen
Reading(i) == at[i] \in {"next", "entry"}
Running(i) == at[i] \in {"loop", "next"}

\* The entry that the body of the loop has, and those that are still to come.
Current(i) == IF at[i] = "entry" THEN {Head(rest[i])} ELSE {}
Left(i)    == ToSet(IF at[i] = "entry" THEN Tail(rest[i]) ELSE rest[i])

TypeOK ==
  /\ parent \in [1 .. MaxNode -> Nodes] /\ \A n \in 1 .. MaxNode : parent[n] < n
  /\ isDir \in [Nodes -> BOOLEAN] /\ \A n \in 1 .. MaxNode : isDir[parent[n]]
  /\ dirs \in Seq(Nodes) /\ IsInjective(dirs)
  /\ at \in [Iterations -> {"out", "loop", "next", "entry", "error"}]
  /\ dir \in [Iterations -> Nodes]
  /\ rest \in [Iterations -> Seq(1 .. MaxNode)]
  /\ yielded \in Seq(1 .. MaxNode) /\ IsInjective(yielded)
  /\ failed \subseteq Nodes /\ dropped \subseteq 1 .. MaxNode
  /\ mixed \in BOOLEAN

OneRuns == \A i, j \in Iterations : Running(i) /\ Running(j) => i = j

\* What iteration i has of its directory.
Holding(i) ==
  /\ Increasing(rest[i])
  /\ at[i] = "entry" => rest[i] # <<>>
  /\ ~Reading(i) => rest[i] = <<>>
  /\ Current(i) \subseteq Seen /\ Left(i) \cap Seen = {}
  /\ \A n \in Current(i) \cup Left(i) : parent[n] = dir[i]

\* Directory d has not been read, nor has its error been yielded.
Fresh(d) ==
  /\ d \notin failed
  /\ \A i \in Iterations : Reading(i) => dir[i] # d
  /\ \A n \in Seen : parent[n] # d

\* A directory is read once: until it is, it waits in the queue, its entry is in
\* the hands of one iteration, or nobody has come to it.
ReadOnce ==
  /\ \A d \in Queue : Reached(d) /\ Fresh(d)
  /\ \A d \in Nodes : ~Reached(d) => Fresh(d)
  /\ \A i \in Iterations : \A d \in Current(i) : d \notin Queue /\ Fresh(d)
  /\ \A i, j \in Iterations : i # j /\ Reading(i) /\ Reading(j) => dir[i] # dir[j]
  /\ \A i \in Iterations : Reading(i) => dir[i] \notin failed
  /\ \A n \in Seen : parent[n] \notin failed

\* What has not been yielded has not been reached, is to come, or is lost.
Accounted(n) ==
  LET d == parent[n] IN
  \/ ~Reached(d) \/ d \in Queue
  \/ \E i \in Iterations : d \in Current(i) \/ n \in Left(i)
  \/ d \in failed \cup dropped
  \/ \E m \in dropped : parent[m] = d /\ m < n

NothingLost == \A n \in 1 .. MaxNode \ Seen : Accounted(n)

TreeInv == TypeOK /\ OneRuns /\ (\A i \in Iterations : Holding(i)) /\ ReadOnce /\ NothingLost

\* Where directory d has been yielded; the start comes first.
Pos(d) == IF d = Start THEN 0 ELSE Place(d)

OneActive == \A i, j \in Iterations : ~Out(i) /\ ~Out(j) => i = j

InOrder ==
  \A j, k \in DOMAIN yielded : j < k =>
    LET d == parent[yielded[j]]  e == parent[yielded[k]] IN
    (d = e /\ yielded[j] < yielded[k]) \/ Pos(d) < Pos(e)

\* The queue is in the order of the entries, everything in it comes after what
\* is being read, and that after what has been read.
QueueInOrder ==
  /\ \A j, k \in DOMAIN dirs : j < k => Pos(dirs[j]) < Pos(dirs[k])
  /\ \A q \in Queue : \A n \in Seen : Pos(parent[n]) < Pos(q)

ReadsInOrder(i) ==
  /\ \A q \in Queue : Pos(dir[i]) < Pos(q)
  /\ \A n \in Seen : parent[n] = dir[i] \/ Pos(parent[n]) < Pos(dir[i])
  /\ \A n \in Seen : parent[n] = dir[i] => \A m \in Left(i) : n < m
  /\ at[i] = "entry" => yielded # <<>> /\ Head(rest[i]) = yielded[Len(yielded)]

OrderInv ==
  ~mixed => /\ OneActive /\ InOrder /\ QueueInOrder
            /\ \A i \in Iterations : Reading(i) => ReadsInOrder(i)

IInv == TreeInv /\ OrderInv

-----------------------------------------------------------------------------
(***************************************************************************)
(* What one step of one iteration does to the tree.                        *)
(***************************************************************************)

Step(i) ==
  \/ Begin(i) \/ End(i) \/ Read(i) \/ Yield(i)
  \/ Continue(i) \/ ContinueAfterError(i) \/ Break(i)

Same(j) ==
  /\ at'[j] = at[j] /\ dir'[j] = dir[j] /\ rest'[j] = rest[j]
  /\ Reading(j)' <=> Reading(j)
  /\ Running(j)' <=> Running(j)
  /\ Current(j)' = Current(j) /\ Left(j)' = Left(j)

LEMMA OthersStay ==
  ASSUME TypeOK, NEW i \in Iterations, Step(i)
  PROVE  /\ parent' = parent /\ isDir' = isDir
         /\ \A j \in Iterations : j # i => Same(j)
<1>1. /\ parent' = parent /\ isDir' = isDir
      /\ \A j \in Iterations : j # i =>
           at'[j] = at[j] /\ dir'[j] = dir[j] /\ rest'[j] = rest[j]
  BY DEF TypeOK, Step, Begin, End, Read, Yield, Continue, ContinueAfterError, Break,
         fsVars
<1>2. ASSUME NEW j \in Iterations, j # i
      PROVE  Same(j)
  <2>1. at'[j] = at[j] /\ dir'[j] = dir[j] /\ rest'[j] = rest[j]
    BY <1>1, <1>2
  <2> QED
    BY <2>1 DEF Same, Reading, Running, Current, Left
<1> QED
  BY <1>1, <1>2

LEMMA InitInv ==
  ASSUME Init
  PROVE  IInv
<1>1. Start \in Nodes
  BY ScanDirAssumption DEF Start, Nodes
<1>2. /\ dirs \in Seq(Nodes) /\ IsInjective(dirs) /\ Queue = {Start}
      /\ DOMAIN dirs = {1}
  <2>1. dirs = Append(<<>>, Start) /\ <<>> \in Seq(Nodes)
    BY <1>1 DEF Init
  <2>2. ASSUME NEW s \in Seq(Nodes), s = <<>>
        PROVE  LET t == Append(s, Start) IN
               t \in Seq(Nodes) /\ IsInjective(t) /\ ToSet(t) = {Start}
    <3>1. ToSet(s) = {} /\ IsInjective(s)
      BY <2>2, Empty
    <3> QED
      BY <1>1, <3>1, Added
  <2>3. DOMAIN dirs = {1}
    BY DEF Init
  <2> QED
    BY <2>1, <2>2, <2>3 DEF Queue
<1>3. Seen = {} /\ yielded = <<>> /\ DOMAIN yielded = {} /\ IsInjective(yielded)
      /\ yielded \in Seq(1 .. MaxNode)
  BY Empty DEF Init, Seen
<1>4. \A i \in Iterations : /\ at[i] = "out" /\ rest[i] = <<>> /\ dir[i] = Start
                            /\ Out(i) /\ ~Reading(i) /\ ~Running(i)
                            /\ Current(i) = {} /\ Left(i) = {}
  BY Empty DEF Init, Out, Reading, Running, Current, Left
<1>5. TypeOK
  <2>1. <<>> \in Seq(1 .. MaxNode)
    OBVIOUS
  <2> QED
    BY <1>1, <1>2, <1>3, <2>1 DEF Init, TypeOK
<1>6. OneRuns
  BY <1>4 DEF OneRuns
<1>7. \A i \in Iterations : Holding(i)
  BY <1>4, Empty DEF Holding
<1>8. \A d : Fresh(d)
  BY <1>3, <1>4 DEF Fresh, Init
<1>9. ReadOnce
  BY <1>2, <1>3, <1>4, <1>8 DEF ReadOnce, Reached
<1>10. NothingLost
  BY <1>2, <1>3 DEF NothingLost, Accounted, Reached
<1>11. OrderInv
  <2>1. OneActive /\ InOrder
    BY <1>3, <1>4 DEF OneActive, InOrder
  <2>2. QueueInOrder
    BY <1>2, <1>3 DEF QueueInOrder
  <2> QED
    BY <1>4, <2>1, <2>2 DEF OrderInv
<1> QED
  BY <1>5, <1>6, <1>7, <1>9, <1>10, <1>11 DEF IInv, TreeInv

LEMMA AtEntry ==
  ASSUME TreeInv, NEW i \in Iterations, at[i] = "entry", NEW h, h = Head(rest[i])
  PROVE  /\ h \in 1 .. MaxNode /\ h \in Nodes /\ h # Start /\ parent[h] = dir[i]
         /\ h \in Seen /\ h \notin Queue /\ Fresh(h)
         /\ Current(i) = {h} /\ Left(i) = ToSet(Tail(rest[i]))
         /\ Tail(rest[i]) \in Seq(1 .. MaxNode) /\ Increasing(Tail(rest[i]))
         /\ \A m \in Left(i) : m \in 1 .. MaxNode /\ h < m
<1>1. rest[i] \in Seq(1 .. MaxNode) /\ rest[i] # <<>> /\ Increasing(rest[i])
  BY DEF TreeInv, TypeOK, Holding
<1>2. MaxNode \in Nat /\ 1 .. MaxNode \in SUBSET Nat
  BY ScanDirAssumption
<1>3. /\ h \in 1 .. MaxNode /\ Tail(rest[i]) \in Seq(1 .. MaxNode)
      /\ Increasing(Tail(rest[i])) /\ \A m \in ToSet(Tail(rest[i])) : h < m
  BY <1>1, <1>2, Split
<1>4. Current(i) = {h} /\ Left(i) = ToSet(Tail(rest[i]))
  BY DEF Current, Left
<1>5. h \in Seen /\ h \notin Queue /\ Fresh(h) /\ parent[h] = dir[i]
  BY <1>4 DEF TreeInv, Holding, ReadOnce
<1>6. h \in Nodes /\ h # Start
  BY <1>2, <1>3 DEF Nodes, Start
<1>7. ToSet(Tail(rest[i])) \subseteq 1 .. MaxNode
  BY <1>3, Members
<1> QED
  BY <1>3, <1>4, <1>5, <1>6, <1>7

LEMMA AtNext ==
  ASSUME TreeInv, NEW i \in Iterations, at[i] = "next", rest[i] # <<>>,
         NEW h, h = Head(rest[i])
  PROVE  /\ h \in 1 .. MaxNode /\ h \in Nodes /\ h # Start /\ parent[h] = dir[i]
         /\ h \notin Seen /\ Current(i) = {}
         /\ Left(i) = {h} \cup ToSet(Tail(rest[i]))
         /\ \A m \in ToSet(Tail(rest[i])) : h < m
<1>1. rest[i] \in Seq(1 .. MaxNode) /\ Increasing(rest[i])
  BY DEF TreeInv, TypeOK, Holding
<1>2. MaxNode \in Nat /\ 1 .. MaxNode \in SUBSET Nat
  BY ScanDirAssumption
<1>3. /\ h \in 1 .. MaxNode /\ ToSet(rest[i]) = {h} \cup ToSet(Tail(rest[i]))
      /\ \A m \in ToSet(Tail(rest[i])) : h < m
  BY <1>1, <1>2, Split
<1>4. Current(i) = {} /\ Left(i) = ToSet(rest[i])
  BY DEF Current, Left
<1>5. h \notin Seen /\ parent[h] = dir[i]
  BY <1>3, <1>4 DEF TreeInv, Holding
<1>6. h \in Nodes /\ h # Start
  BY <1>2, <1>3 DEF Nodes, Start
<1> QED
  BY <1>3, <1>4, <1>5, <1>6

LEMMA AtHead ==
  ASSUME TreeInv, dirs # <<>>, NEW d, d = Head(dirs)
  PROVE  /\ d \in Nodes /\ d \in Queue /\ Reached(d) /\ Fresh(d)
         /\ Tail(dirs) \in Seq(Nodes) /\ IsInjective(Tail(dirs))
         /\ ToSet(Tail(dirs)) = Queue \ {d}
<1>1. dirs \in Seq(Nodes) /\ IsInjective(dirs) /\ Nodes \in SUBSET Nat
  BY ScanDirAssumption DEF TreeInv, TypeOK, Nodes
<1>2. /\ d \in Nodes /\ Tail(dirs) \in Seq(Nodes) /\ IsInjective(Tail(dirs))
      /\ Queue = {d} \cup ToSet(Tail(dirs)) /\ d \notin ToSet(Tail(dirs))
  BY <1>1, Split DEF Queue
<1> QED
  BY <1>2 DEF TreeInv, ReadOnce

LEMMA TypeStep ==
  ASSUME TreeInv, NEW i \in Iterations, Step(i)
  PROVE  TypeOK'
<1>1. TypeOK
  BY DEF TreeInv
<1>2. CASE Begin(i) \/ End(i) \/ ContinueAfterError(i)
  <2>1. /\ UNCHANGED <<parent, isDir, dirs, dir, rest, yielded, failed, dropped>>
        /\ \E a \in {"out", "loop"} : at' = [at EXCEPT ![i] = a]
    BY <1>2 DEF Begin, End, ContinueAfterError, SetAside, fsVars
  <2>2. mixed' \in BOOLEAN
    BY <1>1, <1>2 DEF TypeOK, Begin, End, ContinueAfterError
  <2> QED
    BY <1>1, <2>1, <2>2 DEF TypeOK
<1>3. CASE Read(i)
  <2> PICK d : d = Head(dirs)
    OBVIOUS
  <2>1. d \in Nodes /\ Tail(dirs) \in Seq(Nodes) /\ IsInjective(Tail(dirs))
    BY <1>3, AtHead DEF Read
  <2>2. Entries(d) \in Seq(1 .. MaxNode)
    BY EntriesListed
  <2>3. /\ (rest' = [rest EXCEPT ![i] = Entries(d)]) \/ (rest' = rest)
        /\ \E a \in {"next", "error"} : at' = [at EXCEPT ![i] = a]
        /\ (failed' = failed) \/ (failed' = failed \cup {d})
        /\ dirs' = Tail(dirs) /\ dir' = [dir EXCEPT ![i] = d]
        /\ UNCHANGED <<parent, isDir, yielded, dropped, mixed>>
    BY <1>3 DEF Read, Popped, fsVars
  <2>4. rest' \in [Iterations -> Seq(1 .. MaxNode)]
    BY <1>1, <2>2, <2>3 DEF TypeOK
  <2>5. at' \in [Iterations -> {"out", "loop", "next", "entry", "error"}]
    BY <1>1, <2>3 DEF TypeOK
  <2>6. dir' \in [Iterations -> Nodes] /\ failed' \subseteq Nodes
    BY <1>1, <2>1, <2>3 DEF TypeOK
  <2> QED
    BY <1>1, <2>1, <2>3, <2>4, <2>5, <2>6 DEF TypeOK
<1>4. CASE Yield(i)
  <2>1. CASE rest[i] = <<>>
    BY <1>1, <1>4, <2>1 DEF TypeOK, Yield, fsVars
  <2>2. CASE rest[i] # <<>>
    <3> PICK h : h = Head(rest[i])
      OBVIOUS
    <3>1. h \in 1 .. MaxNode /\ h \notin ToSet(yielded)
      BY <1>4, <2>2, AtNext DEF Yield, Seen
    <3>2. Append(yielded, h) \in Seq(1 .. MaxNode) /\ IsInjective(Append(yielded, h))
      BY <1>1, <3>1, Added DEF TypeOK
    <3> QED
      BY <1>1, <1>4, <2>2, <3>2 DEF TypeOK, Yield, fsVars
  <2> QED
    BY <2>1, <2>2
<1>5. CASE Continue(i)
  <2> PICK h : h = Head(rest[i])
    OBVIOUS
  <2>1. /\ h \in Nodes /\ h \notin ToSet(dirs)
        /\ Tail(rest[i]) \in Seq(1 .. MaxNode)
    BY <1>5, AtEntry DEF Continue, Queue
  <2>2. Append(dirs, h) \in Seq(Nodes) /\ IsInjective(Append(dirs, h))
    BY <1>1, <2>1, Added DEF TypeOK
  <2>3. /\ (dirs' = Append(dirs, h)) \/ (dirs' = dirs)
        /\ rest' = [rest EXCEPT ![i] = Tail(rest[i])]
        /\ at' = [at EXCEPT ![i] = "next"]
        /\ UNCHANGED <<fsVars, dir, yielded, failed, dropped, mixed>>
    BY <1>5 DEF Continue, Appended
  <2> QED
    BY <1>1, <2>1, <2>2, <2>3 DEF TypeOK, fsVars
<1>6. CASE Break(i)
  <2>1. at[i] = "entry" => Head(rest[i]) \in 1 .. MaxNode
    BY AtEntry
  <2>2. /\ UNCHANGED <<parent, isDir, dirs, dir, yielded, failed, mixed>>
        /\ at' = [at EXCEPT ![i] = "out"] /\ rest' = [rest EXCEPT ![i] = <<>>]
        /\ (dropped' = dropped)
           \/ (at[i] = "entry" /\ dropped' = dropped \cup {Head(rest[i])})
    BY <1>6 DEF Break, fsVars
  <2>3. dropped' \subseteq 1 .. MaxNode
    BY <1>1, <2>1, <2>2 DEF TypeOK
  <2>4. <<>> \in Seq(1 .. MaxNode)
    OBVIOUS
  <2> QED
    BY <1>1, <2>2, <2>3, <2>4 DEF TypeOK
<1> QED
  BY <1>2, <1>3, <1>4, <1>5, <1>6 DEF Step

LEMMA OneRunsStep ==
  ASSUME TreeInv, NEW i \in Iterations, Step(i)
  PROVE  OneRuns'
<1>1. TypeOK /\ OneRuns
  BY DEF TreeInv
<1>2. \A j \in Iterations : j # i => ~Running(j)
  <2>1. CASE Waiting
    BY <2>1 DEF Waiting, Running
  <2>2. CASE Running(i)
    BY <1>1, <2>2 DEF OneRuns
  <2> QED
    BY <2>1, <2>2 DEF Step, Begin, End, Read, Yield, Continue, ContinueAfterError,
                      Break, Running
<1>3. \A j \in Iterations : j # i => ~Running(j)'
  BY <1>1, <1>2, OthersStay DEF Same
<1> QED
  BY <1>3 DEF OneRuns

LEMMA HoldingStays ==
  ASSUME TreeInv, NEW i \in Iterations, Step(i), Seen \subseteq Seen',
         \A n \in Seen' \ Seen : Reading(i) /\ parent[n] = dir[i],
         NEW j \in Iterations, j # i
  PROVE  Holding(j)'
<1>1. parent' = parent /\ Same(j) /\ Holding(j)
  BY OthersStay DEF TreeInv
<1>2. ASSUME NEW n \in Left(j), n \in Seen'
      PROVE  FALSE
  <2>1. n \notin Seen /\ parent[n] = dir[j]
    BY <1>1, <1>2 DEF Holding
  <2>2. Reading(j)
    <3>1. CASE ~Reading(j)
      <4>1. rest[j] = <<>> /\ at[j] # "entry"
        BY <1>1, <3>1 DEF Holding, Reading
      <4> QED
        BY <1>2, <4>1, Empty DEF Left
    <3> QED
      BY <3>1
  <2> QED
    BY <1>2, <2>1, <2>2 DEF TreeInv, ReadOnce
<1> QED
  BY <1>1, <1>2 DEF Holding, Same

LEMMA FreshStays ==
  ASSUME TreeInv, NEW i \in Iterations, Step(i), NEW d, Fresh(d),
         d \notin failed', Reading(i)' => dir'[i] # d,
         \A n \in Seen' \ Seen : parent[n] # d
  PROVE  Fresh(d)'
<1>1. parent' = parent /\ \A j \in Iterations : j # i => Same(j)
  BY OthersStay DEF TreeInv
<1>2. ASSUME NEW j \in Iterations, Reading(j)'
      PROVE  dir'[j] # d
  BY <1>1, <1>2 DEF Same, Fresh
<1> QED
  BY <1>1, <1>2 DEF Fresh

\* A step that takes nothing and adds nothing, but may be done with a directory.
Quiet(i) ==
  /\ Queue' = Queue /\ Seen' = Seen /\ failed' = failed /\ dropped' = dropped
  /\ rest[i] = <<>> /\ rest'[i] = <<>> /\ ~Reading(i)'
  /\ Current(i) = {} /\ Left(i) = {} /\ Current(i)' = {} /\ Left(i)' = {}

LEMMA IsQuiet ==
  ASSUME TreeInv, NEW i \in Iterations,
         \/ Begin(i) \/ End(i) \/ ContinueAfterError(i)
         \/ Yield(i) /\ rest[i] = <<>>
         \/ Break(i) /\ at[i] = "error"
  PROVE  Quiet(i)
<1>1. TypeOK /\ Holding(i)
  BY DEF TreeInv
<1>2. /\ UNCHANGED <<dirs, yielded, failed, dropped>> /\ at[i] # "entry"
      /\ at'[i] \in {"out", "loop"} /\ rest[i] = <<>> /\ rest'[i] = <<>>
  BY <1>1 DEF TypeOK, Holding, Reading, Begin, End, ContinueAfterError, SetAside, Yield,
              Break
<1>3. at'[i] # "entry" /\ ~Reading(i)'
  BY <1>2 DEF Reading
<1>4. Current(i) = {} /\ Left(i) = {} /\ Current(i)' = {} /\ Left(i)' = {}
  BY <1>2, <1>3, Empty DEF Current, Left
<1> QED
  BY <1>2, <1>3, <1>4 DEF Quiet, Queue, Seen

LEMMA QuietTree ==
  ASSUME TreeInv, NEW i \in Iterations, Step(i), Quiet(i)
  PROVE  /\ \A j \in Iterations : Holding(j)'
         /\ ReadOnce' /\ NothingLost'
<1>1. parent' = parent /\ \A j \in Iterations : j # i => Same(j)
  BY OthersStay DEF TreeInv
<1>2. Holding(i)'
  <2>1. at'[i] # "entry"
    BY DEF Quiet, Reading
  <2> QED
    BY <2>1, Empty DEF Quiet, Holding
<1>3. \A j \in Iterations : Holding(j)'
  BY <1>2, HoldingStays DEF Quiet
<1>4. \A d : Fresh(d) => Fresh(d)'
  <2>1. ASSUME NEW d, Fresh(d) PROVE Fresh(d)'
    BY <2>1, FreshStays DEF Quiet, Fresh
  <2> QED
    BY <2>1
<1>5. \A d : Reached(d)' <=> Reached(d)
  BY DEF Quiet, Reached
<1>6. ReadOnce'
  BY <1>1, <1>4, <1>5 DEF TreeInv, ReadOnce, Quiet, Same
<1>7. NothingLost'
  <2>1. ASSUME NEW n \in 1 .. MaxNode, n \notin Seen'
        PROVE  Accounted(n)'
    <3>1. Accounted(n)
      BY <2>1 DEF TreeInv, NothingLost, Quiet
    <3> QED
      BY <1>1, <1>5, <3>1 DEF Accounted, Quiet, Same
  <2> QED
    BY <2>1 DEF NothingLost
<1> QED
  BY <1>3, <1>6, <1>7

\* Iteration i takes directory d off the queue.
Takes(i, d) ==
  /\ Queue' = Queue \ {d} /\ Seen' = Seen /\ dropped' = dropped /\ dir'[i] = d
  /\ ~Reading(i) /\ Current(i) = {} /\ Left(i) = {} /\ Current(i)' = {}
  /\ \/ Reading(i)' /\ failed' = failed /\ Left(i)' = In(d)
     \/ ~Reading(i)' /\ failed' = failed \cup {d} /\ Left(i)' = {}
  /\ Increasing(rest'[i]) /\ at'[i] # "entry" /\ (~Reading(i)' => rest'[i] = <<>>)

LEMMA ReadTakes ==
  ASSUME TreeInv, NEW i \in Iterations, Read(i), NEW d, d = Head(dirs)
  PROVE  Takes(i, d)
<1>1. TypeOK /\ Holding(i) /\ at[i] = "loop"
  BY DEF TreeInv, Read
<1>2. dirs' = Tail(dirs) /\ dir'[i] = d /\ Seen' = Seen /\ dropped' = dropped
  BY <1>1 DEF Read, Popped, TypeOK, Seen
<1>3. Queue' = Queue \ {d}
  BY <1>2, AtHead DEF Read, Queue
<1>4. ~Reading(i) /\ rest[i] = <<>>
  BY <1>1 DEF Reading, Holding
<1>5. Current(i) = {} /\ Left(i) = {}
  BY <1>1, <1>4, Empty DEF Current, Left
<1>6. CASE rest' = [rest EXCEPT ![i] = Entries(d)] /\ at' = [at EXCEPT ![i] = "next"]
           /\ failed' = failed
  <2>1. rest'[i] = Entries(d) /\ at'[i] = "next"
    BY <1>1, <1>6 DEF TypeOK
  <2>2. Reading(i)' /\ Current(i)' = {} /\ Left(i)' = In(d) /\ Increasing(rest'[i])
    BY <2>1, EntriesListed DEF Reading, Current, Left
  <2> QED
    BY <1>2, <1>3, <1>4, <1>5, <1>6, <2>1, <2>2 DEF Takes
<1>7. CASE rest' = rest /\ at' = [at EXCEPT ![i] = "error"] /\ failed' = failed \cup {d}
  <2>1. rest'[i] = <<>> /\ at'[i] = "error"
    BY <1>1, <1>4, <1>7 DEF TypeOK
  <2>2. /\ ~Reading(i)' /\ Current(i)' = {} /\ Left(i)' = {} /\ Increasing(rest'[i])
    BY <2>1, Empty DEF Reading, Current, Left
  <2> QED
    BY <1>2, <1>3, <1>4, <1>5, <1>7, <2>1, <2>2 DEF Takes
<1> QED
  BY <1>6, <1>7 DEF Read

LEMMA TakesTree ==
  ASSUME TreeInv, NEW i \in Iterations, Step(i), NEW d \in Queue, Takes(i, d)
  PROVE  /\ \A j \in Iterations : Holding(j)'
         /\ ReadOnce' /\ NothingLost'
<1>1. parent' = parent /\ \A j \in Iterations : j # i => Same(j)
  BY OthersStay DEF TreeInv
<1>2. Reached(d) /\ Fresh(d) /\ ReadOnce
  BY DEF TreeInv, ReadOnce
<1>3. Holding(i)'
  BY <1>1, <1>2 DEF Takes, Holding, Fresh, In
<1>4. \A j \in Iterations : Holding(j)'
  BY <1>3, HoldingStays DEF Takes
<1>5. ASSUME NEW e, Fresh(e), e # d
      PROVE  Fresh(e)'
  BY <1>5, FreshStays DEF Takes, Fresh
<1>6. \A e : Reached(e)' <=> Reached(e)
  BY DEF Takes, Reached
<1>7. ReadOnce'
  <2>1. \A e \in Queue' : Reached(e)' /\ Fresh(e)'
    BY <1>2, <1>5, <1>6 DEF ReadOnce, Takes
  <2>2. \A e \in Nodes : ~Reached(e)' => Fresh(e)'
    BY <1>2, <1>5, <1>6 DEF ReadOnce
  <2>3. ASSUME NEW j \in Iterations, NEW e \in Current(j)'
        PROVE  e \notin Queue' /\ Fresh(e)'
    <3>1. e \in Current(j)
      BY <1>1, <2>3 DEF Takes, Same
    <3>2. e \notin Queue /\ Fresh(e)
      BY <1>2, <3>1 DEF ReadOnce
    <3> QED
      BY <1>5, <3>2 DEF Takes
  <2>4. ASSUME NEW j \in Iterations, NEW k \in Iterations, j # k,
               Reading(j)', Reading(k)'
        PROVE  dir'[j] # dir'[k]
    <3>1. \A l \in Iterations : l # i /\ Reading(l)' =>
            Reading(l) /\ dir'[l] = dir[l] /\ dir[l] # d
      BY <1>1, <1>2 DEF Same, Fresh
    <3> QED
      BY <1>2, <2>4, <3>1 DEF ReadOnce, Takes
  <2>5. ASSUME NEW j \in Iterations, Reading(j)'
        PROVE  dir'[j] \notin failed'
    <3>1. CASE j = i
      BY <1>2, <2>5, <3>1 DEF Takes, Fresh
    <3>2. CASE j # i
      BY <1>1, <1>2, <2>5, <3>2 DEF Same, Fresh, ReadOnce, Takes
    <3> QED
      BY <3>1, <3>2
  <2>6. \A n \in Seen' : parent'[n] \notin failed'
    BY <1>1, <1>2 DEF Takes, Fresh, ReadOnce
  <2> QED
    BY <2>1, <2>2, <2>3, <2>4, <2>5, <2>6 DEF ReadOnce
<1>8. ASSUME NEW n \in 1 .. MaxNode, n \notin Seen'
      PROVE  Accounted(n)'
  <2>1. Accounted(n)
    BY <1>8 DEF TreeInv, NothingLost, Takes
  <2>2. CASE parent[n] = d
    BY <1>1, <2>2 DEF Accounted, Takes, In
  <2>3. CASE parent[n] # d
    BY <1>1, <1>6, <2>1, <2>3 DEF Accounted, Takes, Same
  <2> QED
    BY <2>2, <2>3
<1> QED
  BY <1>4, <1>7, <1>8 DEF NothingLost

\* Iteration i yields entry h.
Yields(i, h) ==
  /\ Queue' = Queue /\ Seen' = Seen \cup {h} /\ failed' = failed /\ dropped' = dropped
  /\ Reading(i) /\ Reading(i)' /\ dir'[i] = dir[i]
  /\ Current(i) = {} /\ Current(i)' = {h} /\ Left(i) = {h} \cup Left(i)'
  /\ \A m \in Left(i)' : h < m

LEMMA YieldYields ==
  ASSUME TreeInv, NEW i \in Iterations, Yield(i), rest[i] # <<>>,
         NEW h, h = Head(rest[i])
  PROVE  /\ Yields(i, h) /\ Holding(i)'
         /\ h \in Nodes /\ h \notin Seen /\ ~Reached(h) /\ parent[h] = dir[i]
<1>1. TypeOK /\ Holding(i) /\ at[i] = "next"
  BY DEF TreeInv, Yield
<1>2. /\ at'[i] = "entry" /\ yielded' = Append(yielded, h)
      /\ UNCHANGED <<dirs, dir, rest, failed, dropped, parent>>
  BY <1>1 DEF Yield, TypeOK, fsVars
<1>3. /\ h \in 1 .. MaxNode /\ h \in Nodes /\ h # Start /\ parent[h] = dir[i]
      /\ h \notin Seen /\ Current(i) = {}
      /\ Left(i) = {h} \cup ToSet(Tail(rest[i]))
      /\ \A m \in ToSet(Tail(rest[i])) : h < m
  BY <1>1, AtNext
<1>4. Seen' = Seen \cup {h}
  BY <1>1, <1>2, <1>3, Added DEF TypeOK, Seen
<1>5. /\ Reading(i) /\ Reading(i)' /\ Current(i)' = {h}
      /\ Left(i)' = ToSet(Tail(rest[i]))
  BY <1>1, <1>2 DEF Reading, Current, Left
<1>6. Yields(i, h)
  BY <1>2, <1>3, <1>4, <1>5 DEF Yields, Queue
<1>7. h \notin Left(i)'
  <2>1. h \in Nat
    BY <1>3
  <2> QED
    BY <1>3, <1>5, <2>1
<1>8. Holding(i)'
  <2>1. Left(i)' \cap Seen' = {} /\ Current(i)' \subseteq Seen'
    BY <1>1, <1>3, <1>4, <1>5, <1>7 DEF Holding
  <2>2. \A n \in Current(i)' \cup Left(i)' : parent'[n] = dir'[i]
    BY <1>1, <1>2, <1>3, <1>5 DEF Holding
  <2> QED
    BY <1>1, <1>2, <1>5, <2>1, <2>2 DEF Holding
<1> QED
  BY <1>3, <1>6, <1>8 DEF Reached

LEMMA YieldsTree ==
  ASSUME TreeInv, NEW i \in Iterations, Step(i), NEW h \in Nodes, ~Reached(h),
         parent[h] = dir[i], Yields(i, h), Holding(i)'
  PROVE  /\ \A j \in Iterations : Holding(j)'
         /\ ReadOnce' /\ NothingLost'
<1>1. parent' = parent /\ \A j \in Iterations : j # i => Same(j)
  BY OthersStay DEF TreeInv
<1>2. ReadOnce /\ Fresh(h) /\ h \notin Queue
  BY DEF TreeInv, ReadOnce
<1>3. \A j \in Iterations : Holding(j)'
  BY HoldingStays DEF Yields
<1>4. ASSUME NEW d, Fresh(d)
      PROVE  Fresh(d)'
  BY <1>4, FreshStays DEF Yields, Fresh
<1>5. \A d : Reached(d)' <=> Reached(d) \/ d = h
  BY DEF Yields, Reached
<1>6. ReadOnce'
  <2>1. \A d \in Queue' : Reached(d)' /\ Fresh(d)'
    BY <1>2, <1>4, <1>5 DEF ReadOnce, Yields
  <2>2. \A d \in Nodes : ~Reached(d)' => Fresh(d)'
    BY <1>2, <1>4, <1>5 DEF ReadOnce
  <2>3. ASSUME NEW j \in Iterations, NEW e \in Current(j)'
        PROVE  e \notin Queue' /\ Fresh(e)'
    <3>1. e = h \/ e \in Current(j)
      BY <1>1, <2>3 DEF Yields, Same
    <3>2. e \notin Queue /\ Fresh(e)
      BY <1>2, <3>1 DEF ReadOnce
    <3> QED
      BY <1>4, <3>2 DEF Yields
  <2>4. \A j \in Iterations : (Reading(j)' <=> Reading(j)) /\ dir'[j] = dir[j]
    BY <1>1 DEF Yields, Same
  <2>5. \A n \in Seen' : parent'[n] \notin failed'
    BY <1>1, <1>2 DEF Yields, ReadOnce
  <2> QED
    BY <1>2, <2>1, <2>2, <2>3, <2>4, <2>5 DEF ReadOnce, Yields
<1>7. ASSUME NEW n \in 1 .. MaxNode, n \notin Seen'
      PROVE  Accounted(n)'
  <2>1. Accounted(n) /\ n # h
    BY <1>7 DEF TreeInv, NothingLost, Yields
  <2>2. CASE parent[n] = h
    BY <1>1, <2>2 DEF Accounted, Yields
  <2>3. CASE parent[n] # h
    BY <1>1, <1>5, <2>1, <2>3 DEF Accounted, Yields, Same
  <2> QED
    BY <2>2, <2>3
<1> QED
  BY <1>3, <1>6, <1>7 DEF NothingLost

\* Iteration i is done with entry h.
GoesOn(i, h) ==
  /\ Queue' = IF isDir[h] THEN Queue \cup {h} ELSE Queue
  /\ Seen' = Seen /\ failed' = failed /\ dropped' = dropped
  /\ Reading(i) /\ Reading(i)' /\ dir'[i] = dir[i]
  /\ Current(i) = {h} /\ Current(i)' = {} /\ Left(i)' = Left(i)

LEMMA ContinueGoesOn ==
  ASSUME TreeInv, NEW i \in Iterations, Continue(i), NEW h, h = Head(rest[i])
  PROVE  GoesOn(i, h) /\ Holding(i)'
<1>1. TypeOK /\ Holding(i) /\ at[i] = "entry"
  BY DEF TreeInv, Continue
<1>2. /\ at'[i] = "next" /\ rest'[i] = Tail(rest[i])
      /\ dirs' = IF isDir[h] THEN Append(dirs, h) ELSE dirs
      /\ UNCHANGED <<dir, yielded, failed, dropped, parent>>
  BY <1>1 DEF Continue, TypeOK, Appended, fsVars
<1>3. /\ h \in Nodes /\ Current(i) = {h} /\ Left(i) = ToSet(Tail(rest[i]))
      /\ Increasing(Tail(rest[i]))
  BY <1>1, AtEntry
<1>4. Queue' = IF isDir[h] THEN Queue \cup {h} ELSE Queue
  <2>1. dirs \in Seq(Nodes)
    BY <1>1 DEF TypeOK
  <2>2. ToSet(Append(dirs, h)) = ToSet(dirs) \cup {h}
    BY <1>3, <2>1, Added
  <2> QED
    BY <1>2, <2>2 DEF Queue
<1>5. /\ Reading(i) /\ Reading(i)' /\ Current(i)' = {} /\ Left(i)' = Left(i)
  BY <1>1, <1>2, <1>3 DEF Reading, Current, Left
<1>6. GoesOn(i, h)
  BY <1>2, <1>3, <1>4, <1>5 DEF GoesOn, Seen
<1>7. Holding(i)'
  BY <1>1, <1>2, <1>3, <1>5, <1>6 DEF Holding, GoesOn
<1> QED
  BY <1>6, <1>7

LEMMA GoesOnTree ==
  ASSUME TreeInv, NEW i \in Iterations, Step(i), NEW h \in Seen, h \notin Queue, Fresh(h),
         parent[h] = dir[i], GoesOn(i, h), Holding(i)'
  PROVE  /\ \A j \in Iterations : Holding(j)'
         /\ ReadOnce' /\ NothingLost'
<1>1. parent' = parent /\ \A j \in Iterations : j # i => Same(j)
  BY OthersStay DEF TreeInv
<1>2. ReadOnce
  BY DEF TreeInv
<1>3. \A j \in Iterations : Holding(j)'
  BY HoldingStays DEF GoesOn
<1>4. ASSUME NEW d, Fresh(d)
      PROVE  Fresh(d)'
  BY <1>4, FreshStays DEF GoesOn, Fresh
<1>5. \A d : Reached(d)' <=> Reached(d)
  BY DEF GoesOn, Reached
<1>6. ReadOnce'
  <2>1. \A d \in Queue' : Reached(d)' /\ Fresh(d)'
    BY <1>2, <1>4, <1>5 DEF ReadOnce, GoesOn, Reached
  <2>2. \A d \in Nodes : ~Reached(d)' => Fresh(d)'
    BY <1>2, <1>4, <1>5 DEF ReadOnce
  <2>3. ASSUME NEW j \in Iterations, NEW e \in Current(j)'
        PROVE  e \notin Queue' /\ Fresh(e)'
    <3>1. j # i /\ e \in Current(j)
      BY <1>1, <2>3 DEF GoesOn, Same
    <3>2. e \notin Queue /\ Fresh(e)
      BY <1>2, <3>1 DEF ReadOnce
    <3>3. Reading(j) /\ parent[e] = dir[j]
      BY <3>1 DEF TreeInv, Holding, Current, Reading
    <3>4. e # h
      BY <1>2, <3>1, <3>3 DEF ReadOnce, GoesOn
    <3> QED
      BY <1>4, <3>2, <3>4 DEF GoesOn
  <2>4. \A j \in Iterations : (Reading(j)' <=> Reading(j)) /\ dir'[j] = dir[j]
    BY <1>1 DEF GoesOn, Same
  <2> QED
    BY <1>1, <1>2, <2>1, <2>2, <2>3, <2>4 DEF ReadOnce, GoesOn
<1>7. ASSUME NEW n \in 1 .. MaxNode, n \notin Seen'
      PROVE  Accounted(n)'
  <2>1. Accounted(n) /\ isDir[parent[n]]
    BY <1>7 DEF TreeInv, TypeOK, NothingLost, GoesOn
  <2>2. CASE parent[n] = h
    BY <1>1, <2>1, <2>2 DEF Accounted, GoesOn
  <2>3. CASE parent[n] # h
    BY <1>1, <1>5, <2>1, <2>3 DEF Accounted, GoesOn, Same
  <2> QED
    BY <2>2, <2>3
<1> QED
  BY <1>3, <1>6, <1>7 DEF NothingLost

\* Iteration i is broken off at entry h.
BreaksOff(i, h) ==
  /\ Queue' = Queue /\ Seen' = Seen /\ failed' = failed /\ dropped' = dropped \cup {h}
  /\ rest'[i] = <<>> /\ ~Reading(i)' /\ Current(i)' = {} /\ Left(i)' = {}

LEMMA BreakBreaksOff ==
  ASSUME TreeInv, NEW i \in Iterations, Break(i), at[i] = "entry",
         NEW h, h = Head(rest[i])
  PROVE  BreaksOff(i, h)
<1>1. TypeOK
  BY DEF TreeInv
<1>2. /\ at'[i] = "out" /\ rest'[i] = <<>> /\ dropped' = dropped \cup {h}
      /\ UNCHANGED <<dirs, yielded, failed>>
  BY <1>1 DEF Break, TypeOK
<1>3. ~Reading(i)' /\ Current(i)' = {} /\ Left(i)' = {}
  BY <1>2, Empty DEF Reading, Current, Left
<1> QED
  BY <1>2, <1>3 DEF BreaksOff, Queue, Seen

LEMMA BreaksOffTree ==
  ASSUME TreeInv, NEW i \in Iterations, Step(i), NEW h,
         Current(i) = {h}, parent[h] = dir[i], \A m \in Left(i) : h < m,
         BreaksOff(i, h)
  PROVE  /\ \A j \in Iterations : Holding(j)'
         /\ ReadOnce' /\ NothingLost'
<1>1. parent' = parent /\ \A j \in Iterations : j # i => Same(j)
  BY OthersStay DEF TreeInv
<1>2. Holding(i)'
  <2>1. at'[i] # "entry"
    BY DEF BreaksOff, Reading
  <2> QED
    BY <2>1, Empty DEF BreaksOff, Holding
<1>3. \A j \in Iterations : Holding(j)'
  BY <1>2, HoldingStays DEF BreaksOff
<1>4. \A d : Fresh(d) => Fresh(d)'
  <2>1. ASSUME NEW d, Fresh(d) PROVE Fresh(d)'
    BY <2>1, FreshStays DEF BreaksOff, Fresh
  <2> QED
    BY <2>1
<1>5. \A d : Reached(d)' <=> Reached(d)
  BY DEF BreaksOff, Reached
<1>6. ReadOnce'
  BY <1>1, <1>4, <1>5 DEF TreeInv, ReadOnce, BreaksOff, Same
<1>7. ASSUME NEW n \in 1 .. MaxNode, n \notin Seen'
      PROVE  Accounted(n)'
  <2>1. Accounted(n)
    BY <1>7 DEF TreeInv, NothingLost, BreaksOff
  <2>2. CASE n \in Left(i)
    <3>1. parent[n] = parent[h] /\ h < n
      BY <2>2 DEF TreeInv, Holding
    <3> QED
      BY <1>1, <3>1 DEF Accounted, BreaksOff
  <2>3. CASE parent[n] = h
    BY <1>1, <2>3 DEF Accounted, BreaksOff
  <2>4. CASE n \notin Left(i) /\ parent[n] # h
    BY <1>1, <1>5, <2>1, <2>4 DEF Accounted, BreaksOff, Same
  <2> QED
    BY <2>2, <2>3, <2>4
<1> QED
  BY <1>3, <1>6, <1>7 DEF NothingLost

LEMMA TreeStep ==
  ASSUME TreeInv, NEW i \in Iterations, Step(i)
  PROVE  TreeInv'
<1>1. TypeOK' /\ OneRuns'
  BY TypeStep, OneRunsStep
<1> SUFFICES (\A j \in Iterations : Holding(j)') /\ ReadOnce' /\ NothingLost'
  BY <1>1 DEF TreeInv
<1>2. CASE \/ Begin(i) \/ End(i) \/ ContinueAfterError(i)
           \/ Yield(i) /\ rest[i] = <<>>
           \/ Break(i) /\ at[i] = "error"
  BY <1>2, IsQuiet, QuietTree
<1>3. CASE Read(i)
  <2> PICK d : d = Head(dirs)
    OBVIOUS
  <2>1. d \in Queue /\ Takes(i, d)
    BY <1>3, AtHead, ReadTakes DEF Read
  <2> QED
    BY <2>1, TakesTree
<1>4. CASE Yield(i) /\ rest[i] # <<>>
  <2> PICK h : h = Head(rest[i])
    OBVIOUS
  <2> QED
    BY <1>4, YieldYields, YieldsTree
<1>5. CASE Continue(i)
  <2> PICK h : h = Head(rest[i])
    OBVIOUS
  <2>1. h \in Seen /\ h \notin Queue /\ Fresh(h) /\ parent[h] = dir[i]
    BY <1>5, AtEntry DEF Continue
  <2> QED
    BY <1>5, <2>1, ContinueGoesOn, GoesOnTree
<1>6. CASE Break(i) /\ at[i] = "entry"
  <2> PICK h : h = Head(rest[i])
    OBVIOUS
  <2>1. Current(i) = {h} /\ parent[h] = dir[i] /\ \A m \in Left(i) : h < m
    BY <1>6, AtEntry
  <2> QED
    BY <1>6, <2>1, BreakBreaksOff, BreaksOffTree
<1> QED
  BY <1>2, <1>3, <1>4, <1>5, <1>6 DEF Step, Break

-----------------------------------------------------------------------------
(***************************************************************************)
(* The order: what one step does to places and to the queue.               *)
(***************************************************************************)

PlaceIn(s, n) == CHOOSE k \in DOMAIN s : s[k] = n

LEMMA PlaceOf ==
  ASSUME NEW S, NEW s \in Seq(S), IsInjective(s), NEW k \in 1 .. Len(s)
  PROVE  PlaceIn(s, s[k]) = k
<1>1. DOMAIN s = 1 .. Len(s)
  BY LenProperties
<1> QED
  BY <1>1 DEF PlaceIn, IsInjective

LEMMA PlaceKept ==
  ASSUME NEW S, NEW s \in Seq(S), IsInjective(s), NEW e \in S, e \notin ToSet(s)
  PROVE  /\ \A n \in ToSet(s) : PlaceIn(Append(s, e), n) = PlaceIn(s, n)
         /\ PlaceIn(Append(s, e), e) = Len(s) + 1
<1> DEFINE t == Append(s, e)
<1>1. /\ t \in Seq(S) /\ Len(t) = Len(s) + 1 /\ t[Len(s) + 1] = e
      /\ \A k \in 1 .. Len(s) : t[k] = s[k]
  BY AppendProperties
<1>2. IsInjective(t) /\ Len(s) \in Nat /\ DOMAIN s = 1 .. Len(s)
  BY Added, LenProperties
<1> HIDE DEF t
<1>3. ASSUME NEW n \in ToSet(s)
      PROVE  PlaceIn(t, n) = PlaceIn(s, n)
  <2>1. PICK k \in 1 .. Len(s) : n = s[k]
    BY <1>2 DEF ToSet
  <2>2. k \in 1 .. Len(t) /\ n = t[k]
    BY <1>1, <1>2, <2>1
  <2>3. PlaceIn(s, n) = k
    BY <2>1, PlaceOf
  <2>4. PlaceIn(t, n) = k
    BY <1>1, <1>2, <2>2, PlaceOf
  <2> QED
    BY <2>3, <2>4
<1>4. PlaceIn(t, e) = Len(s) + 1
  <2>1. Len(s) + 1 \in 1 .. Len(t)
    BY <1>1, <1>2
  <2>2. PlaceIn(t, t[Len(s) + 1]) = Len(s) + 1
    BY <1>1, <1>2, <2>1, PlaceOf
  <2> QED
    BY <1>1, <2>2
<1> QED
  BY <1>3, <1>4 DEF t

LEMMA Positions ==
  ASSUME TypeOK
  PROVE  /\ DOMAIN yielded = 1 .. Len(yielded) /\ Len(yielded) \in Nat
         /\ \A k \in 1 .. Len(yielded) :
              yielded[k] \in Seen /\ yielded[k] # Start /\ Pos(yielded[k]) = k
         /\ \A d : Reached(d) => Pos(d) \in 0 .. Len(yielded)
         /\ \A d, e : Reached(d) /\ Reached(e) /\ Pos(d) = Pos(e) => d = e
<1>1. yielded \in Seq(1 .. MaxNode) /\ IsInjective(yielded) /\ MaxNode \in Nat
  BY ScanDirAssumption DEF TypeOK
<1>2. DOMAIN yielded = 1 .. Len(yielded) /\ Len(yielded) \in Nat
  BY <1>1, LenProperties
<1>3. ASSUME NEW k \in 1 .. Len(yielded)
      PROVE  yielded[k] \in Seen /\ yielded[k] # Start /\ Pos(yielded[k]) = k
  <2>1. yielded[k] \in Seen /\ yielded[k] # Start
    BY <1>1, <1>2 DEF Seen, ToSet, Start
  <2>2. PlaceIn(yielded, yielded[k]) = k
    BY <1>1, PlaceOf
  <2> QED
    BY <2>1, <2>2 DEF Pos, Place, PlaceIn
<1>4. ASSUME NEW d, Reached(d)
      PROVE  \/ d = Start /\ Pos(d) = 0
             \/ \E k \in 1 .. Len(yielded) : d = yielded[k] /\ Pos(d) = k
  <2>1. CASE d = Start
    BY <2>1 DEF Pos
  <2>2. CASE d # Start
    <3>1. PICK k \in 1 .. Len(yielded) : d = yielded[k]
      BY <1>2, <1>4, <2>2 DEF Reached, Seen, ToSet
    <3> QED
      BY <1>3, <3>1
  <2> QED
    BY <2>1, <2>2
<1>5. \A d : Reached(d) => Pos(d) \in 0 .. Len(yielded)
  BY <1>2, <1>4
<1>6. \A d, e : Reached(d) /\ Reached(e) /\ Pos(d) = Pos(e) => d = e
  BY <1>2, <1>4
<1> QED
  BY <1>2, <1>3, <1>5, <1>6

LEMMA AllReached ==
  ASSUME TreeInv
  PROVE  /\ \A q \in Queue : Reached(q)
         /\ \A n \in Seen : Reached(parent[n])
         /\ \A i \in Iterations : Reading(i) => Reached(dir[i])
<1>1. Seen \subseteq 1 .. MaxNode
  BY Members DEF TreeInv, TypeOK, Seen
<1>2. \A n \in Seen : parent[n] \in Nodes
  BY <1>1 DEF TreeInv, TypeOK
<1>3. \A i \in Iterations : dir[i] \in Nodes
  BY DEF TreeInv, TypeOK
<1> QED
  BY <1>2, <1>3 DEF TreeInv, ReadOnce, Fresh

\* While the iterations have not taken turns, the others are out.
LEMMA OthersOut ==
  ASSUME TypeOK, OneActive, NEW i \in Iterations, Step(i), ~mixed'
  PROVE  OneActive' /\ \A j \in Iterations : j # i => ~Reading(j)'
<1>1. \A j \in Iterations : j # i => Out(j)
  <2>1. CASE Begin(i)
    BY <2>1 DEF Begin, Out
  <2>2. CASE ~Out(i)
    BY <2>2 DEF OneActive
  <2> QED
    BY <2>1, <2>2 DEF Step, End, Read, Yield, Continue, ContinueAfterError, Break, Out
<1>2. \A j \in Iterations : j # i => at'[j] = "out"
  BY <1>1, OthersStay DEF Same, Out
<1> QED
  BY <1>2 DEF OneActive, Out, Reading

\* Nothing is yielded, taken or queued, and iteration i reads no directory.
LEMMA RestOrder ==
  ASSUME InOrder, QueueInOrder, parent' = parent, yielded' = yielded, dirs' = dirs
  PROVE  InOrder' /\ QueueInOrder'
<1>1. \A d : Pos(d)' = Pos(d)
  BY DEF Pos, Place
<1>2. InOrder'
  BY <1>1 DEF InOrder
<1>3. Queue' = Queue /\ Seen' = Seen
  BY DEF Queue, Seen
<1> QED
  BY <1>1, <1>2, <1>3 DEF QueueInOrder

LEMMA ReadOrder ==
  ASSUME TreeInv, InOrder, QueueInOrder, NEW i \in Iterations, Read(i)
  PROVE  InOrder' /\ QueueInOrder' /\ (Reading(i)' => ReadsInOrder(i)')
<1> PICK d : d = Head(dirs)
  OBVIOUS
<1>1. dirs # <<>> /\ dirs' = Tail(dirs) /\ parent' = parent /\ yielded' = yielded
  BY DEF Read, Popped, fsVars
<1>2. Takes(i, d) /\ d \in Queue /\ Fresh(d)
  BY <1>1, AtHead, ReadTakes
<1>3. \A n : Pos(n)' = Pos(n)
  BY <1>1 DEF Pos, Place
<1>4. InOrder'
  BY <1>1, <1>3 DEF InOrder
<1>5. /\ DOMAIN dirs = 1 .. Len(dirs) /\ Len(dirs) \in Nat /\ Len(dirs) >= 1
      /\ DOMAIN dirs' = 1 .. Len(dirs) - 1 /\ d = dirs[1]
      /\ \A k \in 1 .. Len(dirs) - 1 : dirs'[k] = dirs[k + 1]
  <2>1. dirs \in Seq(Nodes)
    BY DEF TreeInv, TypeOK
  <2>2. /\ dirs' \in Seq(Nodes) /\ Len(dirs') = Len(dirs) - 1
        /\ \A k \in 1 .. Len(dirs') : dirs'[k] = dirs[k + 1]
    BY <1>1, <2>1, HeadTailProperties
  <2>3. /\ DOMAIN dirs = 1 .. Len(dirs) /\ Len(dirs) \in Nat
        /\ DOMAIN dirs' = 1 .. Len(dirs')
    BY <2>1, <2>2, LenProperties
  <2>4. Len(dirs) >= 1 /\ d = dirs[1]
    BY <1>1, <2>1, <2>3, EmptySeq
  <2> QED
    BY <2>2, <2>3, <2>4
<1>6. \A j, k \in DOMAIN dirs' : j < k => Pos(dirs'[j]) < Pos(dirs'[k])
  <2>1. ASSUME NEW j \in 1 .. Len(dirs) - 1, NEW k \in 1 .. Len(dirs) - 1, j < k
        PROVE  Pos(dirs'[j]) < Pos(dirs'[k])
    <3>1. j + 1 \in DOMAIN dirs /\ k + 1 \in DOMAIN dirs /\ j + 1 < k + 1
      BY <1>5, <2>1
    <3> QED
      BY <1>5, <3>1 DEF QueueInOrder
  <2> QED
    BY <1>5, <2>1
<1>7. \A q \in Queue' : Pos(d) < Pos(q)
  <2>1. ASSUME NEW q \in Queue, q # d
        PROVE  Pos(d) < Pos(q)
    <3>1. PICK k \in DOMAIN dirs : q = dirs[k]
      BY <2>1 DEF Queue, ToSet
    <3>2. 1 \in DOMAIN dirs /\ 1 < k
      BY <1>5, <2>1, <3>1
    <3> QED
      BY <1>5, <3>1, <3>2 DEF QueueInOrder
  <2> QED
    BY <1>2, <2>1 DEF Takes
<1>8. QueueInOrder'
  BY <1>1, <1>2, <1>3, <1>6 DEF QueueInOrder, Takes
<1>9. ReadsInOrder(i)'
  <2>1. \A n \in Seen : parent[n] # d /\ Pos(parent[n]) < Pos(d)
    BY <1>2 DEF QueueInOrder, Fresh
  <2> QED
    BY <1>1, <1>2, <1>3, <1>7, <2>1 DEF ReadsInOrder, Takes
<1> QED
  BY <1>4, <1>8, <1>9

LEMMA YieldOrder ==
  ASSUME TreeInv, InOrder, QueueInOrder, NEW i \in Iterations,
         Yield(i), rest[i] # <<>>, ReadsInOrder(i)
  PROVE  InOrder' /\ QueueInOrder' /\ ReadsInOrder(i)'
<1> PICK h : h = Head(rest[i])
  OBVIOUS
<1> DEFINE n == Len(yielded)
<1>1. /\ yielded' = Append(yielded, h) /\ rest' = rest /\ dirs' = dirs /\ parent' = parent
  BY DEF Yield, fsVars
<1>2. Yields(i, h) /\ h \notin Seen /\ ~Reached(h) /\ parent[h] = dir[i]
  BY YieldYields
<1>3. TypeOK /\ yielded \in Seq(1 .. MaxNode) /\ IsInjective(yielded) /\ h \in 1 .. MaxNode
  BY AtNext DEF TreeInv, TypeOK, Yield
<1>4. /\ n \in Nat /\ DOMAIN yielded = 1 .. n /\ Len(yielded') = n + 1
      /\ DOMAIN yielded' = 1 .. n + 1 /\ yielded'[n + 1] = h
      /\ \A k \in 1 .. n : yielded'[k] = yielded[k] /\ yielded[k] \in Seen
      /\ \A k \in 1 .. n + 1 : k \in 1 .. n \/ k = n + 1
  <2>1. /\ yielded' \in Seq(1 .. MaxNode) /\ Len(yielded') = n + 1
        /\ yielded'[n + 1] = h /\ \A k \in 1 .. n : yielded'[k] = yielded[k]
    BY <1>1, <1>3, AppendProperties
  <2>2. DOMAIN yielded' = 1 .. n + 1 /\ DOMAIN yielded = 1 .. n /\ n \in Nat
    BY <1>3, <2>1, LenProperties
  <2>3. \A k \in 1 .. n : yielded[k] \in Seen
    BY <1>3, Positions
  <2> HIDE DEF n
  <2>4. \A k \in 1 .. n + 1 : k \in 1 .. n \/ k = n + 1
    BY <2>2
  <2> QED
    BY <2>1, <2>2, <2>3, <2>4
<1>5. \A d : Reached(d) => Pos(d)' = Pos(d)
  <2>1. \A e \in Seen : PlaceIn(Append(yielded, h), e) = PlaceIn(yielded, e)
    BY <1>2, <1>3, PlaceKept DEF Seen
  <2>2. \A e \in Seen : Place(e)' = Place(e)
    BY <1>1, <2>1 DEF Place, PlaceIn
  <2> QED
    BY <2>2 DEF Pos, Reached
<1>6. Reading(i) /\ dir'[i] = dir[i] /\ Reached(dir[i]) /\ Queue' = Queue
      /\ Seen' = Seen \cup {h}
  BY <1>2, AllReached DEF Yields
<1>7. ASSUME NEW e \in Seen
      PROVE  (parent[e] = dir[i] /\ e < h) \/ Pos(parent[e]) < Pos(dir[i])
  BY <1>2 DEF ReadsInOrder, Yields
<1>8. InOrder'
  <2> SUFFICES ASSUME NEW j \in 1 .. n + 1, NEW k \in 1 .. n + 1, j < k,
                      NEW p, NEW q, p = parent'[yielded'[j]], q = parent'[yielded'[k]]
               PROVE  (p = q /\ yielded'[j] < yielded'[k]) \/ Pos(p)' < Pos(q)'
    BY <1>4 DEF InOrder
  <2>1. j \in 1 .. n
    BY <1>4
  <2>2. p = parent[yielded[j]] /\ Reached(p) /\ yielded'[j] = yielded[j]
    BY <1>1, <1>4, <2>1, AllReached
  <2>3. CASE k = n + 1
    <3>1. yielded'[k] = h /\ q = dir[i]
      BY <1>1, <1>2, <1>4, <2>3
    <3>2. (p = q /\ yielded[j] < h) \/ Pos(p) < Pos(q)
      BY <1>4, <1>7, <2>1, <2>2, <3>1
    <3> QED
      BY <1>5, <1>6, <2>2, <3>1, <3>2
  <2>4. CASE k \in 1 .. n
    <3>1. q = parent[yielded[k]] /\ Reached(q) /\ yielded'[k] = yielded[k]
      BY <1>1, <1>4, <2>4, AllReached
    <3>2. (p = q /\ yielded[j] < yielded[k]) \/ Pos(p) < Pos(q)
      BY <1>4, <2>1, <2>2, <2>4, <3>1 DEF InOrder
    <3> QED
      BY <1>5, <2>2, <3>1, <3>2
  <2> QED
    BY <1>4, <2>3, <2>4
<1>9. QueueInOrder'
  <2>1. \A q \in Queue : Pos(q)' = Pos(q)
    BY <1>5, AllReached
  <2>2. ASSUME NEW e \in Seen', NEW q \in Queue
        PROVE  Pos(parent[e])' < Pos(q)'
    <3>1. PICK p : p = parent[e]
      OBVIOUS
    <3>2. Reached(p) /\ Pos(p) < Pos(q)
      BY <1>2, <1>6, <3>1, AllReached DEF QueueInOrder, ReadsInOrder
    <3>3. Pos(p)' < Pos(q)'
      BY <1>5, <2>1, <3>2
    <3>4. p = parent'[e]
      BY <1>1, <3>1
    <3> QED
      BY <3>3, <3>4
  <2>3. \A j \in DOMAIN dirs : dirs[j] \in Queue
    BY DEF Queue, ToSet
  <2>4. ASSUME NEW j \in DOMAIN dirs, NEW k \in DOMAIN dirs, j < k
        PROVE  Pos(dirs[j])' < Pos(dirs[k])'
    <3>1. PICK p \in Queue : p = dirs[j]
      BY <2>3
    <3>2. PICK q \in Queue : q = dirs[k]
      BY <2>3
    <3>3. Pos(p)' < Pos(q)'
      BY <2>1, <2>4, <3>1, <3>2 DEF QueueInOrder
    <3> QED
      BY <1>1, <3>1, <3>2, <3>3
  <2> QED
    BY <1>1, <1>6, <2>2, <2>4 DEF QueueInOrder
<1>10. ReadsInOrder(i)'
  <2> PICK p : p = dir[i]
    OBVIOUS
  <2>1. Reached(p) /\ Pos(p)' = Pos(p) /\ dir'[i] = p
    BY <1>5, <1>6
  <2>2. \A q \in Queue' : Pos(p)' < Pos(q)'
    BY <1>5, <1>6, <2>1, AllReached DEF ReadsInOrder
  <2>3. ASSUME NEW e \in Seen'
        PROVE  parent[e] = p \/ Pos(parent[e])' < Pos(p)'
    <3>1. PICK o : o = parent[e]
      OBVIOUS
    <3>2. o = p \/ (Reached(o) /\ Pos(o) < Pos(p))
      BY <1>2, <1>6, <3>1, AllReached DEF ReadsInOrder
    <3>3. o = p \/ Pos(o)' < Pos(p)'
      BY <1>5, <2>1, <3>2
    <3> QED
      BY <1>1, <3>1, <3>3
  <2>4. ASSUME NEW e \in Seen', parent[e] = p, NEW m \in Left(i)'
        PROVE  e < m
    BY <1>2, <1>6, <2>4 DEF ReadsInOrder, Yields
  <2>5. yielded' # <<>> /\ Head(rest'[i]) = yielded'[Len(yielded')]
    BY <1>1, <1>3, <1>4
  <2> QED
    BY <1>1, <2>1, <2>2, <2>3, <2>4, <2>5 DEF ReadsInOrder
<1> QED
  BY <1>8, <1>9, <1>10

LEMMA ContinueOrder ==
  ASSUME TreeInv, InOrder, QueueInOrder, NEW i \in Iterations,
         Continue(i), ReadsInOrder(i)
  PROVE  InOrder' /\ QueueInOrder' /\ ReadsInOrder(i)'
<1> PICK h : h = Head(rest[i])
  OBVIOUS
<1>1. /\ at[i] = "entry" /\ dirs' = IF isDir[h] THEN Append(dirs, h) ELSE dirs
      /\ yielded' = yielded /\ parent' = parent
  BY DEF Continue, Appended, fsVars
<1>2. GoesOn(i, h) /\ h \in Nodes /\ h \notin Queue /\ Reached(h) /\ Fresh(h)
  BY <1>1, AtEntry, ContinueGoesOn DEF Reached
<1>3. TypeOK /\ dirs \in Seq(Nodes) /\ Seen' = Seen /\ at'[i] # "entry"
  BY DEF TreeInv, TypeOK, Continue, Seen
<1>4. \A d : Pos(d)' = Pos(d)
  BY <1>1 DEF Pos, Place
<1>5. InOrder'
  BY <1>1, <1>4 DEF InOrder
<1>6. \A d : Reached(d) /\ d # h => Pos(d) < Pos(h)
  <2>1. /\ Len(yielded) \in Nat /\ DOMAIN yielded = 1 .. Len(yielded)
        /\ \A k \in 1 .. Len(yielded) : Pos(yielded[k]) = k
        /\ \A d : Reached(d) => Pos(d) \in 0 .. Len(yielded)
        /\ \A d, e : Reached(d) /\ Reached(e) /\ Pos(d) = Pos(e) => d = e
    BY <1>3, Positions
  <2>2. h = yielded[Len(yielded)] /\ yielded # <<>>
    BY <1>1 DEF ReadsInOrder
  <2>3. Len(yielded) \in 1 .. Len(yielded)
    BY <1>3, <2>1, <2>2, EmptySeq DEF TypeOK
  <2>4. Pos(h) = Len(yielded)
    BY <2>1, <2>2, <2>3
  <2> QED
    BY <1>2, <2>1, <2>4
<1>7. \A q \in Queue : Pos(q) < Pos(h)
  BY <1>2, <1>6, AllReached
<1>8. \A n \in Seen : Pos(parent[n]) < Pos(h)
  BY <1>2, <1>6, AllReached DEF Fresh
<1>9. Pos(dir[i]) < Pos(h)
  BY <1>2, <1>6, AllReached DEF Fresh, GoesOn
<1>10. \A j, k \in DOMAIN dirs' : j < k => Pos(dirs'[j]) < Pos(dirs'[k])
  <2>1. CASE dirs' = dirs
    BY <2>1 DEF QueueInOrder
  <2>2. CASE dirs' = Append(dirs, h)
    <3> DEFINE m == Len(dirs)
    <3>1. /\ dirs' \in Seq(Nodes) /\ Len(dirs') = m + 1 /\ dirs'[m + 1] = h
          /\ \A k \in 1 .. m : dirs'[k] = dirs[k]
      BY <1>2, <1>3, <2>2, AppendProperties
    <3>2. DOMAIN dirs = 1 .. m /\ m \in Nat /\ DOMAIN dirs' = 1 .. m + 1
      BY <1>3, <3>1, LenProperties
    <3> HIDE DEF m
    <3>3. ASSUME NEW j \in 1 .. m + 1, NEW k \in 1 .. m + 1, j < k
          PROVE  Pos(dirs'[j]) < Pos(dirs'[k])
      <4>1. j \in 1 .. m /\ dirs'[j] = dirs[j] /\ dirs[j] \in Queue
        <5>1. j \in 1 .. m
          BY <3>2, <3>3
        <5> QED
          BY <3>1, <3>2, <5>1 DEF Queue, ToSet
      <4>2. CASE k = m + 1
        BY <1>7, <3>1, <4>1, <4>2
      <4>3. CASE k \in 1 .. m
        BY <3>1, <3>2, <3>3, <4>1, <4>3 DEF QueueInOrder
      <4>4. k = m + 1 \/ k \in 1 .. m
        BY <3>2
      <4> QED
        BY <4>2, <4>3, <4>4
    <3> QED
      BY <3>2, <3>3
  <2> QED
    BY <1>1, <2>1, <2>2
<1>11. QueueInOrder'
  <2>1. \A q \in Queue' : q \in Queue \/ q = h
    BY <1>2 DEF GoesOn
  <2>2. \A q \in Queue' : \A n \in Seen : Pos(parent[n]) < Pos(q)
    BY <1>8, <2>1 DEF QueueInOrder
  <2> QED
    BY <1>1, <1>3, <1>4, <1>10, <2>2 DEF QueueInOrder
<1>12. ReadsInOrder(i)'
  <2>1. \A q \in Queue' : Pos(dir[i]) < Pos(q)
    BY <1>2, <1>9 DEF GoesOn, ReadsInOrder
  <2> QED
    BY <1>1, <1>2, <1>3, <1>4, <2>1 DEF ReadsInOrder, GoesOn
<1> QED
  BY <1>5, <1>11, <1>12

LEMMA OrderStep ==
  ASSUME TreeInv, OrderInv, NEW i \in Iterations, Step(i)
  PROVE  OrderInv'
<1> SUFFICES ASSUME ~mixed'
             PROVE  /\ OneActive' /\ InOrder' /\ QueueInOrder'
                    /\ \A j \in Iterations : Reading(j)' => ReadsInOrder(j)'
  BY DEF OrderInv
<1>1. /\ OneActive /\ InOrder /\ QueueInOrder
      /\ \A j \in Iterations : Reading(j) => ReadsInOrder(j)
  BY DEF OrderInv, Step, Begin, End, Read, Yield, Continue, ContinueAfterError, Break
<1>2. OneActive' /\ \A j \in Iterations : j # i => ~Reading(j)'
  BY <1>1, OthersOut DEF TreeInv
<1> SUFFICES InOrder' /\ QueueInOrder' /\ (Reading(i)' => ReadsInOrder(i)')
  BY <1>2
<1>3. CASE Begin(i) \/ End(i) \/ ContinueAfterError(i) \/ Break(i)
           \/ (Yield(i) /\ rest[i] = <<>>)
  <2>1. parent' = parent /\ yielded' = yielded /\ dirs' = dirs
    BY <1>3 DEF Begin, End, ContinueAfterError, SetAside, Break, Yield, fsVars
  <2>2. at'[i] \in {"out", "loop"}
    BY <1>3 DEF TreeInv, TypeOK, Begin, End, ContinueAfterError, Break, Yield
  <2>3. ~Reading(i)'
    BY <2>2 DEF Reading
  <2> QED
    BY <1>1, <2>1, <2>3, RestOrder
<1>4. CASE Read(i)
  BY <1>1, <1>4, ReadOrder
<1>5. CASE Yield(i) /\ rest[i] # <<>>
  <2>1. Reading(i)
    BY <1>5 DEF Yield, Reading
  <2> QED
    BY <1>1, <1>5, <2>1, YieldOrder
<1>6. CASE Continue(i)
  <2>1. Reading(i)
    BY <1>6 DEF Continue, Reading
  <2> QED
    BY <1>1, <1>6, <2>1, ContinueOrder
<1> QED
  BY <1>3, <1>4, <1>5, <1>6 DEF Step

\* However many iterations share the queue, the tree is read once, and in order
\* as long as they do not take turns (scan_dir.go:34-68).
THEOREM Inductive == Spec => []IInv
<1>1. Init => IInv
  BY InitInv
<1>2. IInv /\ [Next]_vars => IInv'
  <2> SUFFICES ASSUME IInv, [Next]_vars PROVE IInv'
    OBVIOUS
  <2>1. ASSUME NEW i \in Iterations, Step(i) PROVE IInv'
    BY <2>1, TreeStep, OrderStep DEF IInv
  <2>2. CASE UNCHANGED vars
    <3>0. UNCHANGED <<parent, isDir, dirs, at, dir, rest, yielded, failed, dropped, mixed>>
      BY <2>2 DEF vars, fsVars, loopVars
    <3>1. /\ Queue' = Queue /\ Seen' = Seen
          /\ \A d : Pos(d)' = Pos(d)
          /\ \A i \in Iterations : (Out(i)' <=> Out(i)) /\ Same(i)
      BY <3>0 DEF Queue, Seen, Reading, Running, Out, Current, Left, Pos, Place, Same
    <3>2. TypeOK' /\ OneRuns'
      BY <3>0, <3>1 DEF Same, IInv, TreeInv, TypeOK, OneRuns
    <3>3. \A i \in Iterations : Holding(i)'
      BY <3>0, <3>1 DEF Same, IInv, TreeInv, Holding
    <3>4. ReadOnce'
      BY <3>0, <3>1 DEF Same, IInv, TreeInv, ReadOnce, Reached, Fresh
    <3>5. NothingLost'
      BY <3>0, <3>1 DEF Same, IInv, TreeInv, NothingLost, Accounted, Reached
    <3>6. OrderInv'
      BY <3>0, <3>1 DEF Same, IInv, OrderInv, OneActive, InOrder, QueueInOrder, ReadsInOrder
    <3> QED
      BY <3>2, <3>3, <3>4, <3>5, <3>6 DEF IInv, TreeInv
  <2> QED
    BY <2>1, <2>2 DEF Next, Step
<1> QED
  BY <1>1, <1>2, PTL DEF Spec

\* No entry is yielded twice, and none is lost but by a broken loop or an
\* unreadable directory, for every tree and any number of iterations that
\* share the queue (scan_dir.go:25, 34-67).
THEOREM EntriesOnce == Spec => []EveryEntryOnce
<1>1. ASSUME TreeInv PROVE EveryEntryOnce
  <2>1. NeverTwice
    BY <1>1 DEF TreeInv, TypeOK, ReadOnce, NeverTwice, Seen
  <2>2. ASSUME dirs = <<>>, \A i \in Iterations : at[i] = "out",
               NEW n \in 1 .. MaxNode \ ToSet(yielded)
        PROVE  \/ parent[n] \in failed \cup dropped
               \/ parent[n] # Start /\ parent[n] \notin ToSet(yielded)
               \/ \E m \in dropped : parent[m] = parent[n] /\ m < n
    <3>1. Accounted(n) /\ Queue = {}
      BY <1>1, <2>2, Empty DEF TreeInv, NothingLost, Seen, Queue
    <3>2. \A i \in Iterations : Current(i) = {} /\ Left(i) = {}
      <4>1. ASSUME NEW i \in Iterations PROVE at[i] = "out" /\ rest[i] = <<>>
        BY <1>1, <2>2 DEF TreeInv, Holding, Reading
      <4> QED
        BY <4>1, Empty DEF Current, Left
    <3> QED
      BY <3>1, <3>2 DEF Accounted, Reached, Seen
  <2>3. LostOnlyByBreak
    BY <2>2 DEF LostOnlyByBreak
  <2> QED
    BY <2>1, <2>3 DEF EveryEntryOnce
<1> QED
  BY <1>1, Inductive, PTL DEF IInv

\* Unless two iterations take turns, entries come breadth first, for every tree
\* and wherever the loops are broken off (scan_dir.go:23, 35-36, 52-66).
THEOREM InBreadth == Spec => []BreadthFirst
<1>1. ASSUME IInv PROVE BreadthFirst
  <2> SUFFICES ASSUME ~mixed, NEW j \in DOMAIN yielded, NEW k \in DOMAIN yielded, j < k,
                      NEW d, NEW e, d = parent[yielded[j]], e = parent[yielded[k]]
               PROVE  \/ d = e /\ yielded[j] < yielded[k]
                      \/ d # e /\ (d = Start \/ (e # Start /\ Place(d) < Place(e)))
    BY DEF BreadthFirst
  <2>1. TreeInv /\ TypeOK /\ InOrder
    BY <1>1 DEF IInv, TreeInv, OrderInv
  <2>2. (d = e /\ yielded[j] < yielded[k]) \/ Pos(d) < Pos(e)
    BY <2>1 DEF InOrder
  <2>3. Reached(d) /\ Reached(e)
    BY <2>1, AllReached DEF Seen, ToSet
  <2>4. /\ Pos(d) \in Nat /\ Pos(e) \in Nat
    BY <2>1, <2>3, Positions
  <2>5. CASE Pos(d) < Pos(e)
    <3>1. d # e /\ e # Start
      BY <2>4, <2>5 DEF Pos
    <3> QED
      BY <2>5, <3>1 DEF Pos
  <2> QED
    BY <2>2, <2>5
<1> QED
  BY <1>1, Inductive, PTL
===============================================================================
