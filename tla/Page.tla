---------------------------------- MODULE Page ---------------------------------
(***************************************************************************)
(* data/page: the selector that a query asks for, and the numbering of the *)
(* pages of its result.  Parsing an integer is external, and so are the    *)
(* floats that Fill divides in.                                            *)
(***************************************************************************)
EXTENDS Integers

CONSTANTS
  Nil,               \* a nil pointer
  Inexact(_, _, _)   \* int() of a float quotient that is not exact, rounded up
                     \* or down: some integer, which may be negative

Selector(limit, offset, last) == [limit |-> limit, offset |-> offset, last |-> last]

\* Or of a selector, which may be nil: what it leaves open is filled in.
Given(v, default) == IF v # Nil THEN v ELSE default
Or(s, limit, offset, last) ==
  IF s = Nil THEN Selector(limit, offset, last)
  ELSE Selector(Given(s.limit, limit), Given(s.offset, offset), Given(s.last, last))

Entire == Or(Nil, 0, 0, Nil)

\* LimitOr and OffsetOr: zero counts as open.
OrDefault(v, default) == IF v = Nil \/ v = 0 THEN default ELSE v
LimitOr(s, limit) == IF s = Nil THEN limit ELSE OrDefault(s.limit, limit)
OffsetOr(s, off)  == IF s = Nil THEN off ELSE OrDefault(s.offset, off)

\* FromURLValues: a parameter that is empty is left open; one that is not a
\* number, NaN, is an error, and what was read before it is returned with it.
FromURLValues(q, NaN) ==
  CASE q.limit = NaN -> [err |-> "limit", sel |-> Selector(Nil, Nil, Nil)]
    [] q.limit # NaN /\ q.offset = NaN -> [err |-> "offset", sel |-> Selector(q.limit, Nil, Nil)]
    [] OTHER -> [err |-> "nil", sel |-> Selector(q.limit, q.offset, q.last)]

\* math.Floor and math.Ceil of a quotient; the divisor may be negative.
Floor(a, b) == IF b > 0 THEN a \div b ELSE (-a) \div (-b)
Ceil(a, b)  == -Floor(-a, b)

\* A dividend below 2^53 is a float, and the quotient is rounded by less than
\* what separates it from the next integer, whatever the divisor.  One beyond
\* may be rounded to another page, and 2^63, the float of the largest int, does
\* not fit an int at all.  A client may send any int as the offset.
Precise == 2^53
IsPrecise(a) == -Precise < a /\ a < Precise

FloorOf(a, b) == IF IsPrecise(a) THEN Floor(a, b) ELSE Inexact("down", a, b)
CeilOf(a, b)  == IF IsPrecise(a) THEN Ceil(a, b) ELSE Inexact("up", a, b)

\* PaginationMeta.Fill.
TotalPages(limit, total) ==
  IF total = 0 THEN 0 ELSE IF limit = 0 THEN 1 ELSE CeilOf(total, limit)
CurrentPage(limit, off) ==
  IF off = 0 \/ limit = 0 THEN 0 ELSE FloorOf(off, limit)

Fill(sel, total) ==
  LET limit == LimitOr(sel, 0)
  IN [pageSizeLimit |-> limit, totalEntries |-> total,
      totalPages    |-> TotalPages(limit, total),
      currentPage   |-> CurrentPage(limit, OffsetOr(sel, 0))]

\* FillMeta, of a page with size entries, and SetSingle.
FillMeta(sel, total, size) ==
  LET meta == Fill(sel, total)
  IN [pageSizeLimit |-> meta.pageSizeLimit, totalEntries |-> meta.totalEntries,
      totalPages |-> meta.totalPages, currentPage |-> meta.currentPage,
      currentPageSize |-> size]
SetSingle(size) == FillMeta(Entire, size, size)
===============================================================================
