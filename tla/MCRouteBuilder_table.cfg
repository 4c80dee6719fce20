SPECIFICATION Spec
CONSTANTS
  p = p
  q = q
  h = h
  f = f
  n = n
  o = o
  Paths = {p, q}
  Methods = {"GET", "ALL"}
  All = "ALL"
  Handlers = {h}
  Files = {f}
  Names = {n}
  Options = {o}
  Nil = Nil
  MaxRoutes = 2
  Below <- MCBelow
  Sources <- MCSources
VIEW TableView
PROPERTIES
  ImplementsTable
\* Build may have panicked.
CHECK_DEADLOCK FALSE
