SPECIFICATION Spec
CONSTANTS
  None = None
  NoClaims = NoClaims
  Second = 2
  Clients = {c1, c2}
  Ids = {u1, u2}
  Passwords = {x, y}
  Weak = {y}
  AccessDuration = 3
  RefreshDuration = 4
  MaxTime = 2
SYMMETRY Symmetry
INVARIANTS
  IdentityTypeOK
  AnswersAreCurrent
  OneResponse
  TokensArrive
  RefreshGoesByRefreshToken
  GuardNamesCaller
