-------------------------------- MODULE Tokens --------------------------------
(***************************************************************************)
(* Tokens as identity and utils/jwt see them: a token is the id of a user  *)
(* and the time at which it expires; a token string that a client sends is *)
(* that and the errors that golang-jwt, which is external, finds in it     *)
(* whatever the time.  Times are ticks of a clock that is finer than the   *)
(* seconds in which expiries and the ages of cookies are given.            *)
(***************************************************************************)
EXTENDS Integers

CONSTANTS
  None,             \* a nil pointer
  NoClaims,         \* what is there to read in a token that breaks off early
  Second,           \* ticks in a second
  Ids,              \* ids of users
  AccessDuration,   \* RegistryProvider.AccessTokenDuration
  RefreshDuration   \* RegistryProvider.RefreshTokenDuration

ASSUME TokensAssumption ==
  /\ None \notin Ids \cup {NoClaims} /\ NoClaims \notin Ids
  /\ {AccessDuration, RefreshDuration} \subseteq Nat /\ Second \in Nat \ {0}

\* The errors that ValidateTokenParseError tells apart.  "key" stands for the
\* three it gives up on, "malformed" for the ten it treats alike.
JwtErrors == {"expired", "type", "key", "malformed", "other"}

\* A token string: who it names, until when, and what is wrong with it.  The
\* claims are read before the signature is checked; a header that cannot be
\* decoded leaves a token that has none.
TokenString(uid, exp, errs) == [uid |-> uid, exp |-> exp, errs |-> errs]

\* jwt.ParseWithClaims at a time: a claim that is not valid, such as the
\* expiry, is also reported as invalid claims.
ParseErrors(str, now) ==
  str.errs \cup (IF str.errs = {} /\ now >= str.exp THEN {"expired", "malformed"} ELSE {})

\* ValidateTokenParseError: the first case that applies.
IsExpired(errs)    == "expired" \in errs
IsParseError(errs) == "type" \in errs /\ ~IsExpired(errs)
GivesUp(errs)      == "key" \in errs /\ ~IsExpired(errs) /\ ~IsParseError(errs)
IsMalformed(errs)  == "malformed" \in errs /\ errs \cap {"expired", "type", "key"} = {}

\* A bug: IsOk looks at the flags and not at the error.
FlagsOnly(vt) == ~IsExpired(vt.errs) /\ ~IsParseError(vt.errs) /\ ~IsMalformed(vt.errs)
\* TokenValidation.IsOk and ValidatedToken.IsValid of a token that was parsed.
IsOk(vt) == vt.errs = {}

\* parseToken: the token and its validation; nothing for an empty string.
Validated(str, now) ==
  IF str = None THEN None ELSE TokenString(str.uid, str.exp, ParseErrors(str, now))

\* tokensFromRequest reads the access token from its header or else from the
\* cookie, and the refresh token from its header.
TokenPair(header, cookie, refresh, now) ==
  [access  |-> Validated(IF header = None THEN cookie ELSE header, now),
   refresh |-> Validated(refresh, now)]

\* It fails if parseToken does.
ReadFails(pair) ==
  \E vt \in {pair.access, pair.refresh} : vt # None /\ GivesUp(vt.errs)

HasValidAccess(pair) == pair.access # None /\ IsOk(pair.access)

AnyToken(vt) == vt # None     \* a bug: isOk is ignored
\* Token.GetUserId, which panics on a token without claims, and
\* ValidatedTokenPair.UserId, which takes the first of the two tokens that
\* names a user, valid or not; NoClaims stands for the panic.
HasUserId(vt) == vt # None /\ vt.uid \in Ids
FirstNamed(vt, other) ==
  IF vt # None /\ vt.uid # None THEN vt.uid ELSE IF other = None THEN None ELSE other.uid
RefreshFirst(pair) == FirstNamed(pair.refresh, pair.access)     \* a bug: the wrong order
PairUserId(pair) == FirstNamed(pair.access, pair.refresh)

\* jwt.NewNumericDate of a time and int of Duration.Seconds cut off what is
\* less than a second.
Whole(t) == t - (t % Second)

\* createSignedTokenPair, which reads the clock for each of them.
SignedPair(uid, now, later) ==
  [access  |-> TokenString(uid, Whole(now + AccessDuration), {}),
   refresh |-> TokenString(uid, Whole(later + RefreshDuration), {})]

\* A bug: a cookie lives as long as a fresh token.
FullLife(token, now) == now + AccessDuration
\* Token.AsCookie: when a browser drops the cookie, which is MaxAge seconds
\* after it was made, or at once if there are none.
CookieDies(token, now) ==
  LET age == Whole(token.exp - now) IN IF age <= 0 THEN now ELSE now + age
===============================================================================
