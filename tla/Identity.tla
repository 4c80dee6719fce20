------------------------------- MODULE Identity -------------------------------
(***************************************************************************)
(* identity.RegistryProvider behind the handlers of identity/http: sign-up *)
(* and sign-in as calls whose registry operations interleave with those of *)
(* other calls and with the registry's owner; refresh, check and guard as  *)
(* decisions over the tokens of a request.                                 *)
(*                                                                         *)
(* The registry is external.  It knows one user name, so credentials are a *)
(* password; it creates a user with the id it is given, atomically, or     *)
(* finds that there is one; every call of it may fail.  A request that     *)
(* does not use the registry meets no other: it is served in one step,     *)
(* while no other is in progress.                                          *)
(***************************************************************************)
EXTENDS Tokens, Jsoner

CONSTANTS
  Clients,     \* goroutines that serve requests
  Passwords,
  Weak,        \* those the registry refuses in a sign-up
  MaxTime      \* bound on the clock

ASSUME IdentityAssumption ==
  /\ None \notin Passwords /\ Weak \subseteq Passwords
  /\ MaxTime \in Nat

INSTANCE Response WITH NoTokens <- None

VARIABLES
  user,     \* registry: the user of the name, or None
  used,     \* ids that uuid.NewV7 has made
  named,    \* ids that tokens have been issued for
  now,      \* the clock
  at,       \* what each client's handler does next
  req,      \* its request
  found,    \* the *U that its handler has got from the registry
  seen,     \* history: what user has been since its request came
  answer    \* the request answered last, until somebody has looked at it

callVars == <<at, req, found, seen>>
vars     == <<user, used, named, now, callVars, answer>>

Users   == [id : Ids, pw : Passwords]
Options == [optional : BOOLEAN, redirect : BOOLEAN, noFetch : BOOLEAN]

\* Tokens and pairs of them, as they are read from a request.
Str  == [uid : Ids \cup {None, NoClaims}, exp : Int, errs : SUBSET JwtErrors]
Pair == [access : Str \cup {None}, refresh : Str \cup {None}]

\* nil is neither a struct nor a header.
ASSUME NilAssumption ==
  /\ None \notin Users /\ None \notin Str /\ None \notin Pair
  /\ None \notin [access : Str, refresh : Str \cup {None}, dies : Int, time : Int]

NoPair    == [access |-> None, refresh |-> None]
Mandatory == [optional |-> FALSE, redirect |-> FALSE, noFetch |-> FALSE]
Request(op, creds, pair, opts) ==
  [op |-> op, creds |-> creds, pair |-> pair, opts |-> opts]
NoRequest == Request("none", None, NoPair, Mandatory)

Init ==
  /\ user = None /\ used = {} /\ named = {}
  /\ now = 0
  /\ at = [c \in Clients |-> "idle"]
  /\ req = [c \in Clients |-> NoRequest]
  /\ found = [c \in Clients |-> None]
  /\ seen = [c \in Clients |-> {}]
  /\ answer = None

Ready == answer = None
Quiet == Ready /\ \A c \in Clients : at[c] = "idle"

\* Encoding the result, or writing it to the client, may fail.
Faults == {"none", "encoding", "writing"}

\* A handler answers request r: what it says, the tokens it gives, the user
\* it has found and the response as it leaves it.
Answer(r, says, tokens, usr, resp, fault, history) ==
  answer' = [req |-> r, says |-> says, tokens |-> tokens, user |-> usr,
             resp |-> resp, fault |-> fault, seen |-> history]

\* The handler of client c is done; of a request without registry calls; and
\* the handler of c goes on.
Finish(c, says, tokens, usr, resp, fault) ==
  /\ Answer(req[c], says, tokens, usr, resp, fault, seen[c])
  /\ at' = [at EXCEPT ![c] = "idle"]
  /\ req' = [req EXCEPT ![c] = NoRequest]
  /\ found' = [found EXCEPT ![c] = None]
  /\ seen' = [seen EXCEPT ![c] = {}]

Reply(r, says, tokens, resp) ==
  Answer(r, says, tokens, None, resp, "none", {}) /\ UNCHANGED callVars

Begin(c, r, step) ==
  /\ at' = [at EXCEPT ![c] = step]
  /\ req' = [req EXCEPT ![c] = r]
  /\ seen' = [seen EXCEPT ![c] = {user}]
  /\ UNCHANGED <<found, answer>>

GoOn(c, step) == at' = [at EXCEPT ![c] = step] /\ UNCHANGED <<req, seen, answer>>

Refuse(c, says, status) == Finish(c, says, None, None, JSON(Blank, status, TRUE), "none")
Fail(c) == Finish(c, "failed", None, None, String(Blank, 500), "none")

TokensAfterStatus(r, pair, time) == r     \* a bug: the status is sent first
\* respondTokens: the token headers, and a cookie with the access token.
RespondTokens(r, pair, time) ==
  SetHeaders(r, [access |-> pair.access, refresh |-> pair.refresh,
                 dies |-> CookieDies(pair.access, time), time |-> time])

-----------------------------------------------------------------------------
(* Signin and Signup.                                                      *)

\* The body is read: one that is not a single JSON value is refused, and so is
\* one without credentials, by Signin with a status of its own.
BadSign(op) ==
  /\ Quiet
  /\ LET r == Request(op, None, NoPair, Mandatory)
     IN \/ \E b \in Bodies : Decode(b) # "ok" /\ Reply(r, "badBody", None, String(Blank, 400))
        \/ Reply(r, "noCredentials", None,
                 String(Blank, IF op = "signin" THEN 400 ELSE 500))
  /\ UNCHANGED <<user, used, named, now>>

Sign(c, op, creds) ==
  /\ Ready /\ at[c] = "idle"
  /\ Begin(c, Request(op, creds, NoPair, Mandatory), IF op = "signin" THEN "find" ELSE "check")
  /\ UNCHANGED <<user, used, named, now>>

\* GetUserByCredentials looks for the name.
FindUser(c) ==
  /\ Ready /\ at[c] = "find"
  /\ \/ Fail(c)
     \/ user = None /\ Refuse(c, "notFound", 401)
     \/ /\ user # None /\ found' = [found EXCEPT ![c] = user]
        /\ GoOn(c, "compare")
  /\ UNCHANGED <<user, used, named, now>>

NotAsked(u, creds) == TRUE     \* a bug: the password is not compared
\* UserHasCredentials of a user, as it was found or as the registry has it now.
HasCredentials(u, creds) == u # None /\ u.pw = creds

Current(u) == IF user # None /\ user.id = u.id THEN user ELSE None

CompareCredentials(c) ==
  /\ Ready /\ at[c] = "compare"
  /\ \/ Fail(c)
     \/ \E u \in {found[c], Current(found[c])} :
          IF HasCredentials(u, req[c].creds)
          THEN GoOn(c, "sign") /\ UNCHANGED found
          ELSE Refuse(c, "mismatch", 401)
  /\ UNCHANGED <<user, used, named, now>>

\* CheckFieldsCorrectness: the user name is in order, the password may not be.
FieldChecks(creds) == [username |-> TRUE, password |-> creds \notin Weak]
HasIncorrect(checks) == \E f \in DOMAIN checks : ~checks[f]

CheckFields(c) ==
  /\ Ready /\ at[c] = "check"
  /\ \/ Fail(c)
     \/ HasIncorrect(FieldChecks(req[c].creds)) /\ Refuse(c, "invalid", 200)
     \/ /\ ~HasIncorrect(FieldChecks(req[c].creds))
        /\ GoOn(c, "create") /\ UNCHANGED found
  /\ UNCHANGED <<user, used, named, now>>

\* What others see of the registry when its user becomes u.
Becomes(u) ==
  /\ user' = u
  /\ seen' = [c \in Clients |-> IF at[c] = "idle" THEN {} ELSE seen[c] \cup {u}]

\* CreateUser with a fresh id.  A registry that fails may have stored the user.
CreateUser(c) ==
  /\ Ready /\ at[c] = "create"
  /\ \/ Fail(c) /\ UNCHANGED <<user, used>>
     \/ user # None /\ Refuse(c, "exists", 200) /\ UNCHANGED <<user, used>>
     \/ /\ user = None
        /\ \E id \in Ids \ used :
             LET stub == [id |-> id, pw |-> req[c].creds]
             IN used' = used \cup {id} /\ Becomes(stub) /\ found' = [found EXCEPT ![c] = stub]
        /\ at' = [at EXCEPT ![c] = "sign"]
        /\ UNCHANGED <<req, answer>>
  /\ UNCHANGED <<named, now>>

CreateBreaks(c) ==
  /\ Ready /\ at[c] = "create" /\ user = None
  /\ \E id \in Ids \ used :
       /\ used' = used \cup {id}
       /\ user' = [id |-> id, pw |-> req[c].creds]
       /\ seen' = [d \in Clients |-> IF at[d] = "idle" \/ d = c THEN {} ELSE seen[d] \cup {user'}]
       /\ Answer(req[c], "failed", None, None, String(Blank, 500), "none", seen[c])
  /\ at' = [at EXCEPT ![c] = "idle"]
  /\ req' = [req EXCEPT ![c] = NoRequest]
  /\ UNCHANGED <<found, named, now>>

\* createSignedTokenPair, and the answer.  Both the second token and the cookie
\* may be made a little later than the first one; the user may turn out not to
\* be encodable, which nobody notices.
SignTokens(c) ==
  /\ Ready /\ at[c] = "sign"
  /\ \/ Fail(c) /\ UNCHANGED <<named, now>>
     \/ /\ now' \in now .. MaxTime
        /\ named' = named \cup {found[c].id}
        /\ \E fault \in {"none", "encoding"} :
             LET pair == SignedPair(found[c].id, now, now')
             IN Finish(c, "ok", pair, None,
                       JSON(RespondTokens(Blank, pair, now'), 200, fault = "none"), fault)
  /\ UNCHANGED <<user, used>>

-----------------------------------------------------------------------------
(* Requests with tokens.                                                   *)

\* What clients send: tokens that the provider has issued, still valid or just
\* expired; others that are in order, or broken, and name nobody; and forged
\* ones, that name whom they like, or have no claims.
Expiries == {e \in now .. now + Second : e = Whole(e)}
Issued == {TokenString(u, e, {}) : u \in named,
             e \in Expiries \cap (Whole(AccessDuration) .. now + RefreshDuration)}
Later  == Whole(MaxTime) + Second
Others == {TokenString(None, Later, e) :
             e \in {{}, {"type", "malformed"}, {"key", "malformed"}, {"malformed"}, {"other"}}}
Forged == {TokenString(u, Later, {"malformed"}) : u \in Ids \cup {NoClaims}}
Strings == {None} \cup Issued \cup Others \cup Forged
Pairs   == {TokenPair(h, k, r, now) : h, k, r \in Strings}

\* The switch of Check and Refresh: the status for a token that is of no use.
\* No token is a bad request only for Refresh, which is told so by absent.
RefusalStatus(vt, absent) ==
  CASE vt = None -> absent
    [] vt # None /\ (IsExpired(vt.errs) \/ IsMalformed(vt.errs)) -> 401
    [] OTHER -> 500

Check ==
  /\ Quiet
  /\ now' \in now .. MaxTime
  /\ \E pair \in Pairs :
       LET r == Request("check", None, pair, Mandatory)
       IN IF ReadFails(pair)
          THEN Reply(r, "failed", None, String(Blank, 500))
          ELSE IF HasValidAccess(pair)
          THEN Reply(r, "ok", pair, String(RespondTokens(Blank, pair, now'), 200))
          ELSE Reply(r, "refused", None, String(Blank, RefusalStatus(pair.access, 401)))
  /\ UNCHANGED <<user, used, named>>

NilOnly(vt) == vt # None      \* a bug: the second test looks for a token only
\* Refresh goes further with a token that is there and in order.
Usable(vt) == vt # None /\ IsOk(vt)

OfAccess(pair) == pair.access    \* a bug: the access token is exchanged
Exchanged(pair) == pair.refresh

\* The switch, the test after it, RegistryProvider.Refresh, which does not ask
\* the registry, and the answer.
Refresh ==
  /\ Quiet
  /\ now' \in now .. MaxTime
  /\ \E pair \in Pairs :
       LET r    == Request("refresh", None, pair, Mandatory)
           vt   == Exchanged(pair)
           resp == IF vt # None /\ IsOk(vt) THEN Blank ELSE String(Blank, RefusalStatus(vt, 400))
       IN \/ ReadFails(pair) /\ Reply(r, "failed", None, String(Blank, 500)) /\ UNCHANGED named
          \/ ~ReadFails(pair) /\ ~Usable(vt) /\ Reply(r, "refused", None, resp) /\ UNCHANGED named
          \/ ~ReadFails(pair) /\ Usable(vt) /\ Reply(r, "failed", None, String(resp, 500)) /\ UNCHANGED named
          \/ /\ ~ReadFails(pair) /\ Usable(vt) /\ HasUserId(vt)
             /\ named' = named \cup {vt.uid}
             /\ LET signed  == SignedPair(vt.uid, now, now')
                    written == Write(RespondTokens(resp, signed, now'))
                IN \/ Reply(r, "ok", signed, written)
                   \/ /\ Answer(r, "ok", signed, None, String(written, 500), "writing", {})
                      /\ UNCHANGED callVars
  /\ UNCHANGED <<user, used>>

\* Guard as far as it needs no registry; a user's handler that it lets through
\* answers for itself.
Guard(op, o) ==
  /\ Quiet
  /\ \E pair \in Pairs :
       LET r == Request(op, None, pair, o)
       IN \/ ReadFails(pair) /\ Reply(r, "failed", None, String(Blank, 500))
          \/ /\ ~ReadFails(pair) /\ ~o.optional /\ ~HasValidAccess(pair)
             /\ Reply(r, "refused", None, String(Blank, IF o.redirect THEN 302 ELSE 401))
          \/ /\ ~ReadFails(pair) /\ (o.optional \/ HasValidAccess(pair))
             /\ o.noFetch \/ ~HasValidAccess(pair)
             /\ Reply(r, "passed", None, String(Blank, 200))
          \/ /\ ~ReadFails(pair) /\ HasValidAccess(pair) /\ ~o.noFetch
             /\ \E c \in Clients : Begin(c, r, "fetch")
  /\ UNCHANGED <<user, used, named, now>>

\* GetTokenUser of a token that names a user.
TokenUser(vt) == IF user # None /\ user.id = vt.uid THEN user ELSE None

\* The end of Guard, which fails without a user id.  CurrentUser answers with
\* the user, or with null; if that fails it answers once more.
FetchUser(c) ==
  /\ Ready /\ at[c] = "fetch"
  /\ LET vt == req[c].pair.access
         u  == TokenUser(vt)
         ok == JSON(Blank, 200, TRUE)
     IN \/ Fail(c)
        \/ HasUserId(vt) /\ req[c].op = "guarded" /\ Finish(c, "passed", None, u, ok, "none")
        \/ /\ HasUserId(vt) /\ req[c].op = "user"
           /\ \/ Finish(c, "passed", None, u, ok, "none")
              \/ Finish(c, "failed", None, u, String(Blank, 500), "encoding")
              \/ Finish(c, "failed", None, u, String(ok, 500), "writing")
  /\ UNCHANGED <<user, used, named, now>>

-----------------------------------------------------------------------------
(* The registry's owner, the clock, and whoever looks at the last answer.  *)

DeleteUser == Ready /\ user # None /\ Becomes(None)
  /\ UNCHANGED <<used, named, now, at, req, found, answer>>

ChangePassword(pw) == Ready /\ user # None /\ Becomes([user EXCEPT !.pw = pw])
  /\ UNCHANGED <<used, named, now, at, req, found, answer>>

Tick == Ready /\ now < MaxTime /\ now' = now + 1
  /\ UNCHANGED <<user, used, named, callVars, answer>>

Look == answer # None /\ answer' = None
  /\ UNCHANGED <<user, used, named, now, callVars>>

Next ==
  \/ \E op \in {"signin", "signup"} :
       BadSign(op) \/ \E c \in Clients, creds \in Passwords : Sign(c, op, creds)
  \/ \E c \in Clients :
       \/ FindUser(c) \/ CompareCredentials(c) \/ CheckFields(c)
       \/ CreateUser(c) \/ CreateBreaks(c) \/ SignTokens(c) \/ FetchUser(c)
  \/ Check \/ Refresh \/ Guard("user", Mandatory) \/ \E o \in Options : Guard("guarded", o)
  \/ DeleteUser \/ \E pw \in Passwords : ChangePassword(pw)
  \/ Tick \/ Look

Spec == Init /\ [][Next]_vars

-----------------------------------------------------------------------------
\* Types of the state.
IdentityTypeOK ==
  /\ user \in Users \cup {None}
  /\ named \subseteq used /\ used \subseteq Ids
  /\ now \in 0 .. MaxTime
  /\ \A c \in Clients :
       /\ at[c] \in {"idle", "find", "compare", "check", "create", "sign", "fetch"}
       /\ found[c] \in Users \cup {None}
       /\ at[c] \in {"compare", "sign"} => found[c] # None
       /\ seen[c] \subseteq Users \cup {None}
       /\ req[c].opts \in Options
       /\ req[c].pair \in Pair
  /\ answer # None => answer.fault \in Faults

\* What sign-in and sign-up say was true at some moment of the call: the user
\* they give tokens for had these credentials, the user they did not find was
\* not there, the name they found taken was taken.  So a sign-up whose tokens
\* could not be signed leaves a user behind that can sign in, and a retry is
\* told that it exists (registry_provider.go:39-74, 89-129).
AnswersAreCurrent ==
  answer # None /\ answer.req.creds # None =>
    LET pw == answer.req.creds IN
    /\ answer.says = "ok" => [id |-> answer.tokens.access.uid, pw |-> pw] \in answer.seen
    /\ answer.says = "notFound" => None \in answer.seen
    /\ answer.says = "mismatch" => \E u \in answer.seen : ~HasCredentials(u, pw)
    /\ answer.says = "exists" => \E u \in answer.seen : u # None

\* Every request is answered by exactly one status, unless writing to the
\* client fails; a result of Signin or Signup that cannot be encoded leaves
\* the status to net/http (endpoint.go:162, 207, 226-243, guard.go:36-83).
OneResponse ==
  answer # None =>
    \/ answer.resp.heads = 1
    \/ answer.fault = "writing"
    \/ answer.fault = "encoding" /\ answer.resp.heads = 0

\* Whatever its status, a response carries tokens in its headers if and only
\* if the handler has given some out, and then those: the headers are set
\* before the status goes out (endpoint.go:81-86, 158-162, 204, 251-253).
HeadersCarryTokens ==
  answer # None =>
    LET sent == Write(answer.resp).sent
    IN IF answer.tokens = None THEN sent = None
       ELSE /\ sent # None
            /\ sent.access = answer.tokens.access
            /\ sent.refresh = answer.tokens.refresh

\* A browser never keeps the cookie longer than the access token in it is
\* valid, and drops it less than a second earlier, however old the token is; so
\* one whose token has less than a second left is not kept at all
\* (token.go:30-43, endpoint.go:278-284).
CookieDiesWithToken ==
  answer # None /\ answer.tokens # None /\ Write(answer.resp).sent # None =>
    LET sent == Write(answer.resp).sent
    IN IF sent.access.exp <= sent.time THEN sent.dies = sent.time
       ELSE /\ sent.time <= sent.dies /\ sent.dies <= sent.access.exp
            /\ sent.access.exp - sent.dies < Second

\* The tokens a handler gives out arrive whole, and no others, and the cookie
\* never outlives its token (endpoint.go:271-289, token.go:30-43).
TokensArrive == HeadersCarryTokens /\ CookieDiesWithToken

\* Refresh goes by the refresh token alone: with one that is in order it is
\* never refused, expired access token or not, and the new tokens name the
\* same user (endpoint.go:226-251, registry_provider.go:132-146).
RefreshGoesByRefreshToken ==
  answer # None /\ answer.req.op = "refresh" =>
    LET vt == answer.req.pair.refresh IN
    /\ answer.says = "refused" => vt = None \/ vt.errs # {}
    /\ answer.says = "ok" => vt.errs = {} /\ answer.tokens.access.uid = vt.uid

\* IsAuthorized and GetUserId of the guard's result.
IsAuthorized(a) == HasValidAccess(a.req.pair) /\ (a.req.opts.optional \/ a.user # None)
GetUserId(a) == IF a.user # None THEN a.user.id ELSE PairUserId(a.req.pair)

\* A handler behind a guard that is not optional runs only for an access token
\* without a single error, and whoever is authorized is the one that token
\* names: neither a forged refresh token nor a user fetched late makes it
\* another, and there is no panic.  Only behind an optional guard that does not
\* fetch the user may a caller be authorized by a token that names nobody, and
\* then be whoever the refresh token claims (guard.go:51-95,
\* validated_token_pair.go:18-41).
GuardNamesCaller ==
  answer # None /\ answer.says = "passed" =>
    LET vt == answer.req.pair.access
        o  == answer.req.opts
    IN /\ ~o.optional => vt # None /\ vt.errs = {}
       /\ IsAuthorized(answer) =>
            \/ HasUserId(vt) /\ GetUserId(answer) = vt.uid
            \/ vt.uid = None /\ o.optional /\ o.noFetch

===============================================================================
