---------------------------- MODULE IdentityProofs ----------------------------
(***************************************************************************)
(* Proofs about Identity, for any number of clients, users, passwords and  *)
(* ids, any lifetimes of the tokens and any time.                          *)
(***************************************************************************)
EXTENDS Identity, TLAPS

-----------------------------------------------------------------------------
(***************************************************************************)
(* The inductive invariant: the registry, the calls in progress, and the   *)
(* last answer.                                                            *)
(***************************************************************************)

Steps    == {"idle", "find", "compare", "check", "create", "sign", "fetch"}
Signing  == {"find", "compare", "check", "create", "sign"}
Requests == [op : {"none", "signin", "signup", "user", "guarded"},
             creds : Passwords \cup {None}, pair : Pair, opts : Options]

StateOK ==
  /\ user \in Users \cup {None}
  /\ user # None => user.id \in used
  /\ used \subseteq Ids /\ named \subseteq used
  /\ now \in 0 .. MaxTime
  /\ at \in [Clients -> Steps]
  /\ req \in [Clients -> Requests]
  /\ found \in [Clients -> Users \cup {None}]
  /\ seen \in [Clients -> SUBSET (Users \cup {None})]

\* Between the two reads of a sign-in its user may be replaced, but not
\* without having been deleted in between; what is signed was true once.
CallOK(c) ==
  /\ at[c] # "idle" => user \in seen[c]
  /\ at[c] \in Signing => req[c].creds \in Passwords
  /\ at[c] \in {"compare", "sign"} => found[c] # None /\ found[c].id \in used
  /\ at[c] = "compare" => /\ found[c] \in seen[c]
                          /\ \/ None \in seen[c]
                             \/ user # None /\ user.id = found[c].id
  /\ at[c] = "sign" => [id |-> found[c].id, pw |-> req[c].creds] \in seen[c]
  /\ at[c] = "fetch" => req[c].creds = None /\ HasValidAccess(req[c].pair)

CallsOK == \A c \in Clients : CallOK(c)

AnswerOK ==
  /\ answer # None => answer.fault \in Faults
  /\ AnswersAreCurrent /\ OneResponse /\ TokensArrive
  /\ RefreshGoesByRefreshToken /\ GuardNamesCaller

IInv == StateOK /\ CallsOK /\ AnswerOK

-----------------------------------------------------------------------------
LEMMA InitInv == Init => IInv
<1> SUFFICES ASSUME Init PROVE IInv
  OBVIOUS
<1> USE DEF Init
<1>1. NoRequest \in Requests
  BY DEF NoRequest, Request, Requests, NoPair, Pair, Mandatory, Options
<1>2. StateOK
  BY <1>1, IdentityAssumption DEF StateOK, Steps
<1>3. CallsOK
  BY DEF CallsOK, CallOK, Signing
<1>4. AnswerOK
  BY DEF AnswerOK, AnswersAreCurrent, OneResponse, TokensArrive, HeadersCarryTokens,
         CookieDiesWithToken, RefreshGoesByRefreshToken, GuardNamesCaller
<1> QED
  BY <1>2, <1>3, <1>4 DEF IInv

(***************************************************************************)
(* The tokens of a request.                                                *)
(***************************************************************************)

\* What is cut off of a time is less than a second.
LEMMA WholeSeconds ==
  ASSUME NEW t \in Int
  PROVE  Whole(t) \in Int /\ Whole(t) <= t /\ t - Whole(t) < Second
<1>1. t % Second \in 0 .. Second - 1
  BY TokensAssumption
<1> QED
  BY <1>1, TokensAssumption DEF Whole

LEMMA StringsAreTyped ==
  ASSUME StateOK, NEW s \in Strings
  PROVE  Validated(s, now) \in Str \cup {None}
<1>1. CASE s = None
  BY <1>1 DEF Validated
<1>2. CASE s # None
  <2>1. s \in Str
    <3>1. CASE s \in Issued
      <4>1. Expiries \subseteq Int
        BY TokensAssumption, IdentityAssumption DEF Expiries, StateOK
      <4> QED
        BY <3>1, <4>1 DEF Issued, TokenString, Str, StateOK, JwtErrors
    <3>2. CASE s \in Others \cup Forged
      <4>1. Later \in Int
        BY WholeSeconds, TokensAssumption, IdentityAssumption DEF Later
      <4> QED
        BY <3>2, <4>1 DEF Others, Forged, TokenString, Str, JwtErrors
    <3> QED
      BY <1>2, <3>1, <3>2 DEF Strings
  <2>2. ParseErrors(s, now) \in SUBSET JwtErrors
    BY <2>1 DEF ParseErrors, Str, JwtErrors
  <2> QED
    BY <1>2, <2>1, <2>2 DEF Validated, TokenString, Str
<1> QED
  BY <1>1, <1>2

\* Whoever a token without an error names has been issued one: it is not forged.
LEMMA NamedTokens ==
  ASSUME StateOK, NEW s \in Strings, Validated(s, now) # None, IsOk(Validated(s, now))
  PROVE  Validated(s, now).uid \in named \cup {None}
<1>1. s \in Issued \cup Others \cup Forged /\ s # None
  BY DEF Validated, Strings
<1>2. s.errs = {}
  BY <1>1 DEF Validated, TokenString, IsOk, ParseErrors
<1>3. s.uid \in named \cup {None}
  BY <1>1, <1>2 DEF Issued, Others, Forged, TokenString
<1> QED
  BY <1>1, <1>3 DEF Validated, TokenString

LEMMA PairsAreTyped ==
  ASSUME StateOK, NEW pair \in Pairs
  PROVE  /\ pair \in Pair
         /\ \A vt \in {pair.access, pair.refresh} : Usable(vt) => vt.uid \in named \cup {None}
<1>1. PICK h \in Strings, k \in Strings, r \in Strings : pair = TokenPair(h, k, r, now)
  BY DEF Pairs
<1>2. /\ pair.access = Validated(IF h = None THEN k ELSE h, now)
      /\ pair.refresh = Validated(r, now)
      /\ pair = [access |-> pair.access, refresh |-> pair.refresh]
  BY <1>1 DEF TokenPair
<1>3. pair.access \in Str \cup {None} /\ pair.refresh \in Str \cup {None}
  BY <1>2, StringsAreTyped
<1> QED
  BY <1>2, <1>3, NamedTokens DEF Pair, Usable

(***************************************************************************)
(* Responses.                                                              *)
(***************************************************************************)

\* A bare response is one status and no tokens.
Bare(resp) == resp.heads = 1 /\ Write(resp).sent = None

LEMMA Statuses ==
  ASSUME NEW s
  PROVE  Bare(String(Blank, s)) /\ Bare(JSON(Blank, s, TRUE))
<1>1. Blank.heads = 0 /\ Blank.headers = None /\ Blank.sent = None
  BY DEF Blank
<1>2. WriteHeader(Blank, s).heads = 1 /\ WriteHeader(Blank, s).sent = None
  BY DEF WriteHeader, Blank
<1>3. Write(Blank).heads = 1 /\ Write(Blank).sent = None
  BY DEF WriteHeader, Write, Blank
<1> QED
  BY <1>1, <1>2, <1>3 DEF Bare, String, JSON, Write

\* Tokens that are set before the status go out with it, once.
Headers(pair, time) == [access |-> pair.access, refresh |-> pair.refresh,
                        dies |-> CookieDies(pair.access, time), time |-> time]
Carries(resp, pair, time) == Write(resp).sent = Headers(pair, time)

Delivers(resp, pair, time) == resp.heads = 1 /\ Carries(resp, pair, time)

LEMMA Deliveries ==
  ASSUME NEW pair, NEW time
  PROVE  LET b == RespondTokens(Blank, pair, time)
         IN /\ b.heads = 0 /\ Carries(b, pair, time)
            /\ Delivers(Write(b), pair, time)
            /\ Delivers(String(b, 200), pair, time)
            /\ Delivers(JSON(b, 200, TRUE), pair, time)
<1> DEFINE h == Headers(pair, time)
           b == RespondTokens(Blank, pair, time)
<1>1. b = [heads |-> 0, status |-> 0, headers |-> h, sent |-> None]
  BY DEF RespondTokens, SetHeaders, Blank, Headers
<1> HIDE DEF b, h
<1>2. \A code : WriteHeader(b, code) = [heads |-> 1, status |-> code, headers |-> h, sent |-> h]
  BY <1>1 DEF WriteHeader
<1>3. /\ String(b, 200) = WriteHeader(b, 200) /\ Write(b) = WriteHeader(b, 200)
      /\ JSON(b, 200, TRUE) = WriteHeader(b, 200)
  <2>1. \A code : WriteHeader(b, code).heads = 1
    BY <1>2
  <2>2. \A code : Write(WriteHeader(b, code)) = WriteHeader(b, code)
    BY <2>1 DEF Write
  <2>3. b.heads = 0
    BY <1>1
  <2>4. Write(b) = WriteHeader(b, 200)
    BY <2>3 DEF Write
  <2> QED
    BY <2>2, <2>4 DEF String, JSON
<1>4. WriteHeader(b, 200).heads = 1 /\ WriteHeader(b, 200).sent = h
  BY <1>2
<1>5. Write(WriteHeader(b, 200)) = WriteHeader(b, 200)
  BY <1>4 DEF Write
<1>6. Carries(WriteHeader(b, 200), pair, time) /\ Carries(b, pair, time)
  BY <1>3, <1>4, <1>5 DEF Carries, h
<1>7. b.heads = 0
  BY <1>1
<1>8. Delivers(WriteHeader(b, 200), pair, time)
  BY <1>4, <1>6 DEF Delivers
<1>9. Delivers(Write(b), pair, time) /\ Delivers(String(b, 200), pair, time)
      /\ Delivers(JSON(b, 200, TRUE), pair, time)
  BY <1>3, <1>8
<1> QED
  BY <1>6, <1>7, <1>9 DEF b

(***************************************************************************)
(* What a step leaves of the state.                                        *)
(***************************************************************************)

LEMMA RequestsTyped ==
  ASSUME StateOK,
         NEW op \in {"none", "signin", "signup", "user", "guarded"},
         NEW creds \in Passwords \cup {None}, NEW pair \in Pairs \cup {NoPair},
         NEW o \in Options \cup {Mandatory}
  PROVE  Request(op, creds, pair, o) \in Requests
<1>1. pair \in Pair
  <2>1. NoPair \in Pair
    BY DEF NoPair, Pair
  <2> QED
    BY <2>1, PairsAreTyped
<1>2. o \in Options
  <2>1. Mandatory \in Options
    BY DEF Mandatory, Options
  <2> QED
    BY <2>1
<1> QED
  BY <1>1, <1>2 DEF Request, Requests

\* The three ways in which a handler goes on.
LEMMA FinishTyped ==
  ASSUME StateOK, NEW c \in Clients, NEW says, NEW tokens, NEW usr, NEW resp, NEW fault,
         Finish(c, says, tokens, usr, resp, fault)
  PROVE  /\ at' \in [Clients -> Steps] /\ req' \in [Clients -> Requests]
         /\ found' \in [Clients -> Users \cup {None}]
         /\ seen' \in [Clients -> SUBSET (Users \cup {None})]
<1>1. NoRequest \in Requests
  BY RequestsTyped DEF NoRequest
<1> QED
  BY <1>1 DEF Finish, StateOK, Steps

LEMMA Fetched ==
  ASSUME NEW c \in Clients, FetchUser(c)
  PROVE  /\ \E says, u, resp, fault : Finish(c, says, None, u, resp, fault)
         /\ UNCHANGED <<user, used, named, now>>
<1> DEFINE u  == TokenUser(req[c].pair.access)
           ok == JSON(Blank, 200, TRUE)
<1>1. \/ Fail(c) \/ Finish(c, "passed", None, u, ok, "none")
      \/ Finish(c, "failed", None, u, String(Blank, 500), "encoding")
      \/ Finish(c, "failed", None, u, String(ok, 500), "writing")
  BY DEF FetchUser
<1> HIDE DEF u, ok
<1>2. UNCHANGED <<user, used, named, now>>
  BY DEF FetchUser
<1>3. CASE Fail(c)
  BY <1>2, <1>3 DEF Fail
<1> QED
  BY <1>1, <1>2, <1>3

LEMMA BeginTyped ==
  ASSUME StateOK, NEW c \in Clients, NEW r \in Requests, NEW step \in Steps, Begin(c, r, step)
  PROVE  /\ at' \in [Clients -> Steps] /\ req' \in [Clients -> Requests]
         /\ found' \in [Clients -> Users \cup {None}]
         /\ seen' \in [Clients -> SUBSET (Users \cup {None})]
BY DEF Begin, StateOK

LEMMA GoOnTyped ==
  ASSUME StateOK, NEW c \in Clients, NEW step \in Steps, GoOn(c, step)
  PROVE  /\ at' \in [Clients -> Steps] /\ req' \in [Clients -> Requests]
         /\ seen' \in [Clients -> SUBSET (Users \cup {None})]
BY DEF GoOn, StateOK

LEMMA BecomesTyped ==
  ASSUME StateOK, NEW u \in Users \cup {None}, Becomes(u)
  PROVE  user' \in Users \cup {None} /\ seen' \in [Clients -> SUBSET (Users \cup {None})]
BY DEF Becomes, StateOK

LEMMA NextState ==
  ASSUME StateOK, CallsOK, Next
  PROVE  StateOK'
<1>1. ASSUME NEW op \in {"signin", "signup"}, BadSign(op)
      PROVE  StateOK'
  BY <1>1 DEF BadSign, Reply, callVars, StateOK
<1>2. ASSUME NEW op \in {"signin", "signup"}, NEW c \in Clients, NEW creds \in Passwords,
             Sign(c, op, creds)
      PROVE  StateOK'
  <2>1. Request(op, creds, NoPair, Mandatory) \in Requests
    BY RequestsTyped
  <2> QED
    BY <1>2, <2>1, BeginTyped DEF Sign, StateOK, Steps
<1>3. ASSUME NEW c \in Clients, FindUser(c)
      PROVE  StateOK'
  <2>1. \/ \E says, resp : Finish(c, says, None, None, resp, "none")
        \/ GoOn(c, "compare") /\ found' = [found EXCEPT ![c] = user]
    BY <1>3 DEF FindUser, Fail, Refuse
  <2>2. /\ at' \in [Clients -> Steps] /\ req' \in [Clients -> Requests]
        /\ found' \in [Clients -> Users \cup {None}]
        /\ seen' \in [Clients -> SUBSET (Users \cup {None})]
    <3>1. CASE GoOn(c, "compare") /\ found' = [found EXCEPT ![c] = user]
      BY <3>1, GoOnTyped DEF StateOK, Steps
    <3> QED
      BY <2>1, <3>1, FinishTyped
  <2> QED
    BY <1>3, <2>2 DEF FindUser, StateOK
<1>4. ASSUME NEW c \in Clients, CompareCredentials(c)
      PROVE  StateOK'
  <2>1. \/ \E says, resp : Finish(c, says, None, None, resp, "none")
        \/ GoOn(c, "sign") /\ UNCHANGED found
    BY <1>4 DEF CompareCredentials, Fail, Refuse
  <2>2. /\ at' \in [Clients -> Steps] /\ req' \in [Clients -> Requests]
        /\ found' \in [Clients -> Users \cup {None}]
        /\ seen' \in [Clients -> SUBSET (Users \cup {None})]
    <3>1. CASE GoOn(c, "sign") /\ UNCHANGED found
      BY <3>1, GoOnTyped DEF StateOK, Steps
    <3> QED
      BY <2>1, <3>1, FinishTyped
  <2> QED
    BY <1>4, <2>2 DEF CompareCredentials, StateOK
<1>5. ASSUME NEW c \in Clients, CheckFields(c)
      PROVE  StateOK'
  <2>1. \/ \E says, resp : Finish(c, says, None, None, resp, "none")
        \/ GoOn(c, "create") /\ UNCHANGED found
    BY <1>5 DEF CheckFields, Fail, Refuse
  <2>2. /\ at' \in [Clients -> Steps] /\ req' \in [Clients -> Requests]
        /\ found' \in [Clients -> Users \cup {None}]
        /\ seen' \in [Clients -> SUBSET (Users \cup {None})]
    <3>1. CASE GoOn(c, "create") /\ UNCHANGED found
      BY <3>1, GoOnTyped DEF StateOK, Steps
    <3> QED
      BY <2>1, <3>1, FinishTyped
  <2> QED
    BY <1>5, <2>2 DEF CheckFields, StateOK
<1>6. ASSUME NEW c \in Clients, CreateUser(c)
      PROVE  StateOK'
  <2>1. CASE /\ \E says, resp : Finish(c, says, None, None, resp, "none")
             /\ UNCHANGED <<user, used>>
    BY <1>6, <2>1, FinishTyped DEF CreateUser, StateOK
  <2>2. ASSUME NEW id \in Ids \ used, user = None, used' = used \cup {id},
               Becomes([id |-> id, pw |-> req[c].creds]),
               found' = [found EXCEPT ![c] = [id |-> id, pw |-> req[c].creds]],
               at' = [at EXCEPT ![c] = "sign"], UNCHANGED req
        PROVE  StateOK'
    <3> DEFINE stub == [id |-> id, pw |-> req[c].creds]
    <3>1. stub \in Users
      BY <1>6 DEF CreateUser, CallsOK, CallOK, Signing, Users
    <3>2. user' = stub /\ user'.id = id
      BY <2>2 DEF Becomes
    <3> QED
      BY <1>6, <2>2, <3>1, <3>2, BecomesTyped DEF CreateUser, StateOK, Steps
  <2> QED
    BY <1>6, <2>1, <2>2 DEF CreateUser, Fail, Refuse
<1>7. ASSUME NEW c \in Clients, CreateBreaks(c)
      PROVE  StateOK'
  <2>1. PICK id \in Ids \ used :
          /\ used' = used \cup {id}
          /\ user' = [id |-> id, pw |-> req[c].creds]
          /\ seen' = [d \in Clients |->
                        IF at[d] = "idle" \/ d = c THEN {} ELSE seen[d] \cup {user'}]
    BY <1>7 DEF CreateBreaks
  <2>2. user' \in Users /\ user'.id = id
    BY <1>7, <2>1 DEF CreateBreaks, CallsOK, CallOK, Signing, Users
  <2>3. NoRequest \in Requests
    BY RequestsTyped DEF NoRequest
  <2> QED
    BY <1>7, <2>1, <2>2, <2>3 DEF CreateBreaks, StateOK, Steps
<1>8. ASSUME NEW c \in Clients, SignTokens(c)
      PROVE  StateOK'
  <2>1. \E says, tokens, resp, fault : Finish(c, says, tokens, None, resp, fault)
    BY <1>8 DEF SignTokens, Fail
  <2>2. UNCHANGED now \/ now' \in now .. MaxTime
    BY <1>8 DEF SignTokens
  <2>3. found[c].id \in used
    BY <1>8 DEF SignTokens, CallsOK, CallOK
  <2>4. named' \subseteq used
    BY <1>8, <2>3 DEF SignTokens, StateOK
  <2>5. now' \in 0 .. MaxTime
    BY <2>2, IdentityAssumption DEF StateOK
  <2> QED
    BY <1>8, <2>1, <2>4, <2>5, FinishTyped DEF SignTokens, StateOK
<1>9. ASSUME NEW c \in Clients, FetchUser(c)
      PROVE  StateOK'
  <2>1. \E says, u, resp, fault : Finish(c, says, None, u, resp, fault)
    BY <1>9, Fetched
  <2>2. UNCHANGED <<user, used, named, now>>
    BY <1>9, Fetched
  <2> QED
    BY <2>1, <2>2, FinishTyped DEF StateOK
<1>10. CASE Check
  <2>1. now' \in now .. MaxTime /\ UNCHANGED callVars
    BY <1>10 DEF Check, Reply
  <2>2. now' \in 0 .. MaxTime
    BY <2>1, IdentityAssumption DEF StateOK
  <2> QED
    BY <1>10, <2>1, <2>2 DEF Check, callVars, StateOK
<1>11. CASE Refresh
  <2>1. now' \in now .. MaxTime /\ UNCHANGED callVars
    BY <1>11 DEF Refresh, Reply
  <2>2. now' \in 0 .. MaxTime
    BY <2>1, IdentityAssumption DEF StateOK
  <2>3. PICK pair \in Pairs :
          \/ UNCHANGED named
          \/ /\ Usable(Exchanged(pair)) /\ HasUserId(Exchanged(pair))
             /\ named' = named \cup {Exchanged(pair).uid}
    BY <1>11 DEF Refresh
  <2>4. named' \subseteq named
    BY <2>3, PairsAreTyped, TokensAssumption DEF HasUserId, Exchanged
  <2> QED
    BY <1>11, <2>1, <2>2, <2>4 DEF Refresh, callVars, StateOK
<1>12. ASSUME NEW op \in {"user", "guarded"}, NEW o \in Options \cup {Mandatory}, Guard(op, o)
       PROVE  StateOK'
  <2>1. \/ UNCHANGED callVars
        \/ \E pair \in Pairs, c \in Clients : Begin(c, Request(op, None, pair, o), "fetch")
    BY <1>12 DEF Guard, Reply
  <2>2. ASSUME NEW pair \in Pairs, NEW c \in Clients,
               Begin(c, Request(op, None, pair, o), "fetch")
        PROVE  StateOK'
    <3>1. Request(op, None, pair, o) \in Requests
      BY RequestsTyped
    <3> QED
      BY <1>12, <2>2, <3>1, BeginTyped DEF Guard, StateOK, Steps
  <2> QED
    BY <1>12, <2>1, <2>2 DEF Guard, callVars, StateOK
<1>13. CASE DeleteUser
  BY <1>13, BecomesTyped DEF DeleteUser, Becomes, StateOK
<1>14. ASSUME NEW pw \in Passwords, ChangePassword(pw)
       PROVE  StateOK'
  <2>1. [user EXCEPT !.pw = pw] \in Users /\ [user EXCEPT !.pw = pw].id = user.id
    BY <1>14 DEF ChangePassword, StateOK, Users
  <2> QED
    BY <1>14, <2>1, BecomesTyped DEF ChangePassword, Becomes, StateOK
<1>15. CASE Tick
  BY <1>15, IdentityAssumption DEF Tick, callVars, StateOK
<1>16. CASE Look
  BY <1>16 DEF Look, callVars, StateOK
<1> QED
  BY <1>1, <1>2, <1>3, <1>4, <1>5, <1>6, <1>7, <1>8, <1>9, <1>10, <1>11, <1>12, <1>13,
     <1>14, <1>15, <1>16
  DEF Next

(***************************************************************************)
(* What a step leaves of the calls in progress.                            *)
(***************************************************************************)

\* A call that is over, or that a step leaves alone, is in order.
LEMMA IdleCall ==
  ASSUME NEW c \in Clients, at'[c] = "idle"
  PROVE  CallOK(c)'
BY DEF CallOK, Signing

LEMMA OtherCall ==
  ASSUME NEW c \in Clients, CallOK(c), UNCHANGED user, used \subseteq used',
         UNCHANGED <<at[c], req[c], found[c], seen[c]>>
  PROVE  CallOK(c)'
BY DEF CallOK

\* Whatever becomes of the registry's user, a call in progress sees it.
LEMMA WatchedCall ==
  ASSUME StateOK, NEW c \in Clients, CallOK(c), used \subseteq used',
         UNCHANGED <<at[c], req[c], found[c]>>,
         at[c] # "idle" => seen'[c] = seen[c] \cup {user'},
         user = None \/ user' = None \/ user'.id = user.id
  PROVE  CallOK(c)'
<1>1. CASE at[c] = "idle"
  BY <1>1, IdleCall
<1>2. CASE at[c] # "idle"
  <2>1. user \in seen[c] /\ user' \in seen'[c] /\ seen[c] \subseteq seen'[c]
    BY <1>2 DEF CallOK
  <2>2. at[c] = "compare" => \/ None \in seen'[c]
                             \/ user' # None /\ user'.id = found[c].id
    BY <2>1 DEF CallOK
  <2> QED
    BY <2>1, <2>2 DEF CallOK
<1> QED
  BY <1>1, <1>2

LEMMA FinishCalls ==
  ASSUME StateOK, CallsOK, NEW c \in Clients,
         NEW says, NEW tokens, NEW usr, NEW resp, NEW fault,
         Finish(c, says, tokens, usr, resp, fault), UNCHANGED <<user, used>>
  PROVE  CallsOK'
<1>1. ASSUME NEW d \in Clients
      PROVE  CallOK(d)'
  <2>1. CASE d = c
    BY <2>1, IdleCall DEF Finish, StateOK
  <2>2. CASE d # c
    BY <2>2, OtherCall DEF Finish, StateOK, CallsOK
  <2> QED
    BY <2>1, <2>2
<1> QED
  BY <1>1 DEF CallsOK

\* Of a step of one call, the others are in order.
LEMMA OneCall ==
  ASSUME CallsOK, NEW c \in Clients, UNCHANGED user, used \subseteq used',
         \A d \in Clients \ {c} : UNCHANGED <<at[d], req[d], found[d], seen[d]>>,
         CallOK(c)'
  PROVE  CallsOK'
BY OtherCall DEF CallsOK

LEMMA GoOnCalls ==
  ASSUME StateOK, CallsOK, NEW c \in Clients, NEW step \in Steps, GoOn(c, step),
         UNCHANGED <<user, used>>, found' = found \/ \E u : found' = [found EXCEPT ![c] = u],
         CallOK(c)'
  PROVE  CallsOK'
BY OneCall DEF GoOn, StateOK

LEMMA NextCalls ==
  ASSUME StateOK, CallsOK, Next
  PROVE  CallsOK'
<1>1. ASSUME UNCHANGED <<user, used, callVars>>
      PROVE  CallsOK'
  BY <1>1, OtherCall DEF CallsOK, callVars
<1>2. ASSUME NEW op \in {"signin", "signup"}, NEW c \in Clients, NEW creds \in Passwords,
             Sign(c, op, creds)
      PROVE  CallsOK'
  <2>1. /\ at'[c] \in {"find", "check"} /\ req'[c].creds = creds
        /\ seen'[c] = {user} /\ UNCHANGED <<user, used>>
    BY <1>2 DEF Sign, Begin, Request, StateOK
  <2>2. CallOK(c)'
    BY <2>1 DEF CallOK, Signing
  <2> QED
    BY <1>2, <2>1, <2>2, OneCall DEF Sign, Begin, StateOK
<1>3. ASSUME NEW c \in Clients, FindUser(c)
      PROVE  CallsOK'
  <2>1. CASE user # None /\ found' = [found EXCEPT ![c] = user] /\ GoOn(c, "compare")
    <3>1. /\ at'[c] = "compare" /\ found'[c] = user /\ at[c] = "find"
          /\ UNCHANGED <<user, used, req, seen>>
      BY <1>3, <2>1 DEF FindUser, GoOn, StateOK
    <3>2. CallOK(c)'
      BY <2>1, <3>1 DEF CallsOK, CallOK, StateOK, Signing
    <3> QED
      BY <2>1, <3>1, <3>2, GoOnCalls DEF Steps
  <2> QED
    BY <1>3, <2>1, FinishCalls DEF FindUser, Fail, Refuse
<1>4. ASSUME NEW c \in Clients, CompareCredentials(c)
      PROVE  CallsOK'
  <2>1. ASSUME NEW u \in {found[c], Current(found[c])}, HasCredentials(u, req[c].creds),
               GoOn(c, "sign"), UNCHANGED found
        PROVE  CallsOK'
    <3>1. /\ at'[c] = "sign" /\ at[c] = "compare"
          /\ UNCHANGED <<user, used, req, seen>>
      BY <1>4, <2>1 DEF CompareCredentials, GoOn, StateOK
    <3>2. u \in seen[c] /\ u.id = found[c].id /\ u \in Users
      BY <2>1, <3>1 DEF CallsOK, CallOK, StateOK, HasCredentials, Current
    <3>3. u = [id |-> found[c].id, pw |-> req[c].creds]
      BY <2>1, <3>2 DEF HasCredentials, Users
    <3>4. CallOK(c)'
      BY <2>1, <3>1, <3>2, <3>3 DEF CallsOK, CallOK, Signing
    <3> QED
      BY <2>1, <3>1, <3>4, GoOnCalls DEF Steps
  <2> QED
    BY <1>4, <2>1, FinishCalls DEF CompareCredentials, Fail, Refuse
<1>5. ASSUME NEW c \in Clients, CheckFields(c)
      PROVE  CallsOK'
  <2>1. CASE GoOn(c, "create") /\ UNCHANGED found
    <3>1. at'[c] = "create" /\ at[c] = "check" /\ UNCHANGED <<user, used, req, seen>>
      BY <1>5, <2>1 DEF CheckFields, GoOn, StateOK
    <3>2. CallOK(c)'
      BY <2>1, <3>1 DEF CallsOK, CallOK, Signing
    <3> QED
      BY <2>1, <3>1, <3>2, GoOnCalls DEF Steps
  <2> QED
    BY <1>5, <2>1, FinishCalls DEF CheckFields, Fail, Refuse
<1>6. ASSUME NEW c \in Clients, CreateUser(c)
      PROVE  CallsOK'
  <2>1. ASSUME NEW id \in Ids \ used, user = None, used' = used \cup {id},
               Becomes([id |-> id, pw |-> req[c].creds]),
               found' = [found EXCEPT ![c] = [id |-> id, pw |-> req[c].creds]],
               at' = [at EXCEPT ![c] = "sign"], UNCHANGED req
        PROVE  CallsOK'
    <3> DEFINE stub == [id |-> id, pw |-> req[c].creds]
    <3>1. stub \in Users /\ at[c] = "create"
      BY <1>6 DEF CreateUser, CallsOK, CallOK, Signing, Users
    <3>2. /\ user' = stub
          /\ \A d \in Clients : at[d] # "idle" => seen'[d] = seen[d] \cup {stub}
      BY <2>1 DEF Becomes
    <3>3. CallOK(c)'
      BY <2>1, <3>1, <3>2, NilAssumption DEF CallsOK, CallOK, Signing, StateOK
    <3>4. ASSUME NEW d \in Clients \ {c}
          PROVE  CallOK(d)'
      BY <2>1, <3>2, WatchedCall DEF CallsOK, StateOK
    <3> QED
      BY <3>3, <3>4 DEF CallsOK
  <2> QED
    BY <1>6, <2>1, FinishCalls DEF CreateUser, Fail, Refuse
<1>7. ASSUME NEW c \in Clients, CreateBreaks(c)
      PROVE  CallsOK'
  <2>1. /\ user = None /\ used \subseteq used' /\ UNCHANGED found
        /\ at' = [at EXCEPT ![c] = "idle"] /\ req' = [req EXCEPT ![c] = NoRequest]
        /\ \A d \in Clients \ {c} : at[d] # "idle" => seen'[d] = seen[d] \cup {user'}
    BY <1>7 DEF CreateBreaks
  <2>2. CallOK(c)'
    BY <2>1, IdleCall DEF StateOK
  <2>3. ASSUME NEW d \in Clients \ {c}
        PROVE  CallOK(d)'
    BY <2>1, WatchedCall DEF CallsOK, StateOK
  <2> QED
    BY <2>2, <2>3 DEF CallsOK
<1>8. ASSUME NEW c \in Clients, SignTokens(c)
      PROVE  CallsOK'
  BY <1>8, FinishCalls DEF SignTokens, Fail
<1>9. ASSUME NEW c \in Clients, FetchUser(c)
      PROVE  CallsOK'
  <2>1. PICK says, u, resp, fault : Finish(c, says, None, u, resp, fault)
    BY <1>9, Fetched
  <2> QED
    BY <1>9, <2>1, Fetched, FinishCalls
<1>10. ASSUME NEW op \in {"user", "guarded"}, NEW o \in Options \cup {Mandatory}, Guard(op, o)
       PROVE  CallsOK'
  <2>1. ASSUME NEW pair \in Pairs, NEW c \in Clients, HasValidAccess(pair),
               Begin(c, Request(op, None, pair, o), "fetch")
        PROVE  CallsOK'
    <3>1. /\ at'[c] = "fetch" /\ seen'[c] = {user} /\ UNCHANGED <<user, used>>
          /\ req'[c].creds = None /\ req'[c].pair = pair
      BY <1>10, <2>1 DEF Guard, Begin, Request, StateOK
    <3>2. CallOK(c)'
      BY <2>1, <3>1 DEF CallOK, Signing
    <3> QED
      BY <2>1, <3>1, <3>2, OneCall DEF Begin, StateOK
  <2> QED
    BY <1>1, <1>10, <2>1 DEF Guard, Reply
<1>11. ASSUME NEW u, Becomes(u), user # None, u = None \/ u.id = user.id,
              UNCHANGED <<used, at, req, found>>
       PROVE  CallsOK'
  <2>1. user' = u /\ \A d \in Clients : at[d] # "idle" => seen'[d] = seen[d] \cup {u}
    BY <1>11 DEF Becomes
  <2>2. ASSUME NEW d \in Clients
        PROVE  CallOK(d)'
    BY <1>11, <2>1, WatchedCall DEF CallsOK
  <2> QED
    BY <2>2 DEF CallsOK
<1>12. CASE DeleteUser
  BY <1>11, <1>12 DEF DeleteUser
<1>13. ASSUME NEW pw \in Passwords, ChangePassword(pw)
       PROVE  CallsOK'
  <2>1. [user EXCEPT !.pw = pw].id = user.id
    BY <1>13 DEF ChangePassword, StateOK, Users
  <2> QED
    BY <1>11, <1>13, <2>1 DEF ChangePassword
<1>14. ASSUME NEW op \in {"signin", "signup"}, BadSign(op)
       PROVE  CallsOK'
  BY <1>1, <1>14 DEF BadSign, Reply
<1>15. CASE Check \/ Refresh
  BY <1>1, <1>15 DEF Check, Refresh, Reply
<1>16. CASE Tick \/ Look
  BY <1>1, <1>16 DEF Tick, Look
<1> QED
  BY <1>2, <1>3, <1>4, <1>5, <1>6, <1>7, <1>8, <1>9, <1>10, <1>12, <1>13, <1>14, <1>15, <1>16
  DEF Next

(***************************************************************************)
(* What a step leaves of the answer.                                       *)
(***************************************************************************)

LEMMA NoAnswer ==
  ASSUME answer' = None
  PROVE  AnswerOK'
BY DEF AnswerOK, AnswersAreCurrent, OneResponse, TokensArrive, HeadersCarryTokens,
       CookieDiesWithToken, RefreshGoesByRefreshToken, GuardNamesCaller

\* An answer without tokens is in order if what it says is.
LEMMA Refusal ==
  ASSUME NEW r, NEW says, NEW usr, NEW fault \in Faults, NEW history,
         NEW resp, Bare(resp), Answer(r, says, None, usr, resp, fault, history),
         AnswersAreCurrent', RefreshGoesByRefreshToken', GuardNamesCaller'
  PROVE  AnswerOK'
<1>1. answer' = [req |-> r, says |-> says, tokens |-> None, user |-> usr,
                 resp |-> resp, fault |-> fault, seen |-> history]
  BY DEF Answer
<1>2. answer'.fault \in Faults /\ answer'.tokens = None /\ answer'.resp = resp
  BY <1>1
<1>3. OneResponse' /\ HeadersCarryTokens' /\ CookieDiesWithToken'
  BY <1>2 DEF Bare, OneResponse, HeadersCarryTokens, CookieDiesWithToken
<1> QED
  BY <1>2, <1>3 DEF AnswerOK, TokensArrive

\* A cookie does not outlive its token, nor dies a second before it.
LEMMA CookieAges ==
  ASSUME NEW token \in Str, NEW time \in Int
  PROVE  /\ CookieDies(token, time) \in Int
         /\ IF token.exp <= time THEN CookieDies(token, time) = time
            ELSE /\ time <= CookieDies(token, time) /\ CookieDies(token, time) <= token.exp
                 /\ token.exp - CookieDies(token, time) < Second
<1> DEFINE age == Whole(token.exp - time)
<1>1. token.exp \in Int
  BY DEF Str
<1>2. age \in Int /\ age <= token.exp - time /\ token.exp - time - age < Second
  BY <1>1, WholeSeconds
<1>3. CookieDies(token, time) = IF age <= 0 THEN time ELSE time + age
  BY DEF CookieDies
<1> HIDE DEF age
<1> QED
  BY <1>1, <1>2, <1>3, TokensAssumption

\* One with tokens: they are in its headers, and it has one status.
LEMMA Delivery ==
  ASSUME NEW r, NEW says, NEW pair \in [access : Str, refresh : Str \cup {None}],
         NEW time \in Int, NEW fault \in Faults, NEW history, NEW resp,
         Answer(r, says, pair, None, resp, fault, history),
         Carries(resp, pair, time),
         \/ resp.heads = 1
         \/ fault = "writing"
         \/ fault = "encoding" /\ resp.heads = 0,
         AnswersAreCurrent', RefreshGoesByRefreshToken', GuardNamesCaller'
  PROVE  AnswerOK'
<1> DEFINE h == Headers(pair, time)
<1>1. answer' = [req |-> r, says |-> says, tokens |-> pair, user |-> None,
                 resp |-> resp, fault |-> fault, seen |-> history]
  BY DEF Answer
<1>2. answer'.fault = fault /\ answer'.tokens = pair /\ answer'.resp = resp
  BY <1>1
<1>3. pair.access \in Str
  OBVIOUS
<1>4. CookieDies(pair.access, time) \in Int
  BY <1>3, CookieAges
<1>5. h \in [access : Str, refresh : Str \cup {None}, dies : Int, time : Int]
  BY <1>4 DEF Headers
<1>6. h # None
  BY <1>5, NilAssumption
<1>7. pair # None
  BY NilAssumption DEF Pair
<1>8. HeadersCarryTokens'
  BY <1>2, <1>6, <1>7 DEF HeadersCarryTokens, Carries, Headers
<1>9. CookieDiesWithToken'
  <2>1. Write(answer'.resp).sent = h
    BY <1>2 DEF Carries
  <2>2. /\ h.access = pair.access /\ h.time = time
        /\ h.dies = CookieDies(pair.access, time)
    BY DEF Headers
  <2>3. IF h.access.exp <= h.time THEN h.dies = h.time
        ELSE /\ h.time <= h.dies /\ h.dies <= h.access.exp
             /\ h.access.exp - h.dies < Second
    BY <1>3, <2>2, CookieAges
  <2> HIDE DEF h
  <2> QED
    BY <2>1, <2>3 DEF CookieDiesWithToken
<1>10. OneResponse'
  BY <1>2 DEF OneResponse
<1> QED
  BY <1>2, <1>8, <1>9, <1>10 DEF AnswerOK, TokensArrive

\* A handler that asks the registry refuses, or fails.
LEMMA RefusedCall ==
  ASSUME NEW r \in Requests, NEW says \in {"failed", "notFound", "mismatch", "invalid", "exists"},
         NEW usr, NEW fault \in Faults, NEW history,
         NEW resp, Bare(resp), Answer(r, says, None, usr, resp, fault, history),
         says = "notFound" => None \in history,
         says = "mismatch" => \E u \in history : ~HasCredentials(u, r.creds),
         says = "exists" => \E u \in history : u # None
  PROVE  AnswerOK'
<1>1. answer'.req = r /\ answer'.says = says /\ answer'.seen = history
  BY DEF Answer
<1>2. AnswersAreCurrent'
  BY <1>1 DEF AnswersAreCurrent
<1>3. RefreshGoesByRefreshToken'
  BY <1>1 DEF RefreshGoesByRefreshToken, Requests
<1>4. GuardNamesCaller'
  BY <1>1 DEF GuardNamesCaller
<1> QED
  BY <1>2, <1>3, <1>4, Refusal

\* One that does not: what it says concerns Refresh and Guard only.
LEMMA Replied ==
  ASSUME NEW op, NEW pair, NEW o, NEW says, NEW s,
         Reply(Request(op, None, pair, o), says, None, String(Blank, s)),
         says # "passed",
         op = "refresh" => \/ says = "failed"
                           \/ says = "refused" /\ (pair.refresh = None \/ pair.refresh.errs # {})
  PROVE  AnswerOK'
<1>1. /\ answer'.req = Request(op, None, pair, o) /\ answer'.says = says
      /\ Answer(Request(op, None, pair, o), says, None, None, String(Blank, s), "none", {})
  BY DEF Reply, Answer
<1>2. AnswersAreCurrent'
  BY <1>1 DEF AnswersAreCurrent, Request
<1>3. RefreshGoesByRefreshToken'
  BY <1>1 DEF RefreshGoesByRefreshToken, Request
<1>4. GuardNamesCaller'
  BY <1>1 DEF GuardNamesCaller
<1> QED
  BY <1>1, <1>2, <1>3, <1>4, Refusal, Statuses DEF Faults

LEMMA SignedPairs ==
  ASSUME NEW uid \in Ids, NEW time \in Int, NEW later \in Int
  PROVE  /\ SignedPair(uid, time, later) \in [access : Str, refresh : Str \cup {None}]
         /\ SignedPair(uid, time, later).access.uid = uid
<1>1. Whole(time + AccessDuration) \in Int /\ Whole(later + RefreshDuration) \in Int
  BY WholeSeconds, TokensAssumption
<1> QED
  BY <1>1 DEF SignedPair, TokenString, Str

\* An access token that names a user is the one that counts.
LEMMA AccessNames ==
  ASSUME NEW pair, HasUserId(pair.access)
  PROVE  PairUserId(pair) = pair.access.uid
BY TokensAssumption DEF HasUserId, PairUserId, FirstNamed

\* The handlers that ask the registry.
LEMMA CallAnswers ==
  ASSUME StateOK, CallsOK, NEW c \in Clients,
         \/ FindUser(c) \/ CompareCredentials(c) \/ CheckFields(c) \/ CreateUser(c)
         \/ CreateBreaks(c) \/ SignTokens(c) \/ FetchUser(c)
  PROVE  AnswerOK'
<1> DEFINE r == req[c]
<1>1. r \in Requests /\ found[c] \in Users \cup {None}
  BY DEF StateOK
<1>2. at[c] # "idle" => user \in seen[c]
  BY DEF CallsOK, CallOK
<1>3. CASE Fail(c)
  <2>1. Answer(r, "failed", None, None, String(Blank, 500), "none", seen[c])
    BY <1>3 DEF Fail, Finish
  <2>2. Bare(String(Blank, 500))
    BY Statuses
  <2> QED
    BY <1>1, <2>1, <2>2, RefusedCall DEF Faults
<1>4. ASSUME NEW says \in {"notFound", "mismatch", "invalid", "exists"}, NEW status,
             Refuse(c, says, status),
             says = "notFound" => None \in seen[c],
             says = "mismatch" => \E u \in seen[c] : ~HasCredentials(u, r.creds),
             says = "exists" => \E u \in seen[c] : u # None
      PROVE  AnswerOK'
  <2>1. Answer(r, says, None, None, JSON(Blank, status, TRUE), "none", seen[c])
    BY <1>4 DEF Refuse, Finish
  <2>2. Bare(JSON(Blank, status, TRUE)) /\ "none" \in Faults
    BY Statuses DEF Faults
  <2>3. says \in {"failed", "notFound", "mismatch", "invalid", "exists"}
    OBVIOUS
  <2> HIDE DEF r
  <2> QED
    BY <1>1, <1>4, <2>1, <2>2, <2>3, RefusedCall
<1>5. ASSUME NEW step, Ready, GoOn(c, step)
      PROVE  AnswerOK'
  BY <1>5, NoAnswer DEF GoOn, Ready
<1>6. CASE FindUser(c)
  <2>1. CASE user = None /\ Refuse(c, "notFound", 401)
    BY <1>2, <1>4, <1>6, <2>1 DEF FindUser
  <2> QED
    BY <1>3, <1>5, <1>6, <2>1 DEF FindUser
<1>7. CASE CompareCredentials(c)
  <2>1. ASSUME NEW u \in {found[c], Current(found[c])}, ~HasCredentials(u, r.creds),
               Refuse(c, "mismatch", 401)
        PROVE  AnswerOK'
    <3>1. u \in seen[c]
      BY <1>2, <1>7 DEF CompareCredentials, CallsOK, CallOK, Current
    <3> QED
      BY <1>4, <2>1, <3>1
  <2> QED
    BY <1>3, <1>5, <1>7, <2>1 DEF CompareCredentials
<1>8. CASE CheckFields(c)
  <2>1. CASE Refuse(c, "invalid", 200)
    BY <1>4, <2>1
  <2> QED
    BY <1>3, <1>5, <1>8, <2>1 DEF CheckFields
<1>9. CASE CreateUser(c)
  <2>1. CASE user # None /\ Refuse(c, "exists", 200)
    BY <1>2, <1>4, <1>9, <2>1 DEF CreateUser
  <2>2. CASE UNCHANGED answer
    BY <1>9, <2>2, NoAnswer DEF CreateUser, Ready
  <2> QED
    BY <1>3, <1>9, <2>1, <2>2 DEF CreateUser
<1>10. CASE CreateBreaks(c)
  <2>1. Answer(r, "failed", None, None, String(Blank, 500), "none", seen[c])
    BY <1>10 DEF CreateBreaks
  <2>2. Bare(String(Blank, 500))
    BY Statuses
  <2> QED
    BY <1>1, <2>1, <2>2, RefusedCall DEF Faults
<1>11. CASE SignTokens(c) /\ ~Fail(c)
  <2> DEFINE pair == SignedPair(found[c].id, now, now')
  <2>1. PICK fault \in {"none", "encoding"} :
          Finish(c, "ok", pair, None,
                 JSON(RespondTokens(Blank, pair, now'), 200, fault = "none"), fault)
    BY <1>11 DEF SignTokens
  <2> DEFINE resp == JSON(RespondTokens(Blank, pair, now'), 200, fault = "none")
  <2>2. Answer(r, "ok", pair, None, resp, fault, seen[c])
    BY <2>1 DEF Finish
  <2>3. /\ at[c] = "sign" /\ found[c].id \in Ids
        /\ r.creds \in Passwords /\ [id |-> found[c].id, pw |-> r.creds] \in seen[c]
    BY <1>11 DEF SignTokens, CallsOK, CallOK, Signing, StateOK
  <2>4. now \in Int /\ now' \in Int
    BY <1>11, IdentityAssumption DEF SignTokens, StateOK
  <2>5. pair \in [access : Str, refresh : Str \cup {None}] /\ pair.access.uid = found[c].id
    BY <2>3, <2>4, SignedPairs
  <2>6. Carries(resp, pair, now') /\ (resp.heads = 1 \/ (fault = "encoding" /\ resp.heads = 0))
    <3> HIDE DEF pair
    <3>1. CASE fault = "none"
      <4>1. resp = JSON(RespondTokens(Blank, pair, now'), 200, TRUE)
        BY <3>1
      <4>2. Delivers(JSON(RespondTokens(Blank, pair, now'), 200, TRUE), pair, now')
        BY Deliveries
      <4> HIDE DEF resp
      <4> QED
        BY <4>1, <4>2 DEF Delivers
    <3>2. CASE fault # "none"
      <4>1. resp = RespondTokens(Blank, pair, now') /\ fault = "encoding"
        BY <3>2 DEF JSON
      <4>2. /\ RespondTokens(Blank, pair, now').heads = 0
            /\ Carries(RespondTokens(Blank, pair, now'), pair, now')
        BY Deliveries
      <4> HIDE DEF resp
      <4> QED
        BY <4>1, <4>2
    <3> QED
      BY <3>1, <3>2
  <2>7. /\ answer'.req = r /\ answer'.says = "ok" /\ answer'.tokens = pair
        /\ answer'.seen = seen[c]
    BY <2>2 DEF Answer
  <2>8. AnswersAreCurrent'
    BY <2>3, <2>5, <2>7 DEF AnswersAreCurrent
  <2>9. RefreshGoesByRefreshToken' /\ GuardNamesCaller'
    BY <1>1, <2>7 DEF RefreshGoesByRefreshToken, GuardNamesCaller, Requests
  <2> HIDE DEF pair, resp
  <2> QED
    BY <2>2, <2>4, <2>5, <2>6, <2>8, <2>9, Delivery DEF Faults
<1>12. CASE FetchUser(c) /\ ~Fail(c)
  <2> DEFINE vt == r.pair.access
             u  == TokenUser(vt)
  <2>1. CASE Finish(c, "passed", None, u, JSON(Blank, 200, TRUE), "none")
    <3>1. Answer(r, "passed", None, u, JSON(Blank, 200, TRUE), "none", seen[c])
      BY <2>1 DEF Finish
    <3>2. answer'.req = r /\ answer'.says = "passed" /\ answer'.user = u
      BY <3>1 DEF Answer
    <3>3. r.creds = None /\ HasValidAccess(r.pair)
      BY <1>12 DEF FetchUser, CallsOK, CallOK
    <3>4. vt # None /\ vt.errs = {} /\ (u # None => u.id = vt.uid)
      BY <3>3 DEF HasValidAccess, IsOk, TokenUser
    <3>5. AnswersAreCurrent'
      BY <3>2, <3>3 DEF AnswersAreCurrent
    <3>6. RefreshGoesByRefreshToken'
      BY <1>1, <3>2 DEF RefreshGoesByRefreshToken, Requests
    <3>7. HasUserId(vt)
      BY <1>12, <2>1, <3>1 DEF FetchUser, Fail, Finish, Answer
    <3>8. GetUserId(answer)' = vt.uid
      BY <3>2, <3>4, <3>7, AccessNames DEF GetUserId
    <3>9. GuardNamesCaller'
      <4> HIDE DEF u
      <4> QED
        BY <3>2, <3>4, <3>7, <3>8 DEF GuardNamesCaller
    <3> QED
      BY <3>1, <3>5, <3>6, <3>9, Refusal, Statuses DEF Faults
  <2>2. CASE Finish(c, "failed", None, u, String(Blank, 500), "encoding")
    <3>1. Answer(r, "failed", None, u, String(Blank, 500), "encoding", seen[c])
      BY <2>2 DEF Finish
    <3>2. Bare(String(Blank, 500))
      BY Statuses
    <3>3. "encoding" \in Faults /\ r \in Requests
      BY <1>1 DEF Faults
    <3> HIDE DEF u, r
    <3> QED
      BY <3>1, <3>2, <3>3, RefusedCall
  <2>3. CASE Finish(c, "failed", None, u, String(JSON(Blank, 200, TRUE), 500), "writing")
    <3> DEFINE ok   == JSON(Blank, 200, TRUE)
               resp == String(ok, 500)
    <3>1. /\ answer'.req = r /\ answer'.says = "failed" /\ answer'.tokens = None
          /\ answer'.resp = resp /\ answer'.fault = "writing"
      BY <2>3 DEF Finish, Answer
    <3>2. Write(resp).sent = None
      <4>1. Bare(ok)
        BY Statuses
      <4> HIDE DEF ok
      <4>2. ok.heads = 1 /\ ok.sent = None
        BY <4>1 DEF Bare, Write
      <4> QED
        BY <4>2 DEF String, Write, WriteHeader
    <3>3. AnswersAreCurrent' /\ RefreshGoesByRefreshToken' /\ GuardNamesCaller'
      BY <1>1, <3>1
      DEF AnswersAreCurrent, RefreshGoesByRefreshToken, GuardNamesCaller, Requests
    <3>4. OneResponse'
      BY <3>1 DEF OneResponse
    <3>5. TokensArrive'
      <4> HIDE DEF resp, r
      <4> QED
        BY <3>1, <3>2 DEF TokensArrive, HeadersCarryTokens, CookieDiesWithToken
    <3> QED
      BY <3>1, <3>3, <3>4, <3>5 DEF AnswerOK, Faults
  <2> QED
    BY <1>12, <2>1, <2>2, <2>3 DEF FetchUser
<1> QED
  BY <1>3, <1>6, <1>7, <1>8, <1>9, <1>10, <1>11, <1>12 DEF SignTokens, FetchUser

LEMMA CheckAnswers ==
  ASSUME StateOK, Check
  PROVE  AnswerOK'
<1>1. now' \in Int
  BY IdentityAssumption DEF Check, StateOK
<1>2. PICK pair \in Pairs :
        LET r == Request("check", None, pair, Mandatory)
        IN \/ \E says \in {"failed", "refused"} : \E s : Reply(r, says, None, String(Blank, s))
           \/ /\ HasValidAccess(pair)
              /\ Reply(r, "ok", pair, String(RespondTokens(Blank, pair, now'), 200))
  BY DEF Check
<1> DEFINE r    == Request("check", None, pair, Mandatory)
           resp == String(RespondTokens(Blank, pair, now'), 200)
<1>3. CASE \E says \in {"failed", "refused"} : \E s : Reply(r, says, None, String(Blank, s))
  <2>1. PICK says \in {"failed", "refused"} : \E s : Reply(r, says, None, String(Blank, s))
    BY <1>3
  <2>2. PICK s : Reply(r, says, None, String(Blank, s))
    BY <2>1
  <2> QED
    BY <2>2, Replied
<1>4. CASE HasValidAccess(pair) /\ Reply(r, "ok", pair, resp)
  <2>1. pair \in [access : Str, refresh : Str \cup {None}]
    BY <1>4, PairsAreTyped DEF Pair, HasValidAccess
  <2>2. Answer(r, "ok", pair, None, resp, "none", {})
    BY <1>4 DEF Reply
  <2>3. resp.heads = 1 /\ Carries(resp, pair, now')
    <3>1. Delivers(resp, pair, now')
      BY Deliveries
    <3> HIDE DEF resp
    <3> QED
      BY <3>1 DEF Delivers
  <2>4. answer'.req.creds = None /\ answer'.req.op = "check" /\ answer'.says = "ok"
    BY <2>2 DEF Answer, Request
  <2>5. AnswersAreCurrent' /\ RefreshGoesByRefreshToken' /\ GuardNamesCaller'
    BY <2>4 DEF AnswersAreCurrent, RefreshGoesByRefreshToken, GuardNamesCaller
  <2> HIDE DEF r, resp
  <2> QED
    BY <1>1, <2>1, <2>2, <2>3, <2>5, Delivery DEF Faults
<1> QED
  BY <1>2, <1>3, <1>4

LEMMA RefreshAnswers ==
  ASSUME StateOK, Refresh
  PROVE  AnswerOK'
<1>1. now \in Int /\ now' \in Int
  BY IdentityAssumption DEF Refresh, StateOK
<1>2. PICK pair \in Pairs :
        LET r      == Request("refresh", None, pair, Mandatory)
            vt     == pair.refresh
            signed == SignedPair(vt.uid, now, now')
            full   == Write(RespondTokens(Blank, signed, now'))
        IN \/ \E s : Reply(r, "failed", None, String(Blank, s))
           \/ ~Usable(vt) /\ \E s : Reply(r, "refused", None, String(Blank, s))
           \/ /\ Usable(vt) /\ HasUserId(vt)
              /\ \/ Answer(r, "ok", signed, None, full, "none", {})
                 \/ Answer(r, "ok", signed, None, String(full, 500), "writing", {})
  BY DEF Refresh, Reply, Usable, Exchanged
<1> DEFINE r      == Request("refresh", None, pair, Mandatory)
           vt     == pair.refresh
           signed == SignedPair(vt.uid, now, now')
           full   == Write(RespondTokens(Blank, signed, now'))
<1>3. CASE \E s : Reply(r, "failed", None, String(Blank, s))
  BY <1>3, Replied
<1>4. CASE ~Usable(vt) /\ \E s : Reply(r, "refused", None, String(Blank, s))
  BY <1>4, Replied DEF Usable, IsOk
<1>5. CASE /\ Usable(vt) /\ HasUserId(vt)
           /\ \/ Answer(r, "ok", signed, None, full, "none", {})
              \/ Answer(r, "ok", signed, None, String(full, 500), "writing", {})
  <2>1. vt.uid \in Ids
    BY <1>5 DEF HasUserId
  <2>2. signed \in [access : Str, refresh : Str \cup {None}] /\ signed.access.uid = vt.uid
    BY <1>1, <2>1, SignedPairs
  <2>3. /\ full.heads = 1 /\ Carries(full, signed, now')
        /\ Carries(String(full, 500), signed, now')
    <3> HIDE DEF signed
    <3>1. Delivers(full, signed, now')
      BY Deliveries
    <3> HIDE DEF full
    <3>3. full.heads = 1 /\ Carries(full, signed, now')
      BY <3>1 DEF Delivers
    <3>4. String(full, 500).heads = 2 /\ String(full, 500).sent = full.sent
      BY <3>3 DEF String, Write, WriteHeader
    <3> QED
      BY <3>3, <3>4 DEF Carries, Write
  <2>4. /\ answer'.req = r /\ answer'.says = "ok" /\ answer'.tokens = signed
    BY <1>5 DEF Answer
  <2>5. r.creds = None /\ r.op = "refresh" /\ r.pair = pair
    BY DEF Request
  <2>6. RefreshGoesByRefreshToken'
    BY <1>5, <2>2, <2>4, <2>5 DEF RefreshGoesByRefreshToken, Usable, IsOk
  <2>7. AnswersAreCurrent' /\ GuardNamesCaller'
    BY <2>4, <2>5 DEF AnswersAreCurrent, GuardNamesCaller
  <2> HIDE DEF r, signed, full
  <2>8. CASE Answer(r, "ok", signed, None, full, "none", {})
    BY <1>1, <2>2, <2>3, <2>6, <2>7, <2>8, Delivery DEF Faults
  <2>9. CASE Answer(r, "ok", signed, None, String(full, 500), "writing", {})
    BY <1>1, <2>2, <2>3, <2>6, <2>7, <2>9, Delivery DEF Faults
  <2> QED
    BY <1>5, <2>8, <2>9
<1> QED
  BY <1>2, <1>3, <1>4, <1>5

LEMMA GuardAnswers ==
  ASSUME StateOK, NEW op \in {"user", "guarded"}, NEW o \in Options \cup {Mandatory},
         Guard(op, o)
  PROVE  AnswerOK'
<1>1. PICK pair \in Pairs :
        LET r == Request(op, None, pair, o)
        IN \/ \E says \in {"failed", "refused"} : \E s : Reply(r, says, None, String(Blank, s))
           \/ /\ o.optional \/ HasValidAccess(pair)
              /\ o.noFetch \/ ~HasValidAccess(pair)
              /\ Reply(r, "passed", None, String(Blank, 200))
           \/ UNCHANGED answer
  BY DEF Guard, Begin
<1> DEFINE r == Request(op, None, pair, o)
<1>2. CASE \E says \in {"failed", "refused"} : \E s : Reply(r, says, None, String(Blank, s))
  BY <1>2, Replied
<1>3. CASE /\ o.optional \/ HasValidAccess(pair)
           /\ o.noFetch \/ ~HasValidAccess(pair)
           /\ Reply(r, "passed", None, String(Blank, 200))
  <2>1. Answer(r, "passed", None, None, String(Blank, 200), "none", {})
    BY <1>3 DEF Reply
  <2>2. /\ answer'.req = r /\ answer'.says = "passed" /\ answer'.user = None
    BY <2>1 DEF Answer
  <2>3. r.creds = None /\ r.op = op /\ r.pair = pair /\ r.opts = o
    BY DEF Request
  <2>4. AnswersAreCurrent' /\ RefreshGoesByRefreshToken'
    BY <2>2, <2>3 DEF AnswersAreCurrent, RefreshGoesByRefreshToken
  <2>5. HasValidAccess(pair) => pair.access # None /\ pair.access.errs = {}
    BY DEF HasValidAccess, IsOk
  <2>6. IsAuthorized(answer)' => o.optional /\ o.noFetch /\ HasValidAccess(pair)
    BY <1>3, <2>2, <2>3 DEF IsAuthorized
  <2>7. HasUserId(pair.access) => GetUserId(answer)' = pair.access.uid
    BY <2>2, <2>3, AccessNames DEF GetUserId
  <2>8. HasValidAccess(pair) => HasUserId(pair.access) \/ pair.access.uid = None
    BY PairsAreTyped DEF HasValidAccess, Usable, HasUserId, StateOK
  <2>9. GuardNamesCaller'
    BY <1>3, <2>2, <2>3, <2>5, <2>6, <2>7, <2>8 DEF GuardNamesCaller
  <2>10. Bare(String(Blank, 200))
    BY Statuses
  <2> QED
    BY <2>1, <2>4, <2>9, <2>10, Refusal DEF Faults
<1>4. CASE UNCHANGED answer
  BY <1>4, NoAnswer DEF Guard, Quiet, Ready
<1> QED
  BY <1>1, <1>2, <1>3, <1>4

LEMMA NextAnswer ==
  ASSUME StateOK, CallsOK, Next
  PROVE  AnswerOK'
<1>1. ASSUME NEW op \in {"signin", "signup"}, BadSign(op)
      PROVE  AnswerOK'
  <2>1. \E says \in {"badBody", "noCredentials"} : \E s :
          Reply(Request(op, None, NoPair, Mandatory), says, None, String(Blank, s))
    BY <1>1 DEF BadSign
  <2> QED
    BY <2>1, Replied
<1>2. ASSUME NEW op \in {"signin", "signup"}, NEW c \in Clients, NEW creds \in Passwords,
             Sign(c, op, creds)
      PROVE  AnswerOK'
  BY <1>2, NoAnswer DEF Sign, Begin, Ready
<1>3. CASE DeleteUser \/ (\E pw \in Passwords : ChangePassword(pw)) \/ Tick \/ Look
  BY <1>3, NoAnswer DEF DeleteUser, ChangePassword, Tick, Look, Ready
<1> QED
  BY <1>1, <1>2, <1>3, CallAnswers, CheckAnswers, RefreshAnswers, GuardAnswers DEF Next

-----------------------------------------------------------------------------
(***************************************************************************)
(* Theorems.                                                               *)
(***************************************************************************)

\* The invariant holds of every behaviour.
THEOREM Inductive == Spec => []IInv
<1>1. IInv /\ [Next]_vars => IInv'
  <2> SUFFICES ASSUME IInv, [Next]_vars PROVE IInv'
    OBVIOUS
  <2>1. CASE Next
    BY <2>1, NextState, NextCalls, NextAnswer DEF IInv
  <2>2. CASE UNCHANGED vars
    <3>1. StateOK' /\ CallsOK'
      BY <2>2 DEF IInv, StateOK, CallsOK, CallOK, vars, callVars
    <3>2. AnswerOK'
      BY <2>2
      DEF IInv, AnswerOK, AnswersAreCurrent, OneResponse, TokensArrive, HeadersCarryTokens,
          CookieDiesWithToken, RefreshGoesByRefreshToken, GuardNamesCaller, IsAuthorized,
          GetUserId, vars
    <3> QED
      BY <3>1, <3>2 DEF IInv
  <2> QED
    BY <2>1, <2>2
<1> QED
  BY InitInv, <1>1, PTL DEF Spec

\* The state is well-typed: a handler that compares or signs has got a user
\* from the registry, and tokens are issued for ids that there have been.
THEOREM TypeCorrect == Spec => []IdentityTypeOK
<1>1. IInv => IdentityTypeOK
  <2> SUFFICES ASSUME IInv, NEW c \in Clients
               PROVE  /\ at[c] \in Steps /\ found[c] \in Users \cup {None}
                      /\ at[c] \in {"compare", "sign"} => found[c] # None
                      /\ seen[c] \subseteq Users \cup {None}
                      /\ req[c].opts \in Options /\ req[c].pair \in Pair
    BY DEF IInv, StateOK, AnswerOK, IdentityTypeOK, Steps
  <2> QED
    BY DEF IInv, StateOK, CallsOK, CallOK, Requests
<1> QED
  BY <1>1, Inductive, PTL

\* What sign-in and sign-up answer was true of the registry at some moment of
\* the call, whatever the other calls and the registry's owner did meanwhile.
THEOREM AnswersWereTrue == Spec => []AnswersAreCurrent
<1>1. IInv => AnswersAreCurrent
  BY DEF IInv, AnswerOK
<1> QED
  BY <1>1, Inductive, PTL

\* Every request is answered by one status, unless writing it fails or, for a
\* sign-in or sign-up, encoding it.
THEOREM OneStatus == Spec => []OneResponse
<1>1. IInv => OneResponse
  BY DEF IInv, AnswerOK
<1> QED
  BY <1>1, Inductive, PTL

\* The tokens that a handler gives out arrive, all of them and no others, and
\* the cookie does not outlive its token, nor die a whole second before it:
\* for any lifetimes, and however many ticks a second has.
THEOREM TokensAreSent == Spec => []TokensArrive
<1>1. IInv => TokensArrive
  BY DEF IInv, AnswerOK
<1> QED
  BY <1>1, Inductive, PTL

\* Refresh depends on the refresh token alone.
THEOREM RefreshIsSound == Spec => []RefreshGoesByRefreshToken
<1>1. IInv => RefreshGoesByRefreshToken
  BY DEF IInv, AnswerOK
<1> QED
  BY <1>1, Inductive, PTL

\* Guard lets nobody through without a valid access token unless it may, and
\* whoever it authorizes is the one that this token names, unless the guard is
\* optional, does not fetch the user, and the token names nobody.
THEOREM GuardIsSound == Spec => []GuardNamesCaller
<1>1. IInv => GuardNamesCaller
  BY DEF IInv, AnswerOK
<1> QED
  BY <1>1, Inductive, PTL
=============================================================================
