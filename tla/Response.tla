------------------------------- MODULE Response -------------------------------
(***************************************************************************)
(* stdrouter.Response on the http.ResponseWriter that it wraps, which is   *)
(* external: the first WriteHeader sends the status with the headers set   *)
(* by then, every further one is superfluous.  Of the headers, the tokens  *)
(* and the cookie are kept; bodies are left out.                           *)
(***************************************************************************)
EXTENDS Naturals

CONSTANT NoTokens    \* no token headers

Blank == [heads |-> 0, status |-> 0, headers |-> NoTokens, sent |-> NoTokens]

WriteHeader(r, code) ==
  IF r.heads = 0
  THEN [r EXCEPT !.heads = 1, !.status = code, !.sent = r.headers]
  ELSE [r EXCEPT !.heads = @ + 1]

SetHeaders(r, tokens) == [r EXCEPT !.headers = tokens]

\* Writing a body sends status 200 if no other has been sent.
Write(r) == IF r.heads = 0 THEN WriteHeader(r, 200) ELSE r

\* String, Stringf and Redirect: a status and a body, by way of http.Error
\* or http.Redirect for those that are not a success.
String(r, code) == Write(WriteHeader(r, code))

\* JSON: a value that cannot be encoded leaves the status to whoever called.
JSON(r, code, encodes) ==
  IF encodes THEN Write(IF code = 0 THEN r ELSE WriteHeader(r, code)) ELSE r
===============================================================================
