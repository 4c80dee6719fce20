----------------------------- MODULE RequestJsoner -----------------------------
(***************************************************************************)
(* utils/http.Jsoner: the decoding of a request, in front of data/jsoner,  *)
(* and the status of its result.  http.MaxBytesReader is external: it lets *)
(* a limited number of bytes through, and then fails with an error that    *)
(* encoding/json hands on.                                                 *)
(***************************************************************************)
EXTENDS Integers, Jsoner

MaxSizeDefault == 1048576

DecodeOptions == [maxSize : Int, unknownFieldsAllowed : BOOLEAN]

\* A request: its content type, and the body as it is without a limit and with
\* unknown fields allowed; whether it has unknown fields; and the bytes up to
\* the end of its first value, and to its end.
ContentTypes == {"", "application/json", "other"}
Requests == [contentType : ContentTypes, body : Bodies, unknownFields : BOOLEAN,
             firstSize : Nat, size : Nat]

\* The limit of DecodeRequest, if there is one.
Limited(opt) == opt.maxSize >= 0
MaxSize(opt) == IF opt.maxSize = 0 THEN MaxSizeDefault ELSE opt.maxSize

\* What encoding/json finds in n bytes too many, or in an unknown field.
Through(r, opt) ==
  LET cut(n) == Limited(opt) /\ n > MaxSize(opt)
  IN [first |-> IF cut(r.firstSize) THEN "unknown"
                ELSE IF r.body.first = "value" /\ r.unknownFields /\ ~opt.unknownFieldsAllowed
                     THEN "unknown" ELSE r.body.first,
      rest  |-> IF cut(r.size) THEN "more" ELSE r.body.rest]

\* DecodeRequest: options given for a call replace the defaults as a whole.
DecodeRequest(r, opt) ==
  IF r.contentType = "other"
  THEN [isWrongContentType |-> TRUE, maxBytesError |-> FALSE, result |-> "ok"]
  ELSE [isWrongContentType |-> FALSE, maxBytesError |-> FALSE, result |-> Decode(Through(r, opt))]

AsHTTPStatus(res) ==
  IF res.isWrongContentType THEN 415
  ELSE IF res.maxBytesError THEN 413
  ELSE IF res.result # "ok" THEN 400 ELSE 200

\* Err: nil exactly for status 200.
HasErr(res) == AsHTTPStatus(res) # 200
===============================================================================
