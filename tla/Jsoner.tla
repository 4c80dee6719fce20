-------------------------------- MODULE Jsoner --------------------------------
(***************************************************************************)
(* data/jsoner: what becomes of a body.  encoding/json is external: of a   *)
(* body it finds a first value or an error, and then the end of the input  *)
(* or anything else.                                                       *)
(***************************************************************************)

Errors == {"unexpectedEOF", "EOF", "syntax", "type", "unknown"}

Bodies == [first : {"value"} \cup Errors, rest : {"EOF", "more"}]

\* Decode: the one flag that it sets in its result, or "ok".
Decode(body) ==
  CASE body.first # "value" -> body.first
    [] body.first = "value" /\ body.rest # "EOF" -> "multiple"
    [] OTHER -> "ok"
===============================================================================
