--------------------------- MODULE MCHttpRequest ---------------------------
(* Instances of HttpRequest for TLC.                                       *)
EXTENDS HttpRequest

Req(tokens, length) == [tokens |-> tokens, length |-> length]

(* With a body and without, authorized with Expect, Expect alone, refused  *)
(* for its verb or type, with a header that is too long, one that is       *)
(* longer than the buffer, and with a zero byte in the body and before it. *)
AllKinds ==
  { Req(<<"verb", "line", "json", "length", "blank", "b1", "b2", "b3">>, 3),
    Req(<<"verb", "line", "other", "blank">>, 0),
    Req(<<"verb", "line", "auth", "expect", "length", "blank", "b1", "b2">>, 2),
    Req(<<"verb", "line", "expect", "length", "blank", "b1">>, 1),
    Req(<<"badverb", "line", "blank">>, 0),
    Req(<<"verb", "line", "text", "length", "blank", "b1">>, 1),
    Req(<<"verb", "line", "length", "long", "blank", "b1">>, 1),
    Req(<<"verb", "line", "auth", "expect", "long", "blank">>, 0),
    Req(<<"verb", "line", "long", "blank">>, 0),
    Req(<<"verb", "line", "length", "blank", "b1", "b2", "b3", "b4", "b5">>, 5),
    Req(<<"verb", "line", "length", "blank", "b1", "nul", "b2">>, 3),
    Req(<<"verb", "line", "length", "nul", "blank", "b1">>, 1) }
=============================================================================
