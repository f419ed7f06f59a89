----------------------------- MODULE MCH3Request ----------------------------
(* Requests for TLC: each call exercises one way through handle_request.    *)
EXTENDS H3Request

MCCall(m, e, r, h, o, b) ==
    [method |-> m, expect |-> e, reads |-> r, hints |-> h, outcome |-> o, body |-> b]

MCCalls ==
    { MCCall("get", TRUE, "inline", TRUE, "ok", <<"data", "trailers">>),
      MCCall("get", TRUE, "inline", FALSE, "refused", <<>>),
      MCCall("get", TRUE, "spawned", FALSE, "ok", <<"large", "data">>),
      MCCall("get", FALSE, "inline", FALSE, "ok", <<"empty", "data", "fail">>),
      MCCall("get", FALSE, "none", TRUE, "toobig", <<"data">>),
      MCCall("get", FALSE, "inline", FALSE, "fail", <<>>),
      MCCall("head", FALSE, "none", FALSE, "ok", <<"data">>),
      MCCall("connect", FALSE, "spawned", FALSE, "ok", <<>>),
      MCCall("connect", FALSE, "none", FALSE, "ok", <<>>) }

=============================================================================
