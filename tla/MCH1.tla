-------------------------------- MODULE MCH1 --------------------------------
(***************************************************************************)
(* Instances of H1Connection: the requests, handlers and responses.        *)
(***************************************************************************)
EXTENDS H1Connection

Get  == [crlf |-> 0, body |-> "none", n |-> 0, trailer |-> "no", expect |-> FALSE, te |-> FALSE,
         close |-> FALSE, head |-> FALSE, junk |-> FALSE]
Plain == [hint |-> "no", body |-> "skip", fail |-> FALSE, upgrade |-> FALSE]
Ok   == [framing |-> "length", n |-> 0, trailers |-> FALSE, zero |-> FALSE, error |-> FALSE, breaks |-> FALSE]
Scenario(req, call, resp) == [req |-> req, call |-> call, resp |-> resp]

Reads_ == [Plain EXCEPT !.body = "read"]
Post == [Get EXCEPT !.body = "length", !.n = 2]
Chunks == [Get EXCEPT !.body = "chunked", !.n = 1]

MCScenarios == <<
    Scenario([Get EXCEPT !.head = TRUE], Plain, [Ok EXCEPT !.n = 1]),
    Scenario([Get EXCEPT !.junk = TRUE], Plain, Ok),
    Scenario([Get EXCEPT !.te = TRUE], [Plain EXCEPT !.hint = "first"],
             [Ok EXCEPT !.framing = "chunked", !.n = 2, !.trailers = TRUE]),
    Scenario(Get, [Plain EXCEPT !.upgrade = TRUE], Ok),
    Scenario([Post EXCEPT !.expect = TRUE], Reads_, [Ok EXCEPT !.n = 1, !.zero = TRUE]),
    Scenario([Chunks EXCEPT !.trailer = "sent"], Reads_, [Ok EXCEPT !.framing = "chunked", !.n = 1]),
    Scenario([Chunks EXCEPT !.expect = TRUE, !.close = TRUE], Reads_, [Ok EXCEPT !.error = TRUE]),
    Scenario(Chunks, [Plain EXCEPT !.fail = TRUE], Ok),
    Scenario(Post, Plain, [Ok EXCEPT !.n = 2, !.breaks = TRUE]) >>

=============================================================================
