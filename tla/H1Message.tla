----------------------------- MODULE H1Message ------------------------------
(***************************************************************************)
(* HTTP/1 messages as sequences of tokens, and the parts of src/h1 that    *)
(* scan and frame them: get_head and the chunked body reader on the way    *)
(* in, write_response on the way out, and the client's own reading of what *)
(* was written, as a reference.                                            *)
(*                                                                         *)
(* A request is a record: crlf, blank lines before it; body, its framing,  *)
(* of n data tokens; trailer, whether a Trailer field is declared and the  *)
(* trailers are sent; expect, Expect: 100-continue; te, TE: trailers;      *)
(* close, Connection: close; head, a HEAD request; junk, fields that do    *)
(* not parse.  A response: framing, by its length or chunked, n data       *)
(* tokens, trailers, zero, a zero-copy body, error, an error status.       *)
(***************************************************************************)
EXTENDS Integers, Sequences, SequencesExt

Repeat(tok, n) == [i \in 1..n |-> tok]

\* What the client sends.  A "size" token ends with its CRLF, a "trailer" token with the
\* blank line that ends the trailers.
Chunk == <<"size", "d", "crlf">>
RequestBody(r) ==
    CASE r.body = "length"  -> Repeat("d", r.n)
      [] r.body = "chunked" -> FlattenSeq(Repeat(Chunk, r.n)) \o
                               <<"zero", IF r.trailer = "sent" THEN "trailer" ELSE "crlf">>
      [] OTHER              -> <<>>
RequestHead(r) == Repeat("crlf", r.crlf) \o <<"line", IF r.junk THEN "junk" ELSE "fields">>

(***************************************************************************)
(* get_head: one turn of its loop over a buffer that holds what was read.  *)
(* bytes_read, whitespace_trimmed (-1 for None) and request_line_read are  *)
(* kept from turn to turn.                                                 *)
(***************************************************************************)

NewHead == [bytes_read |-> 0, trimmed |-> -1, line |-> FALSE]

\* The first token of the newly read part that is not white space, counted from the
\* beginning of that part.
Trimmed(buf, h, new) ==
    IF h.trimmed # -1 THEN h.trimmed
    ELSE IF \A i \in (h.bytes_read + 1)..new : buf[i] = "crlf" THEN -1
    ELSE (CHOOSE i \in (h.bytes_read + 1)..new :
              buf[i] # "crlf" /\ \A j \in (h.bytes_read + 1)..(i - 1) : buf[j] = "crlf")
         - 1 - h.bytes_read

Verdict(buf, t, new, max) ==
    CASE t # -1 /\ buf[t + 1] # "line"                 -> "bad"
      [] t # -1 /\ buf[t + 1] = "line" /\ new >= t + 2 -> IF buf[t + 2] = "fields" THEN "done" ELSE "bad"
      [] (t = -1 \/ new < t + 2) /\ new >= max         -> "bad"
      [] OTHER                                         -> "more"

MinOf(a, b) == IF a < b THEN a ELSE b

Scanned(buf, h, new, t, max) ==
    [h |-> [bytes_read |-> new, trimmed |-> t, line |-> t # -1],
     verdict |-> Verdict(buf, t, new, max),
     rest |-> SubSeq(buf, t + 3, Len(buf))]
get_head(buf, h, max) ==
    Scanned(buf, h, MinOf(Len(buf), max), Trimmed(buf, h, MinOf(Len(buf), max)), max)

(***************************************************************************)
(* write_response.                                                         *)
(***************************************************************************)

\* A body of known length sets Content-Length; chunked wins over a length.  A HEAD response
\* has no body.
LengthOf == <<"len0", "len1", "len2">>
ResponseHead(p) == IF p.framing = "length" THEN <<LengthOf[p.n + 1], "eoh">> ELSE <<"chunked", "eoh">>

Framed(p, tok) == IF p.framing = "chunked" THEN <<"size", tok, "crlf">> ELSE <<tok>>

\* What ends the body: the trailers if the request allowed them, or the last chunk.
Ending(r, p) ==
    CASE p.trailers /\ r.te                              -> <<"0", "trailer">>
      [] ~(p.trailers /\ r.te) /\ p.framing = "chunked" -> <<"0", "crlf">>
      [] OTHER                                          -> <<>>

Hints == <<"103", "eoh">>
Continue100 == <<"100", "eoh">>
ErrorResponse == <<"len0", "eoh">>

(***************************************************************************)
(* The client reads the response stream token by token: st is what it      *)
(* expects, i counts final responses, cont says that 100 came for the next *)
(* one.  rs are its requests.                                              *)
(***************************************************************************)

NewClient == [st |-> "start", left |-> 0, i |-> 0, cont |-> FALSE]

Final(c, st, left) == [c EXCEPT !.st = st, !.left = left]
NextResponse(c) == [c EXCEPT !.st = "start", !.left = 0, !.i = @ + 1, !.cont = FALSE]
HeadRequest(rs, c) == c.i < Len(rs) /\ rs[c.i + 1].head

Starts(rs, c, u) ==
    CASE u = "103"  -> Final(c, "interim", 0)
      [] u = "100" /\ c.i < Len(rs) /\ rs[c.i + 1].expect /\ ~c.cont ->
            [c EXCEPT !.st = "interim", !.cont = TRUE]
      [] u \in {"len0", "len1", "len2"} -> Final(c, "head", IF u = "len0" THEN 0 ELSE IF u = "len1" THEN 1 ELSE 2)
      [] u = "chunked" -> Final(c, "head", -1)
      [] OTHER -> Final(c, "bad", 0)

Reads(rs, c, u) ==
    CASE c.st = "start"                       -> Starts(rs, c, u)
      [] c.st = "interim" /\ u = "eoh"        -> Final(c, "start", 0)
      [] c.st = "head" /\ u = "eoh" /\ (HeadRequest(rs, c) \/ c.left = 0) -> NextResponse(c)
      [] c.st = "head" /\ u = "eoh" /\ ~HeadRequest(rs, c) /\ c.left > 0  -> Final(c, "length", c.left)
      [] c.st = "head" /\ u = "eoh" /\ ~HeadRequest(rs, c) /\ c.left = -1 -> Final(c, "chunk", 0)
      [] c.st = "length" /\ u = "d"           -> IF c.left = 1 THEN NextResponse(c) ELSE Final(c, "length", c.left - 1)
      [] c.st = "chunk" /\ u = "size"         -> Final(c, "data", 0)
      [] c.st = "data" /\ u = "d"             -> Final(c, "crlf", 0)
      [] c.st = "crlf" /\ u = "crlf"          -> Final(c, "chunk", 0)
      [] c.st = "chunk" /\ u = "0"            -> Final(c, "last", 0)
      [] c.st = "last" /\ u \in {"crlf", "trailer"} -> NextResponse(c)
      [] OTHER                                -> Final(c, "bad", 0)

=============================================================================
