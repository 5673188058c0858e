----------------------------- MODULE HttpStream -----------------------------
(***************************************************************************)
(* How a frontend cuts the byte stream of its client into requests and     *)
(* forwards them (http_frontend_handle_req.cpp, http_parser.cpp).  The     *)
(* stream is a sequence of tokens (a piece of the request line, a header    *)
(* line, the empty line, a byte of a body); TCP delivers it in segments.    *)
(***************************************************************************)
EXTENDS Naturals, Sequences, SequencesExt

CONSTANTS Bodies,         \* lengths of a POST body
          MaxRequests,    \* bound: requests of a client
          MaxReqLen,      \* MAX_FULL_REQ_LEN, in tokens
          Env             \* what may happen in this instance

\* split: a segment may end inside the head of a request.  no_host: a request may
\* lack the Host header.  long: one may have more headers than MaxReqLen.
\* chunked: a POST may have Transfer-Encoding.  multi_app: the port may have several apps.
EnvCases == {"split", "no_host", "long", "chunked", "multi_app"}

ASSUME HttpStreamAssumption ==
    Bodies \subseteq Nat /\ MaxRequests \in Nat /\ MaxReqLen \in Nat /\ Env \subseteq EnvCases

VARIABLES
    sent,             \* history: all the client sends, fixed at the start
    wire,             \* sent, not received
    phase,            \* where the frontend is
    whole, rest,      \* the buffer handle_request got, and from parser.start on
    req,              \* from parser.req_start to parser.start
    post,             \* parser.method is POST or PUT
    partial_buf, content_length, host,
    saved,            \* received_data_before_match_app
    matched_app,
    out               \* history: what forward_to_backend sent

parsing == <<whole, rest, req, post>>
vars == <<sent, wire, phase, parsing, partial_buf, content_length, host, saved,
          matched_app, out>>

\* recv: handle_data returned true.  line, headers: in handle_request.  match: waiting
\* for the backend.  closed: handle_data returned false.  crashed: host is null.
Phase == {"recv", "line", "headers", "match", "closed", "crashed"}

----------------------------------------------------------------------------
(* What a client sends                                                     *)

Tok(r, kind, val) == [r |-> r, kind |-> kind, val |-> val]
Junk == Tok(0, "junk", 0)       \* the byte after the end of the received ones

\* header lines of request r
Hosts == {TRUE} \cup {FALSE : x \in Env \cap {"no_host"}}
Longs == {0} \cup {MaxReqLen : x \in Env \cap {"long"}}

Head0(r, isPost)  == <<Tok(r, "line1", IF isPost THEN 1 ELSE 0), Tok(r, "line2", 0)>>
Head1(r, has)     == IF has THEN <<Tok(r, "host", 0)>> ELSE <<>>
Fill(r, n)        == [i \in 1..n |-> Tok(r, "header", i)]
Body(r, n)        == [i \in 1..n |-> Tok(r, "body", i)]
End(r)            == <<Tok(r, "end", 0)>>

Gets(r)  == {Head0(r, FALSE) \o Head1(r, h) \o Fill(r, n) \o End(r) : h \in Hosts, n \in Longs}
Posts(r) == {Head0(r, TRUE) \o <<Tok(r, "length", n)>> \o Head1(r, h) \o End(r) \o Body(r, n) :
                h \in Hosts, n \in Bodies}
Chunks(r) == {Head0(r, TRUE) \o Head1(r, TRUE) \o <<Tok(r, "coding", 0)>> \o End(r) \o Body(r, 2) :
                x \in Env \cap {"chunked"}}
Requests(r) == Gets(r) \cup Posts(r) \cup Chunks(r)

Streams(n) == {FlattenSeq(f) : f \in {g \in [1..n -> UNION {Requests(r) : r \in 1..n}] :
                                        \A r \in 1..n : g[r] \in Requests(r)}}

Init ==
    /\ sent \in UNION {Streams(n) : n \in 1..MaxRequests} /\ wire = sent
    /\ phase = "recv"
    /\ whole = <<>> /\ rest = <<>> /\ req = <<>> /\ post = FALSE
    /\ partial_buf = <<>> /\ content_length = 0 /\ host = FALSE
    /\ saved = <<>> /\ out = <<>>
    /\ matched_app \in {TRUE} \cup {FALSE : x \in Env \cap {"multi_app"}}

----------------------------------------------------------------------------
(* handle_data                                                             *)

Least(a, b)    == IF a < b THEN a ELSE b
Drop(s, n)     == SubSeq(s, n + 1, Len(s))
Take(s, n)     == SubSeq(s, 1, n)

\* a segment that ends where no head of a request is cut
Whole(n) == n < Len(wire) => wire[n + 1].kind \in {"line1", "body"}

HandleRequest(buf) ==
    /\ whole' = buf /\ rest' = buf /\ req' = <<>> /\ post' = FALSE
    /\ phase' = "line"

\* (mutant) what was forwarded of a body is not counted
HandleDataUncounted(data) ==
    LET buf  == partial_buf \o data
        paid == Least(Len(buf), content_length)
    IN /\ partial_buf' = IF partial_buf = <<>> THEN <<>> ELSE buf
       /\ out' = out \o Take(buf, paid)
       /\ UNCHANGED content_length
       /\ IF paid = Len(buf) THEN UNCHANGED <<phase, parsing>>
          ELSE HandleRequest(Drop(buf, paid))

\* (mutant) the rest of a body is skipped, not forwarded
HandleDataSkips(data) ==
    LET buf  == partial_buf \o data
        paid == Least(Len(buf), content_length)
    IN /\ partial_buf' = IF partial_buf = <<>> THEN <<>> ELSE buf
       /\ UNCHANGED out
       /\ content_length' = content_length - paid
       /\ IF paid = Len(buf) THEN UNCHANGED <<phase, parsing>>
          ELSE HandleRequest(Drop(buf, paid))

\* what was kept of a request is put before the new data; the body of the last
\* request comes first
HandleData(data) ==
    LET buf  == partial_buf \o data
        paid == Least(Len(buf), content_length)
    IN /\ partial_buf' = IF partial_buf = <<>> THEN <<>> ELSE buf
       /\ out' = out \o Take(buf, paid)
       /\ content_length' = content_length - paid
       /\ IF paid = Len(buf) THEN UNCHANGED <<phase, parsing>>
          ELSE HandleRequest(Drop(buf, paid))

Recv ==
    /\ phase = "recv"
    /\ \E n \in 1..Len(wire) :
         /\ "split" \notin Env => Whole(n)
         /\ HandleData(Take(wire, n))
         /\ wire' = Drop(wire, n)
    /\ UNCHANGED <<sent, host, saved, matched_app>>

----------------------------------------------------------------------------
(* handle_request                                                          *)

InputUnchanged == UNCHANGED <<sent, wire, whole, saved, matched_app>>

\* response_err_and_close
Refuse ==
    /\ phase' = "closed"
    /\ UNCHANGED <<rest, req, post, partial_buf, content_length, host, out>>

\* one more token is part of the request
Advance(n) == req' = req \o Take(rest, n) /\ rest' = Drop(rest, n)

\* handle_partial_req: parser.start is one past the end, so that the byte after the
\* data is kept too; nothing more is kept if there is a partial request already
Partial ==
    /\ rest' = <<>> /\ req' = <<>>
    /\ IF Len(req \o rest) > MaxReqLen
       THEN phase' = "closed" /\ UNCHANGED partial_buf
       ELSE /\ phase' = "recv"
            /\ partial_buf' = IF partial_buf = <<>> THEN req \o rest \o <<Junk>> ELSE partial_buf
    /\ UNCHANGED <<post, content_length, host, out>>

\* parse_request_line; a byte too many inside the line may be refused or taken for a
\* part of the URI
ParseRequestLine ==
    /\ phase = "line" /\ InputUnchanged
    /\ \/ /\ rest[1].kind = "line1" /\ Len(rest) = 1
          /\ Partial
       \/ /\ rest[1].kind = "line1" /\ Len(rest) > 1 /\ rest[2].kind = "line2"
          /\ req' = Take(rest, 2) /\ rest' = Drop(rest, 2)
          /\ post' = (rest[1].val = 1) /\ phase' = "headers"
          /\ UNCHANGED <<partial_buf, content_length, host, out>>
       \/ /\ rest[1].kind = "line1" /\ Len(rest) > 2 /\ rest[2].kind = "junk"
          /\ req' = Take(rest, 3) /\ rest' = Drop(rest, 3)
          /\ post' = (rest[1].val = 1) /\ phase' = "headers"
          /\ UNCHANGED <<partial_buf, content_length, host, out>>
       \/ /\ rest[1].kind # "line1" \/ (Len(rest) > 1 /\ rest[2].kind # "line2")
          /\ Refuse

\* parse_header_line finds no end of line
PartialHeader ==
    /\ phase = "headers" /\ InputUnchanged
    /\ rest = <<>>
    /\ Partial

\* a header that does not matter here, or one whose name starts with a byte too many
OtherHeader ==
    /\ phase = "headers" /\ rest # <<>> /\ InputUnchanged
    /\ \/ rest[1].kind \in {"header"} \cup (IF post THEN {} ELSE {"coding", "length"}) /\ Advance(1)
       \/ /\ rest[1].kind = "junk" /\ Len(rest) > 1
          /\ rest[2].kind \in {"header", "host", "length", "coding"}
          /\ Advance(2)
    /\ UNCHANGED <<phase, post, partial_buf, content_length, host, out>>

\* filter_headers: Host, once per connection
HostHeader ==
    /\ phase = "headers" /\ rest # <<>> /\ InputUnchanged
    /\ rest[1].kind = "host"
    /\ host' = TRUE /\ Advance(1)
    /\ UNCHANGED <<phase, post, partial_buf, content_length, out>>

\* (mutant) one byte too many
LengthHeaderOneMore ==
    /\ phase = "headers" /\ rest # <<>> /\ InputUnchanged
    /\ rest[1].kind = "length" /\ post
    /\ content_length' = rest[1].val + 1 /\ Advance(1)
    /\ UNCHANGED <<phase, post, partial_buf, host, out>>

\* filter_headers: Content-Length of a POST or PUT, stored before the head is complete
LengthHeader ==
    /\ phase = "headers" /\ rest # <<>> /\ InputUnchanged
    /\ rest[1].kind = "length" /\ post
    /\ content_length' = rest[1].val /\ Advance(1)
    /\ UNCHANGED <<phase, post, partial_buf, host, out>>

\* filter_headers: 501 for Transfer-Encoding; a line that is no header: 400
BadHeader ==
    /\ phase = "headers" /\ rest # <<>> /\ InputUnchanged
    /\ \/ rest[1].kind = "coding" /\ post
       \/ rest[1].kind \in {"line1", "line2", "body", "junk"}
    /\ Refuse

AtEnd == phase = "headers" /\ rest # <<>> /\ rest[1].kind = "end"

EndTooLong ==
    /\ AtEnd /\ InputUnchanged
    /\ Len(req) + 1 > MaxReqLen
    /\ Refuse

\* the app is not known yet: the whole buffer is kept and the backend connected to;
\* to_match_app_by_host compares host with the names of the apps, and may find none
EndMatchesApp ==
    /\ AtEnd /\ Len(req) + 1 <= MaxReqLen /\ ~matched_app
    /\ saved' = whole
    /\ phase' \in IF host THEN {"match", "closed"} ELSE {"crashed"}
    /\ UNCHANGED <<sent, wire, parsing, partial_buf, content_length, host, matched_app, out>>

\* (mutant) all that is left of the buffer is taken for the body
EndOfReqTakesAll ==
    LET after == Drop(rest, 1)
    IN /\ AtEnd /\ Len(req) + 1 <= MaxReqLen /\ matched_app /\ InputUnchanged
       /\ out' = out \o req \o rest
       /\ content_length' = content_length - Len(after)
       /\ rest' = <<>> /\ req' = <<>> /\ post' = FALSE
       /\ phase' = "recv"
       /\ UNCHANGED <<partial_buf, host>>

\* a_complete_req: the head and what is there of the body are forwarded
EndOfReq ==
    LET after == Drop(rest, 1)
        paid  == Least(content_length, Len(after))
    IN /\ AtEnd /\ Len(req) + 1 <= MaxReqLen /\ matched_app /\ InputUnchanged
       /\ out' = out \o req \o Take(rest, 1 + paid)
       /\ content_length' = content_length - paid
       /\ rest' = Drop(after, paid) /\ req' = <<>> /\ post' = FALSE
       /\ phase' = IF rest' = <<>> THEN "recv" ELSE "line"
       /\ UNCHANGED <<partial_buf, host>>

\* on_backend_connect_ok: what was kept is parsed again, now with an app
BackendConnectOk ==
    /\ phase = "match"
    /\ matched_app' = TRUE /\ saved' = <<>>
    /\ HandleRequest(saved)
    /\ UNCHANGED <<sent, wire, partial_buf, content_length, host, out>>

\* on_backend_connect_fail
BackendConnectFail ==
    /\ phase = "match" /\ phase' = "closed"
    /\ UNCHANGED <<sent, wire, parsing, partial_buf, content_length, host, saved,
                   matched_app, out>>

Next ==
    \/ Recv \/ ParseRequestLine \/ PartialHeader \/ OtherHeader \/ HostHeader
    \/ LengthHeader \/ BadHeader \/ EndTooLong \/ EndMatchesApp \/ EndOfReq
    \/ BackendConnectOk \/ BackendConnectFail

Spec == Init /\ [][Next]_vars

----------------------------------------------------------------------------
(* Properties                                                              *)

Tokens == {sent[i] : i \in DOMAIN sent} \cup {Junk}

\* Every variable has its type.
TypeOK ==
    /\ phase \in Phase /\ {post, host, matched_app} \subseteq BOOLEAN
    /\ content_length \in Nat
    /\ \A s \in {wire, whole, rest, req, partial_buf, saved, out} :
          \A i \in DOMAIN s : s[i] \in Tokens

\* However TCP cuts the stream, the backend gets the client's bytes in their order,
\* none twice and none left out.
InOrder == IsPrefix(out, sent)

\* No segment has ended inside the head of a request so far: nothing was kept for
\* the next one.  What follows holds as long as that is so.
NoHeadCut == partial_buf = <<>>

\* Segments that end in bodies or between requests leave the order as it is.
InOrderUncut == NoHeadCut => InOrder

\* Nothing is held back: when all is received and parsed, all is forwarded, and the
\* next byte would start a request.
AllForwarded ==
    NoHeadCut /\ phase = "recv" /\ wire = <<>> => out = sent /\ content_length = 0

\* The frontend and its client agree on what is a body: no byte of a body is parsed,
\* no byte of a head is counted as a body.
Synchronised ==
    NoHeadCut =>
    /\ phase \in {"line", "headers"} /\ rest # <<>> => rest[1].kind # "body"
    /\ phase = "recv" /\ wire # <<>> => (content_length > 0 <=> wire[1].kind = "body")
============================================================================
