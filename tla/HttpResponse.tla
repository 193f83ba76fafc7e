---------------------------- MODULE HttpResponse ----------------------------
(***************************************************************************)
(* What a connection writes in answer to the requests it reads             *)
(* (http_response.h, http_connection.h): one response object serves every  *)
(* request of the connection, and its flags for HEAD outlive a clear().    *)
(* A body is a sequence of bytes.  The peer reads what is written; a peer  *)
(* that goes away is in HttpServer.                                        *)
(***************************************************************************)
EXTENDS Integers, Sequences, SequencesExt

CONSTANTS Threshold,  \* stream_threshold: a longer body is sent in pieces
          Piece       \* the size of a piece

\* No Content-Length header was set.
NoLength == -1

Response(code, body) == [code |-> code, body |-> body]

\* The connection: its response (`static' when file_info has a path, `content'
\* being the file), whether end() has a handler to call, whether it reads on,
\* and what it has written.
Connection ==
    [code |-> 200, body |-> <<>>, length |-> NoLength, completed |-> FALSE, skip |-> FALSE,
     manual |-> FALSE, static |-> FALSE, content |-> <<>>, handler |-> FALSE, open |-> TRUE, out |-> <<>>]

\* res = response(...): the flags of HEAD are not assigned.
Assign(c, r) == [c EXCEPT !.code = r.code, !.body = r.body, !.length = NoLength, !.completed = FALSE,
                          !.static = FALSE]

\* response::clear, which leaves them too.
Clear(c) == Assign(c, Response(200, <<>>))

\* The codes that have a status line, and its text, as one byte: the body of
\* an error without one.
StatusCodes ==
    {100, 101, 428, 429, 451, 506} \cup (200 .. 206) \cup (300 .. 304) \cup {307, 308}
    \cup (400 .. 417 \ {402, 408, 411, 412, 414}) \cup (500 .. 504)
StatusText == <<0>>

\* prepare_buffers: the status line and the headers.
PrepareBuffers(c) ==
    LET code == IF c.code \in StatusCodes THEN c.code ELSE 500
        body == IF code >= 400 /\ c.body = <<>> THEN StatusText ELSE c.body
        size == IF c.manual \/ c.length # NoLength THEN c.length ELSE Len(body)
    IN [c EXCEPT !.handler = FALSE, !.code = code, !.body = body,
                 !.out = Append(@, [code |-> code, length |-> size, body |-> <<>>])]

\* do_write_sync of body bytes.
DoWriteSync(c, bytes) ==
    LET n == Len(c.out) IN Clear([c EXCEPT !.out[n].body = @ \o bytes])

\* The pieces of `first', the later ones from `rest'.
WritePieces(c, first, rest) ==
    LET count == (Len(first) + Piece - 1) \div Piece
        Bytes(i) == SubSeq(IF i = 1 THEN first ELSE rest, (i - 1) * Piece + 1,
                           IF i * Piece < Len(first) THEN i * Piece ELSE Len(first))
    IN FoldLeft(LAMBDA d, i : DoWriteSync(d, Bytes(i)), c, [i \in 1 .. count |-> i])

\* What end() does to a response before it is sent.
Ended(c) ==
    IF c.skip THEN [c EXCEPT !.completed = TRUE, !.length = Len(c.body), !.body = <<>>, !.manual = TRUE]
    ELSE [c EXCEPT !.completed = TRUE]

\* A body that is long is written from the memory of the string, which
\* do_write_sync clears after each piece: that zeroes its first byte.
DoWriteGeneral(c) ==
    IF Len(c.body) < Threshold THEN DoWriteSync(c, c.body)
    ELSE Clear(Ended(WritePieces(c, c.body, [c.body EXCEPT ![1] = 0])))

DoWriteStatic(c) ==
    LET d == WritePieces(c, c.content, c.content)
    IN Clear(IF d.completed THEN d ELSE Ended(d))

CompleteRequest(c) ==
    LET d == PrepareBuffers(c) IN IF d.static THEN DoWriteStatic(d) ELSE DoWriteGeneral(d)

\* response::end.
End(c) ==
    CASE c.completed -> c
      [] c.handler -> [CompleteRequest(Ended(c)) EXCEPT !.manual = FALSE, !.skip = FALSE]
      [] OTHER -> Ended(c)

----------------------------------------------------------------------------
(* A request is its method, whether it is HTTP/1.1, has a Host and expects *)
(* a 100, and what comes of it: `refusal' is the code when no rule has its *)
(* URL (0 when one has), `answer' what the rule's handler returns, if it   *)
(* does not throw, or the file when the rule is that of /static/.          *)

\* handle_initial: HEAD asks for no body; without a rule the answer is ready.
HandleInitial(c, req) ==
    IF req.refusal # 0 THEN End(Assign(c, Response(req.refusal, <<>>)))
    ELSE [c EXCEPT !.skip = @ \/ req.method = "HEAD"]

\* handle_url: without a rule the answer is written, and parser_.done() has
\* ended the reading.
HandleUrl(c, req) ==
    LET d == HandleInitial(c, req)
    IN IF req.refusal = 0 THEN d ELSE CompleteRequest([d EXCEPT !.open = FALSE])

\* handle_header: the interim answer goes through do_write_sync as well.
HandleHeader(c, req) ==
    IF req.v11 /\ req.expects
    THEN DoWriteSync([c EXCEPT !.out = Append(@, [code |-> 100, length |-> NoLength, body |-> <<>>])], <<>>)
    ELSE c

\* What the router answers for a handler that throws.
ExceptionAnswer == Response(500, <<>>)

\* The handler's response is assigned, and ended.
RuleAnswer(c, req) == End(Assign(c, IF req.throws THEN ExceptionAnswer ELSE req.answer))

\* set_static_file_info_unsafe, for a file (200) or none (404): it fills in
\* the response of the connection.
SetStaticFile(c, file) ==
    IF file.code = 200
    THEN [c EXCEPT !.code = 200, !.length = Len(file.body), !.static = TRUE, !.content = file.body]
    ELSE [c EXCEPT !.code = 404]

\* The handler of /static/.
StaticAnswer(c, req) == End(SetStaticFile(c, req.answer))

\* Connection::handle: a 400 is written without end().
Handle(c, req) ==
    IF req.v11 /\ ~req.host THEN CompleteRequest(Assign(c, Response(400, <<>>)))
    ELSE LET d == [c EXCEPT !.handler = TRUE]
         IN IF req.static THEN StaticAnswer(d, req) ELSE RuleAnswer(d, req)

\* One request, from its URL to its last byte.
Serve(c, req) ==
    LET d == HandleUrl(c, req)
    IN IF ~c.open THEN c ELSE IF ~d.open THEN d ELSE Handle(HandleHeader(d, req), req)

\* The handlers of / and /api/info: a client that has the page gets a 304.
ServeCached(etag, ifNoneMatch, page) ==
    IF ifNoneMatch # "" /\ ifNoneMatch = etag THEN Response(304, <<>>) ELSE Response(200, page)

=============================================================================
