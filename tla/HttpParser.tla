----------------------------- MODULE HttpParser -----------------------------
(***************************************************************************)
(* How the bytes of a connection become requests: http_parser_execute of   *)
(* src/src/crowlib/crow/http_parser_merged.h, and the HTTPParser that is   *)
(* its callbacks (src/src/crowlib/crow/parser.h).  A chunk is what one     *)
(* read of the socket returned; the parser keeps its state from one chunk  *)
(* to the next, while the marks that say where a URL, a header or a body   *)
(* began live in one call, and what they mark is reported at its end.      *)
(*                                                                         *)
(* Characters are strings of length one.  The matchers that compare a      *)
(* method or a header's name letter by letter are a comparison of the      *)
(* letters read so far with the words they look for.  Runs of header       *)
(* characters, which the code skips in inner loops, are taken one by one.  *)
(***************************************************************************)
EXTENDS Integers, Sequences, FiniteSets, SequencesExt, Text

CONSTANTS MaxHeader,    \* max_header_size (80 KiB)
          Ullong,       \* CROW_ULLONG_MAX, the largest content_length
          Routes        \* the URLs handle_initial finds a rule for

CR == "\r"
LF == "\n"
Blank == {" ", "\t"}
Token == Alpha \cup Num \cup CharSet("!#$%&'*+-.^_|~")   \* and the grave accent, which no input has
\* The characters that CROW_LOWER, which sets bit 0x20 of every character, makes
\* a token of: `_' is none any more, `@' and `\' are, and a tab is a bracket, no
\* blank.
LowersToToken == (Token \ {"_"}) \cup {"@", "\\"}
UserInfo == Alpha \cup Num \cup CharSet("-_.!~*'()%;:&=+$,")
UrlChar == (Token \ {"#"}) \cup CharSet("\"(),/:;<=>@[\\]{}")
HeaderChar == UrlChar \cup CharSet(" \t#?")

MethodStrings ==
    {Chars(m) : m \in {"DELETE", "GET", "HEAD", "POST", "PUT", "CONNECT", "OPTIONS", "TRACE",
        "PATCH", "PURGE", "COPY", "LOCK", "MKCOL", "MOVE", "PROPFIND", "PROPPATCH", "SEARCH",
        "UNLOCK", "BIND", "REBIND", "UNBIND", "ACL", "REPORT", "MKACTIVITY", "CHECKOUT", "MERGE",
        "M-SEARCH", "NOTIFY", "SUBSCRIBE", "UNSUBSCRIBE", "MKCALENDAR", "LINK", "UNLINK", "SOURCE"}}
MethodPrefixes == UNION {{SubSeq(m, 1, n) : n \in 1 .. Len(m)} : m \in MethodStrings}

\* The words that the parser and the connection look for.
ChunkedWord == Chars("chunked")
KeepAliveWord == Chars("keep-alive")
CloseWord == Chars("close")
HostWord == Chars("host")
UpgradeWord == Chars("upgrade")
LengthWord == Chars("content-length")
EncodingWord == Chars("transfer-encoding")
ConnectionWords == {Chars("connection"), Chars("proxy-connection")}
ConnectMethod == Chars("CONNECT")
GetMethod == Chars("GET")
SourceMethod == Chars("SOURCE")

----------------------------------------------------------------------------
(* The parser.  `name' stands for header_state and index while a header's  *)
(* name is read.  `mark' and `text' are the mark that is set and what it   *)
(* marked in this chunk, `pos' is where the chunk is read, `start' where *)
(* url_start_mark points, 0 if it is null, and `out' are the requests that *)
(* were handed to the connection.                                          *)

NoReq == [url |-> <<>>, raw |-> <<>>, headers |-> <<>>, body |-> <<>>]

Parser ==
    [state |-> "start_req", hstate |-> "general", index |-> 0, name |-> <<>>, flags |-> {},
     usesTE |-> FALSE, nread |-> 0, length |-> Ullong, qs |-> 0, major |-> 0, minor |-> 0,
     method |-> <<>>, errno |-> "OK", upgrade |-> FALSE,
     req |-> NoReq, field |-> <<>>, value |-> <<>>, building |-> 0, complete |-> FALSE,
     mark |-> "", text |-> <<>>, pos |-> 0, start |-> 0, stop |-> FALSE, ok |-> TRUE, out |-> <<>>]

Beyond == 1000000       \* p - url_mark with a null mark: past the end of any URL

Go(s, state) == [s EXCEPT !.state = state]
Fail(s, errno) == [s EXCEPT !.errno = errno]
Mark(s, mark) == IF s.mark = "" THEN [s EXCEPT !.mark = mark, !.text = <<>>] ELSE s
Take(s, ch) == [s EXCEPT !.text = Append(@, ch)]
Unmark(s) == [s EXCEPT !.mark = "", !.text = <<>>]

\* HTTPParser::clear.
Clear(s) == [s EXCEPT !.req = NoReq, !.field = <<>>, !.value = <<>>, !.building = 0, !.qs = 0,
                      !.complete = FALSE, !.state = "start_req"]

\* on_url and handle_url: the URL as far as it is known is routed.  Without
\* a rule the request is answered at once, and done() finds the parser in
\* the middle of a message.
OnUrl(s) ==
    LET raw == s.req.raw \o s.text
        url == IF s.qs # 0 THEN SubSeq(raw, 1, IF s.qs < Len(raw) THEN s.qs ELSE Len(raw)) ELSE raw
        t   == [s EXCEPT !.req.raw = raw, !.req.url = url]
    IN IF url \in Routes THEN t
       ELSE Fail(Clear([t EXCEPT !.out = Append(@, [status |-> 404, url |-> url])]),
                 "INVALID_EOF_STATE")

\* on_header_field: a new name files the header before it, unless that
\* header's value is empty.
OnHeaderField(s) ==
    IF s.building = 1 THEN [s EXCEPT !.field = @ \o s.text]
    ELSE [s EXCEPT !.req.headers = IF s.value = <<>> THEN @ ELSE Append(@, <<s.field, s.value>>),
                   !.value = <<>>, !.field = s.text, !.building = 1]

OnHeaderValue(s) ==
    [s EXCEPT !.value = (IF s.building = 1 THEN <<>> ELSE @) \o s.text, !.building = 0]

OnBody(s) == [s EXCEPT !.req.body = @ \o s.text]

\* CROW_CALLBACK_DATA for the mark that is set, if it is the named one.
Data(s, mark) ==
    IF s.mark # mark \/ mark = "" THEN s
    ELSE Unmark(CASE mark = "url" -> OnUrl(s)
                  [] mark = "field" -> OnHeaderField(s)
                  [] mark = "value" -> OnHeaderValue(s)
                  [] mark = "body" -> OnBody(s))

\* on_headers_complete, which files the last header, and
\* set_connection_parameters.
OnHeadersComplete(s) ==
    LET v10 == s.major = 1 /\ s.minor = 0
        v11 == s.major = 1 /\ s.minor = 1
        all == IF s.field = <<>> THEN s.req.headers ELSE Append(s.req.headers, <<s.field, s.value>>)
    IN [s EXCEPT !.field = <<>>, !.value = <<>>,
          !.req = [url |-> s.req.url, raw |-> s.req.raw, headers |-> all, body |-> s.req.body,
                   keepAlive |-> IF v10 THEN "KEEP_ALIVE" \in s.flags ELSE v11,
                   close |-> IF v10 THEN "KEEP_ALIVE" \notin s.flags ELSE v11 /\ "CLOSE" \in s.flags,
                   upgrade |-> s.upgrade]]

Values(s, name) ==
    {s.req.headers[i][2] : i \in {j \in DOMAIN s.req.headers : LowerAll(s.req.headers[j][1]) = name}}
Http2(s) == \E v \in Values(s, UpgradeWord) : IsPrefix(<<"h", "2">>, v)

\* on_message_complete and Connection::handle, as far as the parser sees it:
\* an upgraded connection leaves the parser as it is, a response clears it.
OnMessageComplete(s) ==
    LET v11  == s.major = 1 /\ s.minor = 1
        host == v11 => Values(s, HostWord) # {}
        keeps == v11 /\ host /\ s.req.upgrade /\ ~Http2(s)
        t == [s EXCEPT !.out = Append(@, [status |-> IF ~host THEN 400 ELSE IF keeps THEN 101 ELSE 200,
                                          url |-> s.req.url, method |-> s.method,
                                          headers |-> s.req.headers, body |-> s.req.body,
                                          close |-> s.req.close]),
                       !.complete = TRUE]
    IN IF keeps THEN t ELSE Clear(t)

----------------------------------------------------------------------------
(* One character in each state.                                            *)

RECURSIVE Step(_, _, _)

StartReq(s, ch) ==
    IF ch \in {CR, LF} THEN s
    ELSE LET t == [s EXCEPT !.flags = {}, !.usesTE = FALSE, !.length = Ullong, !.method = <<ch>>]
         IN IF <<ch>> \in MethodPrefixes THEN Go(t, "req_method") ELSE Fail(t, "INVALID_METHOD")

ReqMethod(s, ch) ==
    IF ch = " " /\ s.method \in MethodStrings THEN Go(s, "req_spaces_before_url")
    ELSE IF Append(s.method, ch) \in MethodPrefixes THEN [s EXCEPT !.method = Append(@, ch)]
    ELSE Fail(s, "INVALID_METHOD")

\* parse_url_char: the next state, "dead" if the character cannot follow.
ParseUrlChar(state, ch) ==
    CASE state = "req_spaces_before_url" ->
           IF ch \in {"/", "*"} THEN "req_path" ELSE IF ch \in Alpha THEN "req_schema" ELSE "dead"
      [] state = "req_schema" ->
           IF ch \in Alpha THEN state ELSE IF ch = ":" THEN "req_schema_slash" ELSE "dead"
      [] state = "req_schema_slash" -> IF ch = "/" THEN "req_schema_slash_slash" ELSE "dead"
      [] state = "req_schema_slash_slash" -> IF ch = "/" THEN "req_server_start" ELSE "dead"
      [] state \in {"req_server_start", "req_server", "req_server_with_at"} ->
           CASE ch = "/" -> "req_path"
             [] ch = "?" -> "req_query_string_start"
             [] ch = "@" -> IF state = "req_server_with_at" THEN "dead" ELSE "req_server_with_at"
             [] ch \in UserInfo \cup {"[", "]"} -> "req_server"
             [] OTHER -> "dead"
      [] state = "req_path" ->
           IF ch \in UrlChar THEN state ELSE IF ch = "?" THEN "req_query_string_start" ELSE "dead"
      [] OTHER -> IF ch \in UrlChar \cup {"?"} THEN "req_query_string" ELSE "dead"

\* The offset of the query.  Its base is the first URL that began in this
\* chunk, or null.
QueryPoint(s) == IF s.start = 0 THEN Beyond ELSE s.pos - s.start

UrlChars(s, ch) ==
    LET next == ParseUrlChar(s.state, ch)
        first == next = "req_query_string_start"
    IN IF next = "dead" THEN Fail(s, "INVALID_URL")
       ELSE Take([s EXCEPT !.state = next, !.qs = IF first THEN QueryPoint(s) ELSE @], ch)

BeforeUrl(s, ch) ==
    IF ch = " " THEN s
    ELSE LET t == IF s.method = ConnectMethod THEN Go(s, "req_server_start") ELSE s
         IN UrlChars([Mark(t, "url") EXCEPT !.start = IF @ = 0 THEN s.pos ELSE @], ch)

\* No white space in a schema; after it a blank ends the URL, and a line end
\* means HTTP/0.9.
Url(s, ch) ==
    LET early == s.state \in {"req_schema", "req_schema_slash", "req_schema_slash_slash", "req_server_start"} IN
    CASE ch \in {" ", CR, LF} /\ early -> Fail(s, "INVALID_URL")
      [] ch = " " /\ ~early -> Data(Go(s, "req_http_start"), "url")
      [] ch \in {CR, LF} /\ ~early ->
           IF s.method # GetMethod THEN Fail(s, "INVALID_VERSION")
           ELSE Data([s EXCEPT !.major = 0, !.minor = 9,
                        !.state = IF ch = CR THEN "req_line_almost_done" ELSE "header_field_start"], "url")
      [] OTHER -> UrlChars(s, ch)

\* The protocol's name, letter by letter; SOURCE requests may say ICE.
NameStates ==
    [req_http_H |-> <<"T", "req_http_HT">>, req_http_HT |-> <<"T", "req_http_HTT">>,
     req_http_HTT |-> <<"P", "req_http_HTTP">>, req_http_I |-> <<"C", "req_http_IC">>,
     req_http_IC |-> <<"E", "req_http_HTTP">>, req_http_HTTP |-> <<"/", "req_http_major">>]

HttpVersion(s, ch) ==
    CASE s.state = "req_http_start" ->
           CASE ch = " " -> s
             [] ch = "H" -> Go(s, "req_http_H")
             [] ch = "I" /\ s.method = SourceMethod -> Go(s, "req_http_I")
             [] OTHER -> Fail(s, "INVALID_CONSTANT")
      [] s.state \in DOMAIN NameStates ->
           IF ch = NameStates[s.state][1] THEN Go(s, NameStates[s.state][2]) ELSE Fail(s, "STRICT")
      [] s.state = "req_http_major" ->
           IF ch \in Num THEN [s EXCEPT !.major = Unhex(ch), !.state = "req_http_dot"]
           ELSE Fail(s, "INVALID_VERSION")
      [] s.state = "req_http_dot" ->
           IF ch = "." THEN Go(s, "req_http_minor") ELSE Fail(s, "INVALID_VERSION")
      [] s.state = "req_http_minor" ->
           IF ch \in Num THEN [s EXCEPT !.minor = Unhex(ch), !.state = "req_http_end"]
           ELSE Fail(s, "INVALID_VERSION")
      [] s.state = "req_http_end" ->
           CASE ch = CR -> Go(s, "req_line_almost_done")
             [] ch = LF -> Go(s, "header_field_start")
             [] OTHER -> Fail(s, "INVALID_VERSION")
      [] s.state = "req_line_almost_done" ->
           IF ch = LF THEN Go(s, "header_field_start") ELSE Fail(s, "LF_EXPECTED")

HeaderFieldStart(s, ch, next) ==
    CASE ch = CR -> Go(s, "headers_almost_done")
      [] ch = LF -> Step(Go(s, "headers_almost_done"), ch, next)
      [] ch \in Token -> Take(Mark([s EXCEPT !.state = "header_field", !.name = <<Lower(ch)>>], "field"), ch)
      [] OTHER -> Fail(s, "INVALID_HEADER_TOKEN")

\* The header_state at the end of a name.
HeaderState(name) ==
    CASE name \in ConnectionWords -> "connection"
      [] name = LengthWord -> "content_length"
      [] name = EncodingWord -> "transfer_encoding"
      [] name = UpgradeWord -> "upgrade"
      [] OTHER -> "general"

HeaderField(s, ch) ==
    LET name == Append(s.name, Lower(ch)) IN
    CASE ch \in Token ->
           Take([s EXCEPT !.name = name, !.usesTE = @ \/ name = EncodingWord], ch)
      [] ch = ":" ->
           Data([s EXCEPT !.state = "header_value_discard_ws", !.hstate = HeaderState(s.name)], "field")
      [] OTHER -> Fail(s, "INVALID_HEADER_TOKEN")

\* header_value_start.  Whether `Upgrade: h2...' is an upgrade depends on the
\* next character, if the chunk has one.
HeaderValueStart(s, ch, next) ==
    LET c == Lower(ch)
        t == Take(Mark([s EXCEPT !.state = "header_value", !.index = 0], "value"), ch)
    IN CASE s.hstate = "upgrade" ->
              [t EXCEPT !.hstate = "general",
                        !.flags = IF ch = "h" /\ next = "2" THEN @ ELSE @ \cup {"UPGRADE"}]
         [] s.hstate = "transfer_encoding" ->
              [t EXCEPT !.hstate = IF c = "c" THEN "matching_chunked" ELSE "matching_token"]
         [] s.hstate = "content_length" ->
              IF ch \notin Num THEN Fail(s, "INVALID_CONTENT_LENGTH")
              ELSE IF "CONTENTLENGTH" \in s.flags THEN Fail(s, "UNEXPECTED_CONTENT_LENGTH")
              ELSE [t EXCEPT !.hstate = "content_length_num", !.length = Unhex(ch),
                             !.flags = @ \cup {"CONTENTLENGTH"}]
         [] s.hstate = "connection" ->
              [t EXCEPT !.hstate = IF c = "k" THEN "matching_keep_alive"
                                   ELSE IF c = "c" THEN "matching_close" ELSE "general"]
         [] s.hstate \in {"matching_token_start", "content_length_ws"} -> t
         [] OTHER -> [t EXCEPT !.hstate = "general"]

\* Blanks and empty lines before a value; a value that never comes is empty.
HeaderValueDiscard(s, ch, next) ==
    CASE s.state = "header_value_discard_ws" ->
           CASE ch \in Blank -> s
             [] ch = CR -> Go(s, "header_value_discard_ws_almost_done")
             [] ch = LF -> Go(s, "header_value_discard_lws")
             [] OTHER -> HeaderValueStart(s, ch, next)
      [] s.state = "header_value_discard_ws_almost_done" ->
           IF ch = LF THEN Go(s, "header_value_discard_lws") ELSE Fail(s, "STRICT")
      [] s.state = "header_value_discard_lws" ->
           IF ch \in Blank THEN Go(s, "header_value_discard_ws")
           ELSE Step(Data(Mark(Go(s, "header_field_start"), "value"), "value"), ch, next)

\* Mutant of AddDigit: no test for overflow.
AddDigitWrap(s, base, d) == [s EXCEPT !.length = (base * @ + d) % (Ullong + 1)]

\* A digit more of a length, in 64 bits, unless it might overflow.
AddDigit(s, base, d) ==
    IF (Ullong - base) \div base < s.length THEN Fail(s, "INVALID_CONTENT_LENGTH")
    ELSE [s EXCEPT !.length = (base * @ + d) % (Ullong + 1)]

\* One more letter of a word: goes on, has it, or is another word.
Match(s, word, c, has, other) ==
    LET i == s.index + 1 IN
    [s EXCEPT !.index = i,
              !.hstate = IF i >= Len(word) \/ c # word[i + 1] THEN other
                         ELSE IF i = Len(word) - 1 THEN has ELSE @]

\* The header_states inside a value.
ValueState(s, ch) ==
    LET c == Lower(ch)
        To(h) == [s EXCEPT !.hstate = h]
    IN CASE s.hstate = "content_length_num" ->
              IF ch = " " THEN To("content_length_ws")
              ELSE IF ch \in Num THEN AddDigit(s, 10, Unhex(ch)) ELSE Fail(s, "INVALID_CONTENT_LENGTH")
         [] s.hstate = "content_length_ws" -> IF ch = " " THEN s ELSE Fail(s, "INVALID_CONTENT_LENGTH")
         [] s.hstate = "matching_token_start" ->
              CASE c = "c" -> To("matching_chunked")
                [] ch \in LowersToToken /\ c # "c" -> To("matching_token")
                [] ch = " " -> s
                [] OTHER -> To("general")
         [] s.hstate = "matching_chunked" -> Match(s, ChunkedWord, c, "chunked", "matching_token")
         [] s.hstate = "matching_token" ->
              IF ch = "," THEN [s EXCEPT !.hstate = "matching_token_start", !.index = 0] ELSE s
         [] s.hstate = "matching_keep_alive" -> Match(s, KeepAliveWord, c, "keep_alive", "general")
         [] s.hstate = "matching_close" -> Match(s, CloseWord, c, "close", "general")
         [] s.hstate = "chunked" -> IF ch = " " THEN s ELSE To("matching_token")
         [] s.hstate \in {"keep_alive", "close"} -> IF ch = " " THEN s ELSE To("general")
         [] OTHER -> To("general")

HeaderValue(s, ch, next) ==
    CASE ch = CR -> Data(Go(s, "header_almost_done"), "value")
      [] ch = LF -> Step(Data(Go(s, "header_almost_done"), "value"), ch, next)
      [] ch \in HeaderChar -> Take(ValueState(s, ch), ch)
      [] OTHER -> Fail(s, "INVALID_HEADER_TOKEN")

\* After a value's line: it is folded, or its header is done.
HeaderValueLws(s, ch, next) ==
    IF ch \in Blank
    THEN Step([s EXCEPT !.state = "header_value_start",
                        !.hstate = IF @ = "content_length_num" THEN "content_length_ws" ELSE @], ch, next)
    ELSE Step([s EXCEPT !.state = "header_field_start",
                        !.flags = CASE s.hstate = "keep_alive" -> @ \cup {"KEEP_ALIVE"}
                                    [] s.hstate = "close" -> @ \cup {"CLOSE"}
                                    [] s.hstate = "chunked" -> @ \cup {"CHUNKED"}
                                    [] OTHER -> @], ch, next)

HeadersAlmostDone(s, ch, next) ==
    CASE ch # LF -> Fail(s, "STRICT")
      [] "TRAILING" \in s.flags -> OnMessageComplete(s)
      [] s.usesTE /\ "CONTENTLENGTH" \in s.flags -> Fail(s, "UNEXPECTED_CONTENT_LENGTH")
      [] OTHER ->
           LET up == "UPGRADE" \in s.flags \/ s.method = ConnectMethod
           IN Step(OnHeadersComplete([s EXCEPT !.state = "headers_done", !.upgrade = up]), ch, next)

\* How the body is framed; after an upgrade the rest is not HTTP.
HeadersDone(s) ==
    LET t == [s EXCEPT !.nread = 0] IN
    CASE s.upgrade -> [OnMessageComplete(t) EXCEPT !.stop = TRUE]
      [] "CHUNKED" \in s.flags -> Go(t, "chunk_size_start")
      [] s.usesTE -> Fail(t, "INVALID_TRANSFER_ENCODING")
      [] s.length \in {0, Ullong} -> OnMessageComplete(t)
      [] OTHER -> Go(t, "body_identity")

BodyIdentity(s, ch) ==
    LET t == [Take(Mark(s, "body"), ch) EXCEPT !.length = @ - 1]
    IN IF t.length = 0 THEN OnMessageComplete(Data(Go(t, "message_done"), "body")) ELSE t

ChunkSize(s, ch) ==
    LET d == Unhex(ch) IN
    CASE s.state = "chunk_size_start" ->
           IF d < 0 THEN Fail(s, "INVALID_CHUNK_SIZE") ELSE [s EXCEPT !.length = d, !.state = "chunk_size"]
      [] s.state = "chunk_size" ->
           CASE ch = CR -> Go(s, "chunk_size_almost_done")
             [] ch \in {";", " "} -> Go(s, "chunk_parameters")
             [] d >= 0 -> AddDigit(s, 16, d)
             [] OTHER -> Fail(s, "INVALID_CHUNK_SIZE")
      [] s.state = "chunk_parameters" -> IF ch = CR THEN Go(s, "chunk_size_almost_done") ELSE s
      [] s.state = "chunk_size_almost_done" ->
           CASE ch # LF -> Fail(s, "STRICT")
             [] s.length = 0 -> [s EXCEPT !.nread = 0, !.flags = @ \cup {"TRAILING"},
                                          !.state = "header_field_start"]
             [] OTHER -> [s EXCEPT !.nread = 0, !.state = "chunk_data"]

ChunkData(s, ch) ==
    CASE s.state = "chunk_data" ->
           LET t == [Take(Mark(s, "body"), ch) EXCEPT !.length = @ - 1]
           IN IF t.length = 0 THEN Go(t, "chunk_data_almost_done") ELSE t
      [] s.state = "chunk_data_almost_done" ->
           IF ch = CR THEN Data(Go(s, "chunk_data_done"), "body") ELSE Fail(s, "STRICT")
      [] s.state = "chunk_data_done" ->
           IF ch = LF THEN [s EXCEPT !.nread = 0, !.state = "chunk_size_start"] ELSE Fail(s, "STRICT")

UrlStates == {"req_schema", "req_schema_slash", "req_schema_slash_slash", "req_server_start", "req_server",
              "req_server_with_at", "req_path", "req_query_string_start", "req_query_string"}
ChunkSizeStates == {"chunk_size_start", "chunk_size", "chunk_parameters", "chunk_size_almost_done"}
ChunkDataStates == {"chunk_data", "chunk_data_almost_done", "chunk_data_done"}
DiscardStates == {"header_value_discard_ws", "header_value_discard_ws_almost_done", "header_value_discard_lws"}

\* The switch on the state; `next' is the character after ch in the chunk.
Step(s, ch, next) ==
    CASE s.state = "start_req" -> StartReq(s, ch)
      [] s.state = "req_method" -> ReqMethod(s, ch)
      [] s.state = "req_spaces_before_url" -> BeforeUrl(s, ch)
      [] s.state \in UrlStates -> Url(s, ch)
      [] s.state = "header_field_start" -> HeaderFieldStart(s, ch, next)
      [] s.state = "header_field" -> HeaderField(s, ch)
      [] s.state \in DiscardStates -> HeaderValueDiscard(s, ch, next)
      [] s.state = "header_value_start" -> HeaderValueStart(s, ch, next)
      [] s.state = "header_value" -> HeaderValue(s, ch, next)
      [] s.state = "header_almost_done" ->
           IF ch = LF THEN Go(s, "header_value_lws") ELSE Fail(s, "LF_EXPECTED")
      [] s.state = "header_value_lws" -> HeaderValueLws(s, ch, next)
      [] s.state = "headers_almost_done" -> HeadersAlmostDone(s, ch, next)
      [] s.state = "headers_done" -> HeadersDone(s)
      [] s.state = "body_identity" -> BodyIdentity(s, ch)
      [] s.state \in ChunkSizeStates -> ChunkSize(s, ch)
      [] s.state \in ChunkDataStates -> ChunkData(s, ch)
      [] OTHER -> HttpVersion(s, ch)

\* CROW_COUNT_HEADER_SIZE: every character outside a body counts.
CountHeaderSize(s) ==
    IF s.state \in ChunkDataStates \cup {"body_identity"} THEN s
    ELSE IF s.nread + 1 > MaxHeader THEN Fail([s EXCEPT !.nread = @ + 1], "HEADER_OVERFLOW")
    ELSE [s EXCEPT !.nread = @ + 1]

RECURSIVE Loop(_, _, _, _)
\* The loop over positions lo to hi of the chunk, in two halves; an error or
\* an upgrade ends it.
Loop(s, chunk, lo, hi) ==
    IF s.errno # "OK" \/ s.stop THEN s
    ELSE IF lo < hi
    THEN LET mid == (lo + hi) \div 2 IN Loop(Loop(s, chunk, lo, mid), chunk, mid + 1, hi)
    ELSE LET t == CountHeaderSize([s EXCEPT !.pos = lo])
         IN IF t.errno # "OK" THEN t
            ELSE Step(t, chunk[lo], IF lo < Len(chunk) THEN chunk[lo + 1] ELSE "")

\* http_parser_execute: what is still marked at the end is reported, and all
\* of the chunk was read unless an upgrade ended it.
Execute(s, chunk) ==
    LET t == Loop(s, chunk, 1, Len(chunk))
    IN IF t.errno # "OK" THEN t
       ELSE IF t.stop THEN [t EXCEPT !.ok = (t.pos = Len(chunk))]
       ELSE Data(t, t.mark)

\* Mutant of Marked: a value that goes on in the next chunk is not marked.
MarkedFieldOnly(s) ==
    [s EXCEPT !.mark = IF s.state = "header_field" THEN "field" ELSE "",
              !.text = <<>>, !.start = 0, !.stop = FALSE]

\* The marks that a chunk begins with.
Marked(s) ==
    LET mark == CASE s.state = "header_field" -> "field"
                  [] s.state = "header_value" -> "value"
                  [] s.state \in UrlStates -> "url"
                  [] OTHER -> ""
    IN [s EXCEPT !.mark = mark, !.text = <<>>, !.start = 0, !.stop = FALSE]

\* feed: nothing more is parsed once a message is complete and not cleared,
\* and after an error; ok is its result.
Feed(s, chunk) ==
    IF s.complete THEN [s EXCEPT !.ok = TRUE]
    ELSE IF s.errno # "OK" THEN [s EXCEPT !.ok = FALSE]
    ELSE LET t == Execute(Marked([s EXCEPT !.ok = TRUE]), chunk)
         IN [t EXCEPT !.ok = @ /\ t.errno = "OK"]

=============================================================================
