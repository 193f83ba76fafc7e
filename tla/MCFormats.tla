------------------------------ MODULE MCFormats ------------------------------
(***************************************************************************)
(* Checks of the conversions: what is written is read back, and what the   *)
(* code computes is what a definition that does not follow it says.  `job' *)
(* is one conversion, its input and its result; every behaviour is one     *)
(* conversion.  The inputs are small, with the boundaries of the code      *)
(* among them.  Those of base64, file names and digests are in Conversions. *)
(***************************************************************************)
EXTENDS Integers, Sequences, FiniteSets, SequencesExt, Text, Conversions

CONSTANTS MaxHeader, Ullong, MaxDepth, MaxPayload, MaxLine, MaxName, MaxPairs, Threshold, Piece

R == INSTANCE Router

----------------------------------------------------------------------------
(* Routes: the tables, methods and URLs, and the rule that should answer.  *)

Get(url) == [methods |-> {"GET"}, url |-> url]
Rule(method, url) == [methods |-> {method}, url |-> url]

\* The routes of the program (setupRoutes, add_static_dir).
Program ==
    <<Get(Chars("/")), Get(Chars("/api/pow_challenge")), Get(Chars("/api/info")),
      Get(Chars("/api/version")), Rule("POST", Chars("/api/rooms")),
      Rule("POST", Chars("/api/rooms/") \o <<"<string>">> \o Chars("/activate")),
      Rule("DELETE", Chars("/api/rooms/") \o <<"<string>">>),
      Rule("POST", Chars("/api/is_alive")), Get(Chars("/ws")),
      Get(Chars("/static/") \o <<"<path>">>)>>
ProgramUrls ==
    {Chars(u) : u \in {"/", "/api", "/api/info", "/api/rooms", "/api/rooms/", "/api/rooms/1",
                       "/api/rooms/1/activate", "/api/rooms/1/activat", "/api/is_alive",
                       "/ws", "/static/a/0", "/static/", "/*"}}

\* Tables in which rules overlap.
Overlapping ==
    {<<Get(<<"/", "<int>">>), Get(<<"/", "<string>">>), Get(<<"/", "<path>">>)>>,
     <<Get(<<"/", "<path>">>), Get(<<"/", "1", "/", "a">>), Rule("POST", <<"/", "1">>)>>,
     <<Get(<<"/", "a", "/">>), Get(<<"/", "<string>">>), Rule("HEAD", <<"/", "a">>)>>,
     <<Get(<<"/", "a">>), Get(<<"/", "a", "1">>), Get(<<"/", "a", "<uint>", "/", "<double>">>)>>,
     <<Get(<<"/", "1", "/", "<string>", "/", "a">>), Rule("POST", <<"/", "<double>", "a">>),
       Get(<<"/", "<string>", "/", "<int>">>)>>}
ShortUrls == UNION {{<<"/">> \o s : s \in [1 .. n -> {"a", "1", "/", "-"}]} : n \in 0 .. 4}

RECURSIVE ParamsOf(_, _)
\* The ways, at most one, in which a URL matches a rule's URL: the values of
\* its parameters.
ParamsOf(rule, url) ==
    IF rule = <<>> THEN IF url = <<>> THEN {<<>>} ELSE {}
    ELSE IF url = <<>> THEN {}
    ELSE IF Head(rule) \notin R!Params
         THEN IF Head(rule) = Head(url) THEN ParamsOf(Tail(rule), Tail(url)) ELSE {}
    ELSE LET Fits(n) ==
               LET s == SubSeq(url, 1, n)
                   body == IF s[1] \in {"+", "-"} THEN Tail(s) ELSE s
                   longer == n < Len(url)
               IN CASE Head(rule) = "<path>" -> ~longer
                    [] Head(rule) = "<string>" ->
                         (\A i \in 1 .. n : s[i] # "/") /\ (longer => url[n + 1] = "/")
                    [] OTHER -> /\ body # <<>> /\ \A i \in DOMAIN body : body[i] \in R!Digits
                                /\ s[1] = "-" => Head(rule) # "<uint>"
                                /\ longer => url[n + 1] \notin R!Digits
         IN UNION {{<<SubSeq(url, 1, n)>> \o p : p \in ParamsOf(Tail(rule), SubSeq(url, n + 1, Len(url)))}
                   : n \in {m \in 1 .. Len(url) : Fits(m)}}

\* The rules of a method in the order of the table, numbered from 2, and
\* those that match, with the redirect to a trailing slash as number 1.
RulesOf(table, method) == SelectSeq(table, LAMBDA rule : method \in rule.methods)
Candidates(table, method, url) ==
    LET rules == RulesOf(table, method)
    IN UNION {{[rule |-> i + 1, params |-> p] : p \in ParamsOf(rules[i].url, url)} : i \in DOMAIN rules}
       \cup {[rule |-> 1, params |-> p] : p \in UNION {
                LET u == rules[i].url IN
                IF Len(u) > 1 /\ u[Len(u)] = "/" THEN ParamsOf(SubSeq(u, 1, Len(u) - 1), url) ELSE {}
                : i \in DOMAIN rules}}
Best(found) == IF found = {} THEN R!NotFound
               ELSE CHOOSE c \in found : \A d \in found : c.rule <= d.rule

\* The index of the route /ws; in the other tables, of the first rule.
WebSocketRules(table) == IF table = Program THEN {6} ELSE {2}

RouteRequest ==
    \E pair \in ({Program} \X ProgramUrls) \cup (Overlapping \X ShortUrls), method \in R!Methods :
        job' = [kind |-> "route", table |-> pair[1], method |-> method, url |-> pair[2],
                answer |-> R!Route(R!PerMethods(pair[1]), method, pair[2]),
                upgrade |-> R!Upgrade(R!PerMethods(pair[1]), method, pair[2], WebSocketRules(pair[1]))]

\* The rule that answers is, of the rules of the method that match the URL,
\* the one that was added first, with the parameters that the match gives;
\* HEAD falls back to GET, another method's match makes 405 of 404, and an
\* OPTIONS answer allows exactly the methods that would not be refused.  An
\* upgrade opens a socket when the rule that answers it is /ws.  The
\* tree, its optimisation and its search (Trie::add, optimizeNode, find) keep
\* this for rules that share a beginning and for parameters that overlap.
RouteIsBestMatch ==
    job.kind = "route" =>
        LET own    == Best(Candidates(job.table, job.method, job.url))
            get    == Best(Candidates(job.table, "GET", job.url))
            any    == {m \in R!Methods : Candidates(job.table, m, job.url) # {}}
            best   == IF job.method = "HEAD" /\ own.rule = 0 THEN get ELSE own
            star   == job.url = <<"/", "*">>
            status == CASE job.method = "OPTIONS" -> IF any = {} /\ ~star THEN 404 ELSE 204
                        [] best.rule = 0 -> IF job.method = "HEAD" \/ any = {} THEN 404 ELSE 405
                        [] best.rule = 1 -> 301
                        [] OTHER -> 200
        IN /\ job.answer.status = status
           /\ status \in {200, 301} => /\ job.answer.rule = best.rule
                                       /\ job.answer.params = best.params
           /\ status = 204 /\ ~star => job.answer.allow = any \cup {"OPTIONS", "HEAD"}
           /\ job.upgrade = CASE own.rule = 0 -> IF any = {} THEN 404 ELSE 405
                              [] own.rule = 1 -> 301
                              [] OTHER -> IF job.method = "GET" /\ own.rule \in WebSocketRules(job.table)
                                          THEN 101 ELSE 404

----------------------------------------------------------------------------
(* JSON: values with every kind of escape, nested up to the depth that is  *)
(* read, and texts that end too early.                                     *)

J == INSTANCE Json

JsonChars == {97, 34, 92, 47, 10, 9, 1, 31, 127, 195}
JsonStrings == UNION {[1 .. n -> JsonChars] : n \in 0 .. 2}
JsonAtoms == {J!Null, J!Truth(TRUE), J!Truth(FALSE)} \cup {J!Number(n) : n \in {0, 7, -10, 2147483647}}
JsonFlat ==
    JsonAtoms \cup {J!Str(s) : s \in JsonStrings} \cup {J!List(<<>>), J!Object(<<>>)}
JsonSome == JsonAtoms \cup {J!Str(<<34>>), J!Str(<<92, 110>>), J!List(<<>>)}
JsonNested ==
    LET pairs == {J!List(<<a, b>>) : a, b \in JsonSome}
        maps  == {J!Object([k \in ks |-> v]) : v \in JsonSome \cup pairs,
                                                ks \in {{<<97>>}, {<<>>, <<92>>}, {<<34>>, <<97, 97>>}}}
    IN pairs \cup maps \cup {J!List(<<m, m>>) : m \in maps}

RECURSIVE AsRead(_)
\* What a value is once it has been read: an object's members are a list.
AsRead(v) ==
    CASE v.t = "List" -> J!List([i \in DOMAIN v.l |-> AsRead(v.l[i])])
      [] v.t = "Object" -> LET keys == SetToSeq(DOMAIN v.o)
                           IN J!Members([i \in DOMAIN keys |-> [key |-> keys[i], v |-> AsRead(v.o[keys[i]])]])
      [] OTHER -> v

RECURSIVE Depth(_)
\* How many lists and objects are open at once.
Depth(v) ==
    CASE v.t = "List" -> 1 + Max({0} \cup {Depth(v.l[i]) : i \in DOMAIN v.l})
      [] v.t = "Object" -> 1 + Max({0} \cup {Depth(v.o[k]) : k \in DOMAIN v.o})
      [] OTHER -> 0

WriteJson ==
    \E v \in JsonFlat \cup JsonNested, indent \in {-1, 1} :
        LET text == J!Dump(v, indent, 0) IN
        job' = [kind |-> "json", value |-> v, text |-> text, read |-> J!Load(text)]

CutJson ==
    \E v \in JsonSome, key \in {<<97>>, <<92>>}, wrap \in BOOLEAN :
        LET inner == J!Object([k \in {key, <<34>>} |-> v])
            text == J!Dump(IF wrap THEN J!List(<<inner, v>>) ELSE inner, -1, 0)
        IN \E wrong \in {SubSeq(text, 1, n) : n \in 1 .. Len(text) - 1}
                        \cup {text \o junk : junk \in {<<34>>, <<93>>, <<125>>, <<48>>, <<32, 44>>}} :
            job' = [kind |-> "cut", text |-> wrong, read |-> J!Load(wrong)]

\* A frame or a body that was written is read back as the value it was,
\* whatever its strings hold and however it is laid out, and its members are
\* found under the keys they were written with; one that ends too
\* early, or goes on after its end, is not a value, so no handler sees half an
\* object.  A level of nesting counts twice against max_depth, once for the
\* list and once for the value in it: what is nested deeper is refused.
JsonRoundTrip ==
    /\ job.kind = "json" =>
          job.read = IF Depth(job.value) <= (MaxDepth + 1) \div 2 THEN AsRead(job.value) ELSE J!Bad
    /\ job.kind = "json" /\ job.value.t = "Object" /\ job.read # J!Bad =>
          \A key \in DOMAIN job.value.o \cup {<<120>>} :
              /\ J!Has(job.read, key) <=> key \in DOMAIN job.value.o
              /\ key \in DOMAIN job.value.o => J!Found(job.read, key) = {AsRead(job.value.o[key])}
    /\ job.kind = "cut" => job.read = J!Bad

----------------------------------------------------------------------------
(* Inputs of the conversions of Conversions.                               *)

MCByteStrings == UNION {[1 .. n -> {0, 1, 127, 255}] : n \in 0 .. 5}

MCDigests == [1 .. 3 -> {0, 1, 2, 64, 127, 128, 255}]

MCControl == {"\t", "\n", "\r"}
MCPaths ==
    UNION {[1 .. n -> {".", "/", "\\", "a", ":"}] : n \in 0 .. 5}
    \cup {p \o q : p \in UNION {[1 .. n -> {".", "/", "a"}] : n \in 2 .. 5},
                   q \in {<<".", ".">>, <<"/", ".", ".">>, <<".", ".", "/">>, <<".", ".", "a">>}}
    \cup {Chars(p) : p \in {"con", "COM1", "a/aux.c", "com0", "nul", "..con", "lpt9/..", "con/../con"}}

MCMessages == {[i \in 1 .. n |-> Octet(i)] :
                  n \in {0, 1, 54, 55, 56, 57, 63, 64, 65, 118, 119, 120, 121, 127, 128, 129}}
MCCuts == {0, 1, 55, 56, 63, 64, 65}

----------------------------------------------------------------------------
(* The configuration file.                                                 *)

I == INSTANCE Ini

\* The lines of a file by what they say: a section, an option with its value,
\* more of the value before it, or nothing.  Each has its ways of being
\* written.
Section(name, text) == [is |-> "section", name |-> name, text |-> text]
Pair(name, value, text) == [is |-> "pair", name |-> name, value |-> value, text |-> text]
More(value, text) == [is |-> "more", value |-> value, text |-> text]
Nothing(text) == [is |-> "nothing", text |-> text]

FirstLines == {Section("server", "[server]"), Section("server", "[Server] ; net"),
               Section("storage", "[storage]\r"), Nothing("")}
FileLines ==
    {Pair("app_name", "A b", "app_name = A b"), Pair("app_name", "A", "APP_NAME:A ; the name"),
     Pair("app_name", "a;b=c", "app_name=a;b=c\t"), Pair("db_path", "/d", "db_path  =   /d\r"),
     Pair("admin_text", "", "admin_text ="), Pair("bind_port", "0x50", "bind_port = 0x50"),
     Pair("bind_port", "010", "bind_port=010"), Pair("bind_port", "65537", "bind_port = 65537"),
     Pair("bind_port", "web", "bind_port = web"),
     More("two = 2", "  two = 2 ; and more"), More("[room]", "\t[room]"),
     Nothing("; bind_port = 1"), Nothing("# [room]"), Nothing("   "), Nothing("no option")}

Rendered(lines) == FlattenSeq([i \in DOMAIN lines |-> Chars(lines[i].text) \o <<"\n">>])

\* The values that the lines give to an option of a section: the lines that
\* name it there, and those that go on from one of them.
Named(lines, i, name) ==
    \/ lines[i].is = "pair" /\ lines[i].name = name
    \/ /\ lines[i].is = "more"
       /\ \E j \in 1 .. i - 1 : /\ lines[j].is = "pair" /\ lines[j].name = name
                                /\ \A k \in j + 1 .. i - 1 : lines[k].is \in {"more", "nothing"}
SectionAt(lines, i) ==
    LET heads == {j \in 1 .. i : lines[j].is = "section"}
    IN IF heads = {} THEN "" ELSE lines[Max(heads)].name
Given(lines, section, name) ==
    LET own == {i \in DOMAIN lines : Named(lines, i, name) /\ SectionAt(lines, i) = section}
        Join(acc, i) == IF i \notin own THEN acc
                        ELSE (IF acc = <<>> THEN <<>> ELSE acc \o <<"\n">>) \o Chars(lines[i].value)
    IN [any |-> own # {}, text |-> FoldLeft(Join, <<>>, [i \in DOMAIN lines |-> i])]

\* A continuation needs an option before it in its section: otherwise an
\* indented line is read for itself.
Follows(lines) ==
    \A i \in DOMAIN lines : lines[i].is = "more" =>
        \E j \in 1 .. i - 1 : lines[j].is = "pair" /\ \A k \in j + 1 .. i - 1 : lines[k].is # "section"

\* What the port is for each of the texts.
Port(text) == CASE text = Chars("0x50") -> 80 [] text = Chars("010") -> 8
                [] text = Chars("65537") -> 1 [] OTHER -> 8080

LoadConfig ==
    \/ \E head \in FirstLines, a, b \in FileLines, between \in {<<>>, <<Section("server", "[server]")>>} :
         LET lines == <<head, a>> \o between \o <<b>> IN
         /\ Follows(lines)
         /\ ~(a.is = "pair" /\ b.is = "pair" /\ a.name = "bind_port" /\ b.name = "bind_port")
         /\ ~(a.is = "pair" /\ b.is = "more" /\ a.name = "bind_port")
         /\ job' = [kind |-> "config", lines |-> lines, read |-> I!LoadFromFile(Rendered(lines))]
    \/ job' = [kind |-> "config", lines |-> <<>>, read |-> I!LoadFromFile(I!DefaultConfig)]

\* Every option has the value that the file gives it in its section, whatever
\* the spelling: cases, separators, blanks, comments, ends of lines, values on
\* several lines.  An option that is not given, or a number that is none, is
\* the default.  The file of --generate-config reads as the defaults.
ConfigReadsBack ==
    job.kind = "config" =>
        /\ \A o \in I!Options :
             LET given == Given(job.lines, o[1], o[2])
             IN <<o[2], IF given.any THEN given.text ELSE o[3]>> \in job.read.text
        /\ \A o \in I!Integers32 :
             LET given == Given(job.lines, o[1], o[2])
             IN <<o[2], IF given.any THEN Port(given.text) ELSE o[3]>> \in job.read.int

----------------------------------------------------------------------------
(* Queries.                                                                *)

Q == INSTANCE QueryString

QueryCodes == {<<"a", <<"a">>>>, <<" ", <<"+">>>>, <<" ", Chars("%20")>>, <<"&", Chars("%26")>>,
               <<"+", Chars("%2b")>>, <<"=", Chars("%3D")>>, <<"%", Chars("%25")>>}
QueryWords == UNION {[1 .. n -> QueryCodes] : n \in 0 .. 2}
Plain(word) == [i \in DOMAIN word |-> word[i][1]]
Encoded(word) == FlattenSeq([i \in DOMAIN word |-> word[i][2]])

ReadQuery ==
    \E first, second \in QueryWords, tail \in {<<>>, <<"#", "a">>, <<"&", "a">>} :
        LET url == Chars("/ws?room=") \o Encoded(first) \o Chars("&room=") \o Encoded(second) \o tail
        IN job' = [kind |-> "query", words |-> <<Plain(first), Plain(second)>>,
                   read |-> Q!Values(Q!Parse(url), Chars("room")),
                   none |-> Q!Values(Q!Parse(url), Chars("roo"))]

\* The room that onaccept finds is the one the client encoded: the values of
\* a key are decoded once and keep their order, and a key is matched whole.
QueryIsDecoded == job.kind = "query" => job.read = job.words /\ job.none = <<>>

----------------------------------------------------------------------------
(* Requests: streams of messages, cut into pieces as reads return them.    *)

\* The URLs of the program's table that have a rule.
Routes == {url \in ProgramUrls : R!Matched(R!PerMethods(Program), url) # {}}

P == INSTANCE HttpParser

Eol == <<"\r", "\n">>
Header(name, value) == <<Chars(name), Chars(value)>>
Lines(headers) == FlattenSeq([i \in DOMAIN headers |-> headers[i][1] \o <<":", " ">> \o headers[i][2] \o Eol])

\* A message and its wire form; `wire' is its body as it is sent.
Message(method, url, query, headers, body, wire) ==
    [method |-> Chars(method), url |-> Chars(url), query |-> Chars(query), headers |-> headers,
     body |-> Chars(body), wire |-> Chars(wire)]
FirstLine(m) == m.method \o <<" ">> \o m.url \o m.query
Wire(m) == FirstLine(m) \o Chars(" HTTP/1.1") \o Eol \o Lines(m.headers) \o Eol \o m.wire

Host == Header("Host", "h")
Streams ==
    {<<Message("GET", "/api/info", "?x=1", <<Host, Header("Connection", "close")>>, "", "")>>,
     <<Message("POST", "/api/rooms", "", <<Host, Header("content-LENGTH", "2")>>, "ab", "ab"),
       Message("DELETE", "/api/rooms/1", "", <<Header("X-Y", "a: b"), Host>>, "", "")>>,
     <<Message("POST", "/api/is_alive", "", <<Host, Header("Transfer-Encoding", "gzip, chunked")>>,
               "abcd", "3;x\r\nabc\r\n01\r\nd\r\n0\r\nt: 1\r\n\r\n"),
       Message("GET", "/ws", "", <<Host, Header("Connection", "Upgrade"), Header("Upgrade", "websocket")>>,
               "", "")>>,
     <<Message("GET", "/", "", <<Header("X-Y", ""), Host>>, "", ""),
       Message("GET", "/api/info", "?x=1", <<Host, Header("X-Z", ""), Header("X-Y", "")>>, "", "")>>}

\* How much of a stream comes before the URL of its i-th message.
BeforeUrl(stream, i) ==
    Len(FlattenSeq([j \in 1 .. i - 1 |-> Wire(stream[j])])) + Len(stream[i].method) + 1

\* The places where a read may end, outside the URLs.
Places(stream) ==
    LET inside == UNION {LET url == BeforeUrl(stream, i)
                         IN url + 1 .. url + Len(stream[i].url \o stream[i].query) - 1 : i \in DOMAIN stream}
    IN (1 .. Len(FlattenSeq([i \in DOMAIN stream |-> Wire(stream[i])]))) \ inside

\* The messages with a query that arrive in one read with the URL of one before.
ShareARead(stream, cuts) ==
    {i \in DOMAIN stream :
        /\ stream[i].query # <<>>
        /\ \E j \in 1 .. i - 1 : \A c \in cuts : c <= BeforeUrl(stream, j) \/ c > BeforeUrl(stream, i)}

\* A text cut after the given places.
Pieces(text, cuts) ==
    LET ends == SelectSeq([i \in DOMAIN text |-> i], LAMBDA i : i \in cuts \cup {Len(text)})
    IN [i \in DOMAIN ends |-> SubSeq(text, IF i = 1 THEN 1 ELSE ends[i - 1] + 1, ends[i])]

ReadRequests ==
    \E stream \in Streams :
        LET text   == FlattenSeq([i \in DOMAIN stream |-> Wire(stream[i])])
            places == Places(stream)
        IN \E cuts \in {places} \cup {{a, a + n} \cap places : a \in places, n \in {0, 1, 7}} :
            job' = [kind |-> "requests", stream |-> stream, cuts |-> cuts,
                    out |-> FoldLeft(P!Feed, P!Parser, Pieces(text, cuts)).out]

\* The headers that reach a handler: an empty value is filed only at the end.
Filed(headers) ==
    LET kept == SelectSeq([i \in DOMAIN headers |-> i], LAMBDA i : headers[i][2] # <<>> \/ i = Len(headers))
    IN [i \in DOMAIN kept |-> headers[kept[i]]]

\* The handlers get the requests that were sent: each with its method, its
\* URL without the query, its headers and its body, wherever the reads of the
\* connection ended.  There are three exceptions.  Where a read ends inside a
\* URL, what has been read of it is routed on its own (no cut is there).  A
\* header with an empty value is dropped unless it is the last one
\* (on_header_field).  And a URL with a query that arrives in one read with an
\* earlier request's URL keeps some of its query, for the place of the query
\* is counted from that one's beginning (url_start_mark); no rule is found
\* for it, and the connection ends with 404.
RequestsSurviveSplits ==
    job.kind = "requests" =>
        LET spoilt == ShareARead(job.stream, job.cuts)
            whole  == IF spoilt = {} THEN Len(job.stream) ELSE Min(spoilt) - 1
        IN /\ Len(job.out) = IF spoilt = {} THEN whole ELSE whole + 1
           /\ \A i \in 1 .. whole :
                LET sent == job.stream[i]
                    got  == job.out[i]
                IN /\ got.status = IF sent.url = Chars("/ws") THEN 101 ELSE 200
                   /\ got.url = sent.url /\ got.method = sent.method
                   /\ got.headers = Filed(sent.headers) /\ got.body = sent.body
                   /\ got.close <=> Header("Connection", "close") \in Range(sent.headers)
           /\ spoilt # {} =>
                LET sent == job.stream[whole + 1]
                    got  == job.out[whole + 1]
                IN /\ got.status = 404 /\ IsStrictPrefix(sent.url, got.url)
                   /\ IsPrefix(got.url, sent.url \o sent.query)

\* A number in a base, as text.
RECURSIVE Numeral(_, _)
Numeral(n, base) ==
    LET digit == <<SubSeq("0123456789abcdef", (n % base) + 1, (n % base) + 1)>>
    IN IF n < base THEN digit ELSE Numeral(n \div base, base) \o digit

Opening(headers) ==
    Chars("POST /api/rooms HTTP/1.1") \o Eol \o Lines(<<Host>> \o headers) \o Eol

ReadLength ==
    \E n \in {0} \cup (Ullong - 20 .. Ullong + 4) \cup {10 * Ullong, 16 * Ullong}, zeros \in {<<>>, <<"0">>},
       base \in {10, 16} :
        LET number == zeros \o Numeral(n, base)
            text == IF base = 10 THEN Opening(<<<<Chars("Content-Length"), number>>>>)
                    ELSE Opening(<<Header("Transfer-Encoding", "chunked")>>) \o number \o <<"\r">>
        IN job' = [kind |-> "length", n |-> n, base |-> base, parser |-> P!Feed(P!Parser, text)]

ReadFraming ==
    \E headers \in [1 .. 2 -> {Header("Content-Length", "2"), Header("Content-Length", "3"),
                               Header("Transfer-Encoding", "chunked"), Header("Transfer-Encoding", "gzip"),
                               Header("Transfer-Encoding", "chunked, x"), Header("Transfer-Encoding", "gzip, chunked"),
                               Header("Transfer-Encoding", "gzip,\tchunked"), Header("Connection", "close")}] :
        job' = [kind |-> "framing", headers |-> headers, parser |-> P!Feed(P!Parser, Opening(headers))]

H == INSTANCE HttpResponse

\* The pages of the program, short and sent in pieces, and the answers of its
\* other routes; a request to each, and the requests that are refused.
Pages == {H!ServeCached("e", tag, page) : tag \in {"", "e", "old"},
                                           page \in {<<1>>, [i \in 1 .. 2 * Piece + 1 |-> i]}}
Replies == {H!Response(200, <<1, 2>>), H!Response(403, <<1>>), H!Response(429, <<>>), H!Response(418, <<1>>)}
Request(method, v11, expects, answer) ==
    [method |-> method, v11 |-> v11, host |-> TRUE, expects |-> expects, refusal |-> 0,
     throws |-> FALSE, static |-> FALSE, answer |-> answer]
Files == {H!Response(200, <<>>), H!Response(200, <<1, 2, 3, 4, 5>>), H!Response(404, <<>>)}
Requests ==
    {Request(method, v11, FALSE, page) : method \in {"GET", "HEAD"}, v11 \in BOOLEAN, page \in Pages}
    \cup {Request("POST", TRUE, expects, reply) : expects \in BOOLEAN, reply \in Replies}
    \cup {[Request("POST", TRUE, TRUE, H!Response(200, <<>>)) EXCEPT !.throws = TRUE],
          [Request("GET", TRUE, FALSE, H!Response(200, <<>>)) EXCEPT !.host = FALSE],
          [Request("HEAD", FALSE, FALSE, H!Response(200, <<1>>)) EXCEPT !.host = FALSE]}
    \cup {[Request("GET", TRUE, FALSE, file) EXCEPT !.static = TRUE] : file \in Files}
    \cup {[Request(p[1], TRUE, FALSE, H!Response(200, <<>>)) EXCEPT !.refusal = p[2]] :
             p \in {<<"GET", 404>>, <<"HEAD", 404>>, <<"POST", 405>>, <<"OPTIONS", 204>>}}

AnswerRequests ==
    \E n \in 1 .. 3 : \E requests \in [1 .. n -> Requests] :
        job' = [kind |-> "answers", requests |-> requests,
                out |-> FoldLeft(H!Serve, H!Connection, requests).out]

\* The answer that a request should get.
Due(req) ==
    LET a == CASE req.refusal # 0 -> H!Response(req.refusal, <<>>)
               [] req.v11 /\ ~req.host -> H!Response(400, <<>>)
               [] req.throws -> H!Response(500, <<>>)
               [] req.answer.code = 418 -> [req.answer EXCEPT !.code = 500]
               [] OTHER -> req.answer
    IN IF a.code >= 400 /\ a.body = <<>> THEN [a EXCEPT !.body = H!StatusText] ELSE a

\* The end of a body is never a guess.  A length that is accepted is the
\* number that was written, never what is left of it after an overflow, and
\* only numbers next to the limit are refused with those above it.  A message
\* with two lengths, or with a length beside an encoding, is refused; and one
\* that is encoded is read in chunks if any of its Transfer-Encoding headers
\* ends in `chunked', and refused otherwise.  That any will do is the code's:
\* by RFC 7230 3.3.3, which the parser quotes, the last must, or the request be
\* refused.  So is that `chunked' is not found behind a tab.  On the way back, every request up to the first
\* that has no rule gets its own answer, with the length of its body and with
\* exactly those bytes, or none of them for HEAD, whatever the connection
\* answered before.  There are two exceptions here, both of HEAD: in HTTP/1.1
\* without a Host, the answer after it has no body; and for a file of
\* /static/, the length is 0 and the file, or the text of 404, follows.
BodiesAreFramed ==
    /\ job.kind = "length" =>
         /\ job.parser.ok => (job.n = 0 /\ job.base = 10) \/ job.parser.length = job.n
         /\ job.n > Ullong => ~job.parser.ok
         /\ job.n <= Ullong - job.base => job.parser.ok
    /\ job.kind = "framing" =>
         LET Count(name) == Cardinality({i \in 1 .. 2 : job.headers[i][1] = Chars(name)})
             lengths == Count("Content-Length")
             codings == Count("Transfer-Encoding")
             chunks  == \E v \in {"chunked", "gzip, chunked"} :
                            Header("Transfer-Encoding", v) \in Range(job.headers)
         IN /\ job.parser.ok <=> lengths <= 1 /\ (codings > 0 => lengths = 0 /\ chunks)
            /\ job.parser.ok =>
                 job.parser.state = CASE codings > 0 -> "chunk_size_start"
                                      [] lengths > 0 -> "body_identity"
                                      [] OTHER -> "start_req"
    /\ job.kind = "answers" =>
         LET refused == {i \in DOMAIN job.requests : job.requests[i].refusal # 0}
             last    == IF refused = {} THEN Len(job.requests) ELSE Min(refused)
             final   == SelectSeq(job.out, LAMBDA r : r.code # 100)
         IN /\ Len(final) = last
            /\ \A i \in 1 .. last :
                 LET req == job.requests[i]
                     due == Due(req)
                 IN /\ final[i].code = due.code /\ final[i].length = Len(due.body)
                    /\ final[i].body = IF req.method = "HEAD" /\ req.refusal = 0 THEN <<>> ELSE due.body

----------------------------------------------------------------------------
(* Frames.                                                                 *)

W == INSTANCE WsFrames

Frame(fin, opcode, data) == [fin |-> fin, opcode |-> opcode, data |-> data]
FrameStreams ==
    {<<Frame(TRUE, 1, <<>>), Frame(TRUE, 9, <<1>>), Frame(TRUE, 2, <<7, 0, 255, 7, 1>>)>>,
     <<Frame(FALSE, 1, <<1, 2>>), Frame(TRUE, 9, <<3>>), Frame(FALSE, 0, <<>>), Frame(TRUE, 10, <<>>),
       Frame(TRUE, 0, <<4, 5, 6>>), Frame(TRUE, 1, <<8>>)>>,
     <<Frame(TRUE, 1, [i \in 1 .. 126 |-> i]), Frame(FALSE, 2, <<9>>), Frame(TRUE, 8, <<3, 232>>)>>}
Masks == {<<0, 0, 0, 0>>, <<1, 170, 255, 16>>}

\* What the frames say: the messages, in the order in which they end, and the
\* control frames between them.
RECURSIVE Meaning(_, _)
Meaning(frames, begun) ==
    IF frames = <<>> THEN <<>>
    ELSE LET f == Head(frames)
             all == begun \o f.data
         IN CASE f.opcode < 8 /\ f.fin -> <<<<"message", all>>>> \o Meaning(Tail(frames), <<>>)
              [] f.opcode < 8 -> Meaning(Tail(frames), all)
              [] f.opcode = 8 -> <<<<"close", f.data>>>> \o Meaning(Tail(frames), begun)
              [] f.opcode = 9 -> <<<<"pong", f.data>>>> \o Meaning(Tail(frames), begun)
              [] OTHER -> Meaning(Tail(frames), begun)

ReadFrames ==
    \E frames \in FrameStreams, mask \in Masks :
        LET wire == [i \in DOMAIN frames |-> W!ClientFrame(frames[i].fin, frames[i].opcode, mask, frames[i].data)]
            text == FlattenSeq(wire)
            headers == {Len(FlattenSeq(SubSeq(wire, 1, i - 1))) + 1 : i \in DOMAIN wire}
            places == (1 .. Len(text)) \ headers
        IN \E cuts \in {places} \cup {{a, a + n} \cap places : a \in places, n \in {0, 1, 5}} :
            job' = [kind |-> "frames", frames |-> frames, cuts |-> cuts,
                    out |-> FoldLeft(W!Arrive, W!Reader, Pieces(text, cuts)).out]

WriteFrame ==
    \E size \in {0, 1, 125, 126, 127, 255, 256, 65535, 65536, 70000}, opcode \in {1, 8, 10} :
        job' = [kind |-> "header", size |-> size, opcode |-> opcode,
                read |-> W!Arrive(W!Reader, W!BuildHeader(opcode, size))]

\* The messages of a client arrive whole, in order and unmasked, however they
\* are fragmented, whatever control frames come between the fragments, and
\* wherever the reads end, except between the two bytes of a header; and the
\* header that is written for a size says that size to a reader.
FramesRoundTrip ==
    /\ job.kind = "frames" => job.out = Meaning(job.frames, <<>>)
    /\ job.kind = "header" =>
         IF job.size = 0 THEN job.read.state = "MiniHeader" /\ job.read.unread = <<>>
         ELSE /\ job.read.state = "Payload" /\ job.read.length = job.size
              /\ job.read.first = 128 + job.opcode

----------------------------------------------------------------------------
Init == job = Idle

Next ==
    /\ job.kind = "none"
    /\ \/ RouteRequest \/ WriteJson \/ CutJson \/ Convert \/ LoadConfig \/ ReadQuery
       \/ ReadRequests \/ ReadLength \/ ReadFraming \/ AnswerRequests \/ ReadFrames \/ WriteFrame

Spec == Init /\ [][Next]_job

=============================================================================
