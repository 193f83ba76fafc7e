--------------------------------- MODULE Ini ---------------------------------
(***************************************************************************)
(* The configuration file: inih (src/src/config/ini_backend/ini.c with the *)
(* options of ini.h), its reader (src/src/config/inireader.cpp), the       *)
(* options that Config::loadFromFile takes from it (src/src/config.cpp)    *)
(* and the file that --generate-config writes (src/src/main.cpp).          *)
(*                                                                         *)
(* A file is a sequence of characters.  A byte order mark is one character *)
(* here.  Numbers stay below 2^31: strtol's saturation, and the truncation *)
(* of a long to an int, are not reached.                                   *)
(***************************************************************************)
EXTENDS Integers, Sequences, SequencesExt, Text

CONSTANTS MaxLine,      \* INI_MAX_LINE (200)
          MaxName       \* MAX_SECTION and MAX_NAME (50)

Bom == "BOM"
Space == {" ", "\t", "\n", "\r", "\f"}

----------------------------------------------------------------------------
(* Lines.                                                                  *)

RECURSIVE Lines(_)
\* fgets: up to and with the end of the line, MaxLine - 1 characters at most.
Lines(text) ==
    IF text = <<>> THEN <<>>
    ELSE LET room == IF Len(text) < MaxLine - 1 THEN Len(text) ELSE MaxLine - 1
             end  == FirstIn(text, 1, {"\n"})
             n    == IF end <= room THEN end ELSE room
         IN <<SubSeq(text, 1, n)>> \o Lines(SubSeq(text, n + 1, Len(text)))

\* ini_rstrip and ini_lskip.
RStrip(s) == LET ink == {i \in DOMAIN s : s[i] \notin Space}
             IN SubSeq(s, 1, IF ink = {} THEN 0 ELSE Max(ink))
LSkip(s) == LET ink == {i \in DOMAIN s : s[i] \notin Space}
            IN SubSeq(s, IF ink = {} THEN Len(s) + 1 ELSE Min(ink), Len(s))

\* ini_find_chars_or_comment: a comment starts at a semicolon after a blank.
FindCharsOrComment(s, chars) ==
    LET hits == {i \in DOMAIN s : \/ s[i] \in chars
                                  \/ s[i] = ";" /\ i > 1 /\ s[i - 1] \in Space}
    IN IF hits = {} THEN Len(s) + 1 ELSE Min(hits)
Before(s, i) == SubSeq(s, 1, i - 1)
After(s, i) == SubSeq(s, i + 1, Len(s))
Uncommented(s) == Before(s, FindCharsOrComment(s, {}))

----------------------------------------------------------------------------
(* The parser: section and prev_name, and what the handler has stored.     *)

Fresh == [section |-> <<>>, prev |-> <<>>, values |-> <<>>]

\* MakeKey, and the value stored under a key, empty if there is none.
MakeKey(section, name) == LowerAll(section \o <<"=">> \o name)
Stored(values, key) ==
    LET hits == {i \in DOMAIN values : values[i][1] = key}
    IN IF hits = {} THEN <<>> ELSE values[Min(hits)][2]
Has(values, key) == \E i \in DOMAIN values : values[i][1] = key

\* ValueHandler: a second value for a key goes on a line of its own.
ValueHandler(p, name, value) ==
    LET key == MakeKey(p.section, name)
        old == Stored(p.values, key)
        new == (IF old = <<>> THEN <<>> ELSE old \o <<"\n">>) \o value
    IN [p EXCEPT !.values = SelectSeq(@, LAMBDA entry : entry[1] # key) \o <<<<key, new>>>>]

SectionLine(p, start) ==
    LET end == FindCharsOrComment(Tail(start), {"]"})
    IN IF end > Len(start) - 1 \/ Tail(start)[end] # "]" THEN p
       ELSE [p EXCEPT !.section = SubSeq(Before(Tail(start), end), 1,
                                         IF end - 1 < MaxName - 1 THEN end - 1 ELSE MaxName - 1),
                      !.prev = <<>>]

PairLine(p, start) ==
    LET end   == FindCharsOrComment(start, {"=", ":"})
        name  == RStrip(Before(start, end))
        value == RStrip(LSkip(Uncommented(After(start, end))))
    IN IF end > Len(start) \/ start[end] \notin {"=", ":"} THEN p
       ELSE ValueHandler([p EXCEPT !.prev = SubSeq(name, 1, IF Len(name) < MaxName - 1 THEN Len(name)
                                                            ELSE MaxName - 1)], name, value)

\* Mutant of ParseLine: an indented line is a pair like any other.
ParseLineFlat(p, line) ==
    LET marked == line # <<>> /\ line[1] = Bom
        text   == IF marked THEN Tail(line) ELSE line
        start  == RStrip(LSkip(text))
    IN IF start = <<>> \/ start[1] \in {";", "#"} THEN p
       ELSE IF start[1] = "[" THEN SectionLine(p, start)
       ELSE PairLine(p, start)

\* One turn of the loop of ini_parse_stream.  What is wrong with a line is
\* noted in `error', which no caller looks at unless it is negative.
ParseLine(p, line) ==
    LET marked   == line # <<>> /\ line[1] = Bom
        text     == IF marked THEN Tail(line) ELSE line
        start    == RStrip(LSkip(text))
        indented == marked \/ (text # <<>> /\ text[1] \in Space)
    IN IF start = <<>> \/ start[1] \in {";", "#"} THEN p
       ELSE IF p.prev # <<>> /\ indented
         THEN ValueHandler(p, p.prev, RStrip(Uncommented(start)))
       ELSE IF start[1] = "[" THEN SectionLine(p, start)
       ELSE PairLine(p, start)

ParseStream(text) == FoldLeft(LAMBDA p, line : ParseLine(p, line), Fresh, Lines(text)).values

----------------------------------------------------------------------------
(* Values.                                                                 *)

\* The base that a number says it is in, and the digits it begins with.
IsHex(u) == Len(u) > 2 /\ u[1] = "0" /\ Lower(u[2]) = "x" /\ Unhex(u[3]) # -1
BaseOf(u) == IF IsHex(u) THEN 16 ELSE IF u # <<>> /\ u[1] = "0" THEN 8 ELSE 10
Leading(v, base) ==
    LET stops == {i \in DOMAIN v : Unhex(v[i]) \notin 0 .. base - 1}
    IN SubSeq(v, 1, IF stops = {} THEN Len(v) ELSE Min(stops) - 1)
NumberIn(digits, base) == FoldLeft(LAMBDA acc, c : base * acc + Unhex(c), 0, digits)

Unsigned(u) ==
    LET digits == Leading(IF IsHex(u) THEN SubSeq(u, 3, Len(u)) ELSE u, BaseOf(u))
    IN [ok |-> digits # <<>>, n |-> NumberIn(digits, BaseOf(u))]

\* strtol with base 0: blanks, a sign, 0x or 0 for the base, digits.
StrToL(s) ==
    LET t == LSkip(s)
    IN IF t = <<>> \/ t[1] \notin {"+", "-"} THEN Unsigned(t)
       ELSE [Unsigned(Tail(t)) EXCEPT !.n = IF t[1] = "-" THEN -@ ELSE @]

\* Get and GetInteger.
Get(values, section, name, default) ==
    LET key == MakeKey(section, name) IN IF Has(values, key) THEN Stored(values, key) ELSE default
GetInteger(values, section, name, default) ==
    LET read == StrToL(Get(values, section, name, <<>>)) IN IF read.ok THEN read.n ELSE default

\* The options, with the defaults of config.h.
Options ==
    {<<"server", "log_level", Chars("info")>>, <<"server", "bind_address", Chars("0.0.0.0")>>,
     <<"server", "app_name", Chars("HashHush")>>, <<"server", "admin_text", <<>>>>,
     <<"storage", "db_path", Chars("/var/lib/hashhush/hashhush.sqlite")>>}
Integers32 ==
    {<<"server", "bind_port", 8080>>, <<"room", "max_participants", 10>>,
     <<"room", "max_participants_cap", 50>>, <<"room", "idle_ttl_seconds", 86400>>,
     <<"room", "total_rooms_cap", 0>>, <<"room", "message_cache_size", 5>>,
     <<"room", "ws_max_payload_bytes", 8192>>, <<"room", "challenge_max_blob_bytes", 256>>,
     <<"room", "pow_difficulty_bits", 16>>}

\* loadFromFile: the port is cast to 16 bits.
LoadFromFile(text) ==
    LET values == ParseStream(text)
        Number(o) == LET n == GetInteger(values, Chars(o[1]), Chars(o[2]), o[3])
                     IN IF o[2] = "bind_port" THEN n % 65536 ELSE n
    IN [text |-> {<<o[2], Get(values, Chars(o[1]), Chars(o[2]), o[3])>> : o \in Options},
        int  |-> {<<o[2], Number(o)>> : o \in Integers32}]

\* kDefaultConfigContent.
Nl == <<"\n">>
DefaultConfig ==
    FlattenSeq([i \in 1 .. 23 |-> Chars(
      <<"[server]", "log_level = info", "bind_address = 0.0.0.0", "bind_port = 8080",
        "app_name = HashHush",
        "; Optional announcement shown on the home page below the server-info block.",
        "; Leave empty to hide the panel. Rendered as raw HTML - links via <a>, line",
        "; breaks via <br>, etc. Treat this file as trusted; anyone who can edit it",
        "; can run arbitrary JS in visitors' browsers.",
        "admin_text =", "", "[storage]", "db_path = /var/lib/hashhush/hashhush.sqlite", "",
        "[room]", "max_participants = 10", "max_participants_cap = 50",
        "idle_ttl_seconds = 86400", "total_rooms_cap = 0", "message_cache_size = 5",
        "ws_max_payload_bytes = 8192", "challenge_max_blob_bytes = 256",
        "pow_difficulty_bits = 16">>[i]) \o Nl])

=============================================================================
