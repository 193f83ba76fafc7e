------------------------------- MODULE Router -------------------------------
(***************************************************************************)
(* How a request finds its rule: the search tree and the router of         *)
(* src/src/crowlib/crow/routing.h.  A URL is a sequence of characters; a   *)
(* rule's URL may hold the parameters <int>, <uint>, <double>, <string>    *)
(* and <path>.  There is one tree per method, and rule indices 0 (none)    *)
(* and 1 (redirect to the URL with a trailing slash) are special.          *)
(*                                                                         *)
(* Blueprints, middleware and catchall rules, which the program does not   *)
(* use, are left out.  Numbers out of range (ERANGE) are beyond the URLs   *)
(* that are checked.                                                       *)
(***************************************************************************)
EXTENDS Naturals, Sequences, FiniteSets, SequencesExt

Digits == {"0", "1"}
Params == {"<int>", "<uint>", "<double>", "<string>", "<path>"}
RedirectSlash == 1      \* RULE_SPECIAL_REDIRECT_SLASH

\* struct Node: key is empty in a parameter's node, param is "" in the others.
Node(rule, key, param, children) ==
    [rule |-> rule, key |-> key, param |-> param, children |-> children]
Head0 == Node(0, <<>>, "", <<>>)

\* The child of n that `add' walks into for character or parameter c, or 0.
ChildFor(n, c) ==
    LET hits == {i \in DOMAIN n.children :
                    IF c \in Params THEN n.children[i].param = c
                                    ELSE n.children[i].key = <<c>>}
    IN IF hits = {} THEN 0 ELSE Min(hits)

RECURSIVE RuleAt(_, _)
\* The rule at the end of a rule's URL, 0 if there is none.
RuleAt(n, url) ==
    IF url = <<>> THEN n.rule
    ELSE LET i == ChildFor(n, Head(url))
         IN IF i = 0 THEN 0 ELSE RuleAt(n.children[i], Tail(url))

RECURSIVE Add(_, _, _)
\* Trie::add, for a URL that has no rule yet: one node per character.
Add(n, url, rule) ==
    IF url = <<>> THEN [n EXCEPT !.rule = rule]
    ELSE LET c == Head(url)
             i == ChildFor(n, c)
             fresh == IF c \in Params THEN Node(0, <<>>, c, <<>>) ELSE Node(0, <<c>>, "", <<>>)
         IN IF i = 0
            THEN [n EXCEPT !.children = Append(@, Add(fresh, Tail(url), rule))]
            ELSE [n EXCEPT !.children[i] = Add(@, Tail(url), rule)]

\* Node::IsSimpleNode: one way on, and nothing ends or branches here.
IsSimpleNode(n) ==
    /\ n.rule = 0 /\ n.param = "" /\ Len(n.children) < 2
    /\ \A i \in DOMAIN n.children : n.children[i].param = ""

RECURSIVE OptimizeNode(_)
\* Trie::optimizeNode: chains of simple nodes become one.
OptimizeNode(n) ==
    IF n.children = <<>> THEN n
    ELSE IF IsSimpleNode(n)
         THEN LET k == n.children[1]
              IN OptimizeNode(Node(k.rule, n.key \o k.key, n.param, k.children))
         ELSE [n EXCEPT !.children = [i \in DOMAIN @ |-> OptimizeNode(@[i])]]

\* Trie::validate, which keeps the head as it is.
Optimize(trie) == [trie EXCEPT !.children = [i \in DOMAIN @ |-> OptimizeNode(@[i])]]

\* The longest run from position p on of characters in S ends here.
EndOfRun(url, p, S) ==
    Min({i \in p .. Len(url) + 1 : i = Len(url) + 1 \/ url[i] \notin S})

\* strtoll and strtoull: an optional sign and digits; no digit, no number.
EndOfInt(url, p, signs) ==
    LET from == IF url[p] \in signs THEN p + 1 ELSE p
        to   == EndOfRun(url, from, Digits)
    IN IF to = from THEN p ELSE to

\* strtod: digits may be on either side of one point.
EndOfDouble(url, p) ==
    LET from  == IF url[p] \in {"+", "-"} THEN p + 1 ELSE p
        whole == EndOfRun(url, from, Digits)
        point == whole <= Len(url) /\ url[whole] = "."
        to    == IF point THEN EndOfRun(url, whole + 1, Digits) ELSE whole
        count == (whole - from) + (IF point THEN to - whole - 1 ELSE 0)
    IN IF count = 0 THEN p ELSE to

\* Where the parameter that begins at p ends; p if it does not match.
EndOfParam(param, url, p) ==
    CASE param = "<int>"    -> EndOfInt(url, p, {"+", "-"})
      [] param = "<uint>"   -> EndOfInt(url, p, {"+"})
      [] param = "<double>" -> EndOfDouble(url, p)
      [] param = "<string>" -> Min({i \in p .. Len(url) + 1 : i = Len(url) + 1 \/ url[i] = "/"})
      [] param = "<path>"   -> Len(url) + 1

NotFound == [rule |-> 0, params |-> <<>>]

\* Mutant of UpdateFound: the rule that is found last wins.
UpdateLast(found, ret) == IF ret.rule # 0 THEN ret ELSE found

\* update_found: of two rules the one that was added first.
UpdateFound(found, ret) ==
    IF ret.rule # 0 /\ (found.rule = 0 \/ found.rule > ret.rule) THEN ret ELSE found

RECURSIVE FindFrom(_, _, _, _)
\* Trie::find from node n and position p, with the parameters so far.
FindFrom(n, url, p, params) ==
    IF p = Len(url) + 1 THEN [rule |-> n.rule, params |-> params]
    ELSE LET Try(k) ==
               IF k.param # ""
               THEN LET to == EndOfParam(k.param, url, p) IN
                    IF to = p THEN NotFound
                    ELSE FindFrom(k, url, to, Append(params, SubSeq(url, p, to - 1)))
               ELSE IF IsPrefix(k.key, SubSeq(url, p, Len(url)))
                    THEN FindFrom(k, url, p + Len(k.key), params)
                    ELSE NotFound
         IN FoldLeft(UpdateFound, NotFound, [i \in DOMAIN n.children |-> Try(n.children[i])])

Find(trie, url) == FindFrom(trie, url, 1, <<>>)

----------------------------------------------------------------------------
(* The router.  A table is a sequence of rules [methods, url]; per_methods *)
(* has, for each method, the tree and the number of rules.                 *)

Methods == {"GET", "HEAD", "POST", "DELETE", "OPTIONS"}

\* internal_add_rule_object for one method: the rule, and the redirect of a
\* rule that ends in a slash.  `fails' is the exception of add.
AddRule(m, url) ==
    LET index  == m.count
        bare   == SubSeq(url, 1, Len(url) - 1)
        slash  == Len(url) > 1 /\ url[Len(url)] = "/"
        placed == Add(m.trie, url, index)
    IN [trie  |-> IF slash THEN Add(placed, bare, RedirectSlash) ELSE placed,
        count |-> index + 1,
        fails |-> \/ m.fails \/ RuleAt(m.trie, url) # 0
                  \/ slash /\ RuleAt(placed, bare) # 0]

PerMethod == [trie |-> Head0, count |-> 2, fails |-> FALSE]

\* Router::validate: the rules are added in their order, then optimised.
PerMethods(table) ==
    [m \in Methods |->
        LET Step(acc, rule) == IF m \in rule.methods THEN AddRule(acc, rule.url) ELSE acc
            all == FoldLeft(Step, PerMethod, table)
        IN [all EXCEPT !.trie = Optimize(@)]]

\* Router::handle_initial and handle: the status, the method whose rule
\* answers, the rule and the methods an OPTIONS answer allows.
Answer(status, m, found, allow) ==
    [status |-> status, method |-> m, rule |-> found.rule, params |-> found.params, allow |-> allow]

Matched(app, url) == {m \in Methods : Find(app[m].trie, url).rule # 0}

\* The methods of an OPTIONS answer; HEAD is always among them.
Allowed(app, url) ==
    LET matched == IF url = <<"/", "*">> THEN {m \in Methods : app[m].trie.children # <<>>}
                   ELSE Matched(app, url)
    IN IF matched = {} /\ url # <<"/", "*">> THEN {} ELSE matched \cup {"OPTIONS", "HEAD"}

Route(app, method, url) ==
    LET matched == Matched(app, url)
        actual  == IF method = "HEAD" /\ "HEAD" \notin matched THEN "GET" ELSE method
        found   == Find(app[actual].trie, url)
    IN CASE method = "OPTIONS" /\ Allowed(app, url) # {} -> Answer(204, method, NotFound, Allowed(app, url))
         [] method = "OPTIONS" \/ (method = "HEAD" /\ found.rule = 0) -> Answer(404, method, NotFound, {})
         [] found.rule = 0 -> Answer(IF matched = {} THEN 404 ELSE 405, method, NotFound, {})
         [] found.rule = RedirectSlash -> Answer(301, actual, found, {})
         [] OTHER -> Answer(200, actual, found, {})

\* Router::handle_upgrade: only a WebSocket rule, a rule of GET, takes the
\* socket (101); HEAD does not fall back to GET here.
Upgrade(app, method, url, webSocketRules) ==
    LET found == Find(app[method].trie, url)
    IN CASE found.rule = 0 -> IF Matched(app, url) = {} THEN 404 ELSE 405
         [] found.rule = RedirectSlash -> 301
         [] OTHER -> IF method = "GET" /\ found.rule \in webSocketRules THEN 101 ELSE 404

=============================================================================
