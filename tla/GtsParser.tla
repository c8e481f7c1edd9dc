----------------------------- MODULE GtsParser -----------------------------
(***************************************************************************)
(* The parser of GTS (parser/*.rs): precedence climbing for expressions,   *)
(* recursive descent for the rest, with a replay buffer for speculation    *)
(* (arrow parameters, for..of headers).                                    *)
(*                                                                         *)
(* The parser is a record                                                  *)
(*   s, n, prev     the text and the lexer's position in it                *)
(*   cur, peek      the two tokens of lookahead                            *)
(*   buf, marks     tokens to read again, and the open speculations        *)
(*   errs           whether an error was recorded                          *)
(*   stuck          a loop came round without having consumed a token: the *)
(*                  program would never end                                *)
(* A parse function maps a parser to [p, e], e being <<>> for None or      *)
(* <<tree>>.  A tree is a tuple that begins with the kind of its node.     *)
(***************************************************************************)
EXTENDS GtsLexer

Got(p, e) == [p |-> p, e |-> <<e>>]
Nothing(p) == [p |-> p, e |-> <<>>]
On(p, k) == p.cur.k = k
OnAny(p, ks) == p.cur.k \in ks
AddError(p) == [p EXCEPT !.errs = TRUE]
ErrorUnless(c, p) == IF c THEN p ELSE AddError(p)
Stuck(p) == [p EXCEPT !.stuck = TRUE]
OrNull(r) == IF r.e = <<>> THEN <<"null">> ELSE r.e[1]

---------------------------------------------------------------------------
(* Tokens, and speculation. *)

\* read_token: what was read before comes first; marks capture what the
\* lexer produces.
ReadToken(p) ==
    IF p.buf # <<>> THEN [tok |-> Head(p.buf), p |-> [p EXCEPT !.buf = Tail(@)]]
    ELSE LET l == LexToken(p.s, p.n, p.prev)
         IN  [tok |-> l.tok, p |-> [p EXCEPT !.n = l.to, !.prev = l.prev,
                !.marks = [i \in DOMAIN @ |-> [@[i] EXCEPT !.captured = Append(@, l.tok)]]]]
NextToken(p) == LET r == ReadToken(p) IN [r.p EXCEPT !.cur = p.peek, !.peek = r.tok]
Skip2(p) == NextToken(NextToken(p))
SkipIf(p, k) == IF On(p, k) THEN NextToken(p) ELSE p

Mark(p) == [p EXCEPT !.marks = Append(@, [cur |-> p.cur, peek |-> p.peek, buf |-> p.buf,
                                          captured |-> <<>>])]
RewindDropsMutant(p, i) ==
    LET m == p.marks[i]
    IN  [p EXCEPT !.marks = SubSeq(@, 1, i - 1), !.cur = m.cur, !.peek = m.peek, !.buf = m.buf]

\* rewind to mark i: the captured tokens go ahead of the buffer as it was.
Rewind(p, i) ==
    LET m == p.marks[i]
    IN  [p EXCEPT !.marks = SubSeq(@, 1, i - 1), !.cur = m.cur, !.peek = m.peek,
                  !.buf = m.captured \o m.buf]
Commit(p, i) == [p EXCEPT !.marks = RemoveAt(@, i)]

NewParser(s) ==
    LET a == LexToken(s, 1, "eof")
        b == LexToken(s, a.to, a.prev)
    IN  [s |-> s, n |-> b.to, prev |-> b.prev, cur |-> a.tok, peek |-> b.tok, buf |-> <<>>,
         marks |-> <<>>, errs |-> FALSE, stuck |-> FALSE]

\* precedence_of
Assignments == {"=", "+=", "-=", "*=", "/=", "%=", ">>=", ">>>=", "&=", "|=", "^="}
Levels == <<{","}, Assignments \cup {"=>"}, {"?"}, {"||", "??"}, {"&&"}, {"|"}, {"^"}, {"&"},
            {"===", "!=="}, {"<", "<=", ">", ">=", "in", "instanceof"}, {"<<", ">>", ">>>"}, {"+", "-"},
            {"*", "/", "%"}, {"**"}, {}, {"++", "--"}, {"(", ".", "[", "?."}>>
Level(k) == IF \E i \in DOMAIN Levels : k \in Levels[i] THEN CHOOSE i \in DOMAIN Levels : k \in Levels[i] ELSE 0
Comma == 1
AssignLevel == 2
PrefixLevel == 15
CallLevel == 17

RECURSIVE Sync(_), ParseExpression(_, _), Climb(_, _, _), ParsePrefix(_), ParseInfix(_, _),
    ParseElements(_, _), ParseArgs(_, _), ParseProperties(_, _), ParseParamList(_, _), TryParamList(_, _),
    ParseType(_), SkipBalanced(_, _, _, _), ParseUnion(_, _), ParseStatement(_), Statements(_, _, _),
    ParseIf(_), PrimaryPattern(_), ParseMatch(_), ParseClass(_), ArrayBinding(_, _), ObjectBinding(_, _), Members(_, _), Names(_, _), Arms(_, _), Alternatives(_, _)

\* sync: on to something a statement can begin with.
Sync(p) ==
    IF On(p, ";") THEN NextToken(p)
    ELSE IF OnAny(p, {"eof", "{", "}", "let", "const", "var", "function", "class", "if", "while", "for",
                      "return", "break", "continue", "try", "throw", "import", "export", "match"}) THEN p
    ELSE Sync(NextToken(p))

---------------------------------------------------------------------------
(* Expressions. *)
ParseExpression(p, prec) ==
    LET r == ParsePrefix(p)
        q == IF r.p.cur.at = p.cur.at THEN NextToken(r.p) ELSE r.p
    IN  IF r.e = <<>> THEN r ELSE Climb(q, prec, r.e[1])

\* The loop of parse_expression: an infix that fails ends it.
Climb(p, prec, left) ==
    IF p.stuck \/ Level(p.cur.k) <= prec THEN Got(p, left)
    ELSE LET r == ParseInfix(p, left)
         IN  IF r.e = <<>> THEN Got(r.p, left) ELSE Climb(r.p, prec, r.e[1])

\* Wrap a tree that was parsed, or pass None on.
Wrap(r, F(_)) == IF r.e = <<>> THEN r ELSE Got(r.p, F(r.e[1]))

ParseBlock(p) ==
    LET r == Statements(NextToken(p), <<>>, TRUE)
    IN  [p |-> IF On(r.p, "}") THEN NextToken(r.p) ELSE AddError(r.p), e |-> r.e]

\* parse_arrow_lambda, on =>
ParseArrow(p, params) ==
    LET q == NextToken(p)
        b == ParseBlock(q)
    IN  IF On(q, "{") THEN Got(b.p, <<"Arrow", FALSE, params, "block", b.e>>)
        ELSE Wrap(ParseExpression(q, Comma), LAMBDA e : <<"Arrow", FALSE, params, "expr", e>>)

NoParam(name) == <<name, FALSE, FALSE, <<>>, <<>>>>   \* name, spread, optional, type, default

\* parse_paren_or_arrow, behind the parenthesis: parameters first, then again
\* as an expression.
ParseParen(p0) ==
    LET p    == NextToken(p0)
        try  == TryParamList(Mark(p), <<>>)
        here == Len(p.marks) + 1
        r    == ParseExpression(Rewind(try.p, here), Comma)
        q    == SkipIf(r.p, ")")
    IN  IF On(p, ")") THEN LET a == NextToken(p) IN IF On(a, "=>") THEN ParseArrow(a, <<>>) ELSE Nothing(a)
        ELSE IF try.e # <<>> /\ On(try.p, "=>") THEN ParseArrow(Commit(try.p, here), try.e[1])
        ELSE IF r.e = <<>> THEN r
        ELSE IF On(q, "=>") THEN ParseArrow(q, <<NoParam("_")>>)
        ELSE Got(q, r.e[1])

\* parse_array, from an element on; a trailing comma is skipped.
ParseElements(p, acc) ==
    LET spread == On(p, "...")
        r == ParseExpression(IF spread THEN NextToken(p) ELSE p, Comma)
        e == IF spread THEN <<"Spread", r.e[1]>> ELSE r.e[1]
        q == NextToken(r.p)
    IN  IF r.e = <<>> THEN r
        ELSE IF ~On(r.p, ",") \/ On(q, "]")
             THEN Got(LET z == SkipIf(r.p, ",") IN IF On(z, "]") THEN NextToken(z) ELSE AddError(z),
                      <<"Array", Append(acc, e)>>)
        ELSE ParseElements(q, Append(acc, e))

ParseArray(p) == LET q == NextToken(p)
                 IN  IF On(q, "]") THEN Got(NextToken(q), <<"Array", <<>>>>) ELSE ParseElements(q, <<>>)

\* parse_call_args; an argument that fails is left out.
ParseArgs(p, acc) ==
    LET spread == On(p, "...")
        r == ParseExpression(IF spread THEN NextToken(p) ELSE p, Comma)
        args == IF spread THEN Append(acc, <<"Spread", OrNull(r)>>)
                ELSE acc \o r.e
    IN  IF On(p, ")") /\ acc = <<>> THEN [p |-> p, e |-> <<>>]
        ELSE IF On(r.p, ",") THEN ParseArgs(NextToken(r.p), args)
        ELSE [p |-> r.p, e |-> args]
Args(p) == LET r == ParseArgs(NextToken(p), <<>>)
           IN  [p |-> IF On(r.p, ")") THEN NextToken(r.p) ELSE AddError(r.p), e |-> r.e]

\* parse_func_params, on the parenthesis: parameters and return type.
ReturnType(p) == IF On(p, ":") THEN ParseType(NextToken(p)) ELSE Nothing(p)
ParseFuncParams(p) ==
    LET q == NextToken(p)
        r == ParseParamList(q, <<>>)
        t == ReturnType(NextToken(ErrorUnless(On(r.p, ")"), r.p)))
    IN  IF ~On(p, "(") THEN [p |-> AddError(p), e |-> <<>>]
        ELSE IF On(q, ")") THEN [p |-> ReturnType(NextToken(q)).p, e |-> <<>>]
        ELSE [p |-> t.p, e |-> r.e]

Type(kind, x, optional) == <<"Type", kind, x, optional>>
MakeOptional(t) == [t EXCEPT ![4] = TRUE]

\* parse_param and its default value.
ParseParam(p0) ==
    LET spread   == On(p0, "...")
        p        == IF spread THEN NextToken(p0) ELSE p0
        q        == NextToken(p)
        optional == On(q, "?")
        t        == ReturnType(IF optional THEN NextToken(q) ELSE q)
        type     == IF ~optional THEN t.e
                    ELSE <<IF t.e = <<>> THEN Type("Primitive", "any", TRUE) ELSE MakeOptional(t.e[1])>>
        d        == IF On(t.p, "=") THEN ParseExpression(NextToken(t.p), Comma) ELSE Nothing(t.p)
    IN  [p |-> d.p, e |-> <<p.cur.v, spread, optional, type, d.e>>]
ParseParamList(p, acc) ==
    LET r == ParseParam(p)
    IN  IF On(r.p, ",") THEN ParseParamList(NextToken(r.p), Append(acc, r.e))
        ELSE [p |-> r.p, e |-> Append(acc, r.e)]

\* try_parse_param_list: None as soon as it cannot be one.
TryParamList(p, acc) ==
    LET q == SkipIf(p, "...")
        r == ParseParam(p)
    IN  IF ~On(q, "Ident") THEN Nothing(q)
        ELSE IF On(r.p, ",") THEN TryParamList(NextToken(r.p), Append(acc, r.e))
        ELSE IF On(r.p, ")") THEN Got(NextToken(r.p), Append(acc, r.e))
        ELSE Nothing(r.p)

\* parse_property.  None without having moved is for the caller to notice.
FuncOf(p, name, async) ==
    LET ps == ParseFuncParams(p)
        b  == ParseBlock(ps.p)
    IN  [p |-> b.p, e |-> <<"Func", name, async, ps.e, b.e>>]
ParseProperty(p) ==
    LET q    == NextToken(p)
        key  == ParseExpression(q, Comma)
        past == NextToken(ErrorUnless(On(key.p, "]"), key.p))
        f    == FuncOf(q, p.cur.v, FALSE)
        kind == IF OnAny(p, {"String", "Number"}) THEN p.cur.k ELSE "Ident"
    IN  IF On(p, "...") THEN Wrap(key, LAMBDA e : <<"spread", e>>)
        ELSE IF On(p, "[")
        THEN IF key.e = <<>> THEN key
             ELSE Wrap(ParseExpression(NextToken(ErrorUnless(On(past, ":"), past)), Comma),
                       LAMBDA e : <<"computed", key.e[1], e>>)
        ELSE IF ~OnAny(p, {"Ident", "String", "Number"} \cup Keywords) THEN Nothing(AddError(p))
        ELSE IF On(q, "(") /\ kind = "Ident" THEN Got(f.p, <<"pair", <<kind, p.cur.v>>, f.e>>)
        ELSE IF On(q, ":") THEN Wrap(ParseExpression(NextToken(q), Comma),
                                     LAMBDA e : <<"pair", <<kind, p.cur.v>>, e>>)
        ELSE Got(q, <<"short", <<kind, p.cur.v>>>>)

ParseProperties(p, acc) ==
    LET r == ParseProperty(p)
        q == SkipIf(r.p, ",")
    IN  IF OnAny(p, {"}", "eof"}) \/ p.stuck
        THEN Got(IF On(p, "}") THEN NextToken(p) ELSE AddError(p), <<"Object", acc>>)
        ELSE IF q.cur.at = p.cur.at THEN Got(Stuck(q), <<"Object", acc>>)
        ELSE ParseProperties(q, acc \o r.e)

\* parse_new: the callee is an atom.
ParseNew(p) ==
    LET r == ParseExpression(NextToken(p), CallLevel)
        a == Args(r.p)
    IN  IF r.e = <<>> THEN r
        ELSE IF On(r.p, "(") THEN Got(a.p, <<"New", r.e[1], a.e>>) ELSE Got(r.p, <<"New", r.e[1], <<>>>>)

ParseFunctionExpr(p, async) ==
    LET named == p.peek.k = "Ident"
        q     == IF named THEN NextToken(p) ELSE p
        f     == FuncOf(NextToken(q), IF named THEN q.cur.v ELSE "", async)
    IN  Got(f.p, f.e)

\* parse_async_func_expr
MakeAsync(e) == IF e[1] = "Arrow" THEN [e EXCEPT ![2] = TRUE] ELSE e
ParseAsync(p) ==
    LET q == NextToken(p)
        a == NextToken(q)
    IN  IF On(q, "function") THEN ParseFunctionExpr(q, TRUE)
        ELSE IF On(q, "(") THEN Wrap(ParseParen(q), MakeAsync)
        ELSE IF On(q, "Ident") /\ On(a, "=>") THEN Wrap(ParseArrow(a, <<NoParam(q.cur.v)>>), MakeAsync)
        ELSE LET z == IF On(q, "Ident") THEN a ELSE q IN Got(z, <<"Ident", z.cur.v>>)

\* import(...) as an expression.
ParseDynamicImport(p) ==
    LET q == Skip2(p)
        r == ParsePrefix(q)
        a == NextToken(IF On(q, "String") THEN q ELSE r.p)
        source == IF On(q, "String") THEN <<"String", q.cur.v>>
                  ELSE IF r.e = <<>> THEN <<"Undefined">> ELSE r.e[1]
    IN  Got(IF On(a, ")") THEN NextToken(a) ELSE AddError(a), <<"DynamicImport", source>>)

Atoms == [k \in {"Ident", "Number", "String", "Template", "Regexp"} |-> k]
Constants == {"true", "false", "null", "undefined", "this", "super"}

ParsePrefix(p) ==
    LET q == NextToken(p) IN
    CASE On(p, "import") /\ p.peek.k = "(" -> ParseDynamicImport(p)
      [] OnAny(p, DOMAIN Atoms)  -> Got(p, <<p.cur.k, p.cur.v>>)
      [] OnAny(p, Constants)     -> Got(p, <<p.cur.k>>)
      [] OnAny(p, {"!", "-", "+", "~", "typeof", "void", "delete", "++", "--"}) ->
            Wrap(ParseExpression(q, PrefixLevel), LAMBDA e : <<"Prefix", p.cur.v, e>>)
      [] On(p, "await")    -> Wrap(ParseExpression(q, PrefixLevel), LAMBDA e : <<"Await", e>>)
      [] On(p, "(")        -> ParseParen(p)
      [] On(p, "[")        -> ParseArray(p)
      [] On(p, "{")        -> ParseProperties(q, <<>>)
      [] On(p, "new")      -> ParseNew(p)
      [] On(p, "match")    -> ParseMatch(p)
      [] On(p, "function") -> ParseFunctionExpr(p, FALSE)
      [] On(p, "async")    -> ParseAsync(p)
      [] On(p, "class")    -> ParseClass(p)
      [] OTHER             -> Nothing(AddError(p))

Binary == UNION {Levels[i] : i \in {4, 5, 6, 7, 8, 9, 10, 11, 12, 13, 14}}

\* parse_infix.  Operators of one level associate to the left, assignments
\* too.
ParseInfix(p, left) ==
    LET k == p.cur.k
        q == NextToken(p)
        index == ParseExpression(IF k = "[" THEN q ELSE NextToken(q), Comma)
        a == Args(IF k = "(" THEN p ELSE q)
        c == ParseExpression(q, Comma)
        Closed(r, F(_)) == IF r.e = <<>> THEN r
                           ELSE Got(IF On(r.p, "]") THEN NextToken(r.p) ELSE IF k = "[" THEN AddError(r.p)
                                    ELSE r.p, F(r.e[1]))
    IN  CASE k \in Binary -> Wrap(ParseExpression(q, Level(k)), LAMBDA e : <<"Infix", k, left, e>>)
          [] k = "(" -> Got(a.p, <<"Call", left, a.e>>)
          [] k = "." -> Got(NextToken(q), <<"Member", left, q.cur.v>>)
          [] k = "[" -> Closed(index, LAMBDA e : <<"Index", left, e>>)
          [] k = "?." /\ On(q, "[") -> Closed(index, LAMBDA e : <<"OptIndex", left, e>>)
          [] k = "?." /\ On(q, "(") ->
                LET r == ParseArgs(NextToken(q), <<>>) IN Got(SkipIf(r.p, ")"), <<"OptCall", left, r.e>>)
          [] k = "?." /\ ~OnAny(q, {"[", "("}) -> Got(NextToken(q), <<"OptMember", left, q.cur.v>>)
          [] k \in {"++", "--"} -> Got(q, <<"Postfix", k, left>>)
          [] k = "?" ->
                IF c.e = <<>> THEN c
                ELSE IF ~On(c.p, ":") THEN Got(AddError(c.p), left)
                ELSE Wrap(ParseExpression(NextToken(c.p), Comma),
                          LAMBDA e : <<"Ternary", left, c.e[1], e>>)
          [] k = "=>" -> IF left[1] = "Ident" THEN ParseArrow(p, <<NoParam(left[2])>>) ELSE Got(q, left)
          [] k \in Assignments ->
                Wrap(ParseExpression(q, AssignLevel), LAMBDA e : <<"Assign", k, left, e>>)
          [] OTHER -> Nothing(p)

---------------------------------------------------------------------------
(* Types: what they say is kept for names, arrays and unions only. *)

\* skip_generic_args, skip_object_type and the list of parse_function_type.
SkipBalanced(p, opens, closes, depth) ==
    LET closing == IF OnAny(p, closes) THEN 1 ELSE IF On(p, ">>") /\ ">" \in closes THEN 2 ELSE 0
        d == depth - closing + (IF OnAny(p, opens) THEN 1 ELSE 0)
    IN  IF On(p, "eof") THEN p
        ELSE IF closing > 0 /\ d <= 0 THEN NextToken(p)
        ELSE SkipBalanced(NextToken(p), opens, closes, d)

PrimaryType(p) ==
    LET f == SkipBalanced(p, {"(", "[", "{"}, {")", "]", "}"}, 0)
        q == NextToken(p)
        g == IF On(q, "<") THEN SkipBalanced(q, {"<"}, {">"}, 0) ELSE q
        t == Type("Primitive", p.cur.v, FALSE)
    IN  IF On(p, "(")
        THEN Got(IF On(f, "=>") THEN ParseType(NextToken(f)).p ELSE f, Type("Function", "", FALSE))
        ELSE IF On(p, "{") THEN Got(SkipBalanced(p, {"{"}, {"}"}, 0), Type("Object", "", FALSE))
        ELSE IF On(g, "[") /\ g.peek.k = "]" THEN Got(Skip2(g), Type("Array", t, FALSE))
        ELSE IF On(g, "?") THEN Got(NextToken(g), MakeOptional(t))
        ELSE Got(g, t)

ParseUnion(p, acc) ==
    LET r == PrimaryType(NextToken(p))
    IN  IF On(p, "|") THEN ParseUnion(r.p, acc \o r.e) ELSE [p |-> p, e |-> acc]
ParseType(p) ==
    LET r == PrimaryType(p)
        u == ParseUnion(r.p, r.e)
        t == IF Len(u.e) > 1 THEN Type("Union", u.e, FALSE) ELSE u.e[1]
    IN  IF On(u.p, "?") THEN Got(NextToken(u.p), MakeOptional(t)) ELSE Got(u.p, t)

---------------------------------------------------------------------------
(* match *)
LiteralKinds == {"Number", "String", "true", "false", "null", "undefined"}
Tree(p) == IF OnAny(p, DOMAIN Atoms) THEN <<p.cur.k, p.cur.v>> ELSE <<p.cur.k>>

\* parse_primary_pattern; the end of a range after a number is one token.
PrimaryPattern(p) ==
    LET q     == NextToken(p)
        z     == NextToken(q)
        range == OnAny(q, {"..", "..="}) /\ OnAny(p, {"Number", "Ident"})
        e     == ParseExpression(z, Comma)
    IN  IF ~OnAny(p, LiteralKinds \cup {"Ident"}) THEN Nothing(AddError(p))
        ELSE IF range
        THEN IF On(p, "Number") /\ OnAny(z, {"Number", "String"})
             THEN Got(NextToken(z), <<"Range", Tree(p), Tree(z), q.cur.k>>)
             ELSE Got(e.p, <<"Range", Tree(p), OrNull(e), q.cur.k>>)
        ELSE IF ~On(p, "Ident")
        THEN LET a == Alternatives(q, <<<<"Literal", Tree(p)>>>>)
             IN  Got(a.p, IF Len(a.e) > 1 THEN <<"Or", a.e>> ELSE a.e[1])
        ELSE Got(q, IF p.cur.v = "_" THEN <<"Wildcard">> ELSE <<"Binding", p.cur.v>>)

\* The loops of parse_or_pattern_continue and parse_pattern.
Alternatives(p, acc) ==
    LET r == PrimaryPattern(NextToken(p))
    IN  IF On(p, "|") THEN Alternatives(r.p, acc \o r.e) ELSE [p |-> p, e |-> acc]
ParsePattern(p) ==
    LET r == PrimaryPattern(p)
        a == Alternatives(r.p, r.e)
    IN  IF r.e = <<>> \/ ~On(r.p, "|") THEN r ELSE Got(a.p, <<"Or", a.e>>)

ParseArm(p) ==
    LET pat   == ParsePattern(p)
        name  == NextToken(pat.p)
        close == NextToken(name)
        bound == On(pat.p, "(")
        h     == IF bound THEN NextToken(close) ELSE pat.p
        g     == IF On(h, "if") THEN ParseExpression(NextToken(h), AssignLevel) ELSE Nothing(h)
        q     == NextToken(g.p)
        b     == ParseBlock(q)
        bind  == IF bound THEN name.cur.v ELSE ""
    IN  IF pat.e = <<>> THEN pat
        ELSE IF bound /\ ~On(name, "Ident") THEN Nothing(AddError(name))
        ELSE IF bound /\ ~On(close, ")") THEN Nothing(AddError(close))
        ELSE IF ~On(g.p, "=>") THEN Nothing(AddError(g.p))
        ELSE IF On(q, "{") THEN Got(b.p, <<"Arm", pat.e[1], bind, g.e, "block", b.e>>)
        ELSE Wrap(ParseExpression(q, Comma), LAMBDA e : <<"Arm", pat.e[1], bind, g.e, "expr", e>>)

Arms(p, acc) ==
    LET r == ParseArm(p)
    IN  IF OnAny(p, {"}", "eof"}) \/ p.stuck THEN [p |-> SkipIf(p, "}"), e |-> acc]
        ELSE IF On(r.p, "}") THEN [p |-> NextToken(r.p), e |-> acc \o r.e]
        ELSE Arms(NextToken(r.p), acc \o r.e)
ParseMatch(p) ==
    LET subject == ParseExpression(NextToken(p), Comma)
        r == Arms(NextToken(subject.p), <<>>)
    IN  IF subject.e = <<>> THEN Got(subject.p, <<"null">>)
        ELSE IF ~On(subject.p, "{") THEN Got(AddError(subject.p), <<"null">>)
        ELSE Got(r.p, <<"Match", subject.e[1], r.e>>)

---------------------------------------------------------------------------
(* Statements. *)

\* The loops of parse_program and parse_block.
Statements(p, acc, block) ==
    LET r == ParseStatement(p)
    IN  IF On(p, "eof") \/ p.stuck \/ (block /\ On(p, "}")) THEN [p |-> p, e |-> acc]
        ELSE IF r.p.cur.at = p.cur.at THEN [p |-> Stuck(r.p), e |-> acc]
        ELSE Statements(r.p, acc \o r.e, block)

SkipSemi(r) == [r EXCEPT !.p = SkipIf(r.p, ";")]
Initializer(p) == IF On(p, "=") THEN ParseExpression(NextToken(p), Comma) ELSE Nothing(p)

\* parse_binding_pattern.  Neither loop ends at the end of the text.
ArrayBinding(p, acc) ==
    LET q == NextToken(p)
        r == Initializer(q)
        z == SkipIf(r.p, ",")
    IN  IF On(p, "]") THEN [p |-> NextToken(p), e |-> <<"ArrayPattern", acc>>]
        ELSE IF On(p, "eof") \/ p.stuck THEN [p |-> Stuck(p), e |-> <<"ArrayPattern", acc>>]
        ELSE IF On(p, "...")
        THEN [p |-> NextToken(NextToken(q)), e |-> <<"ArrayPattern", Append(acc, <<q.cur.v, <<>>, TRUE>>)>>]
        ELSE IF On(p, ",") THEN ArrayBinding(q, Append(acc, <<"", <<>>, FALSE>>))
        ELSE ArrayBinding(z, Append(acc, <<p.cur.v, r.e, FALSE>>))
ObjectBinding(p, acc) ==
    LET q      == NextToken(p)
        rename == On(q, ":")
        target == IF rename THEN NextToken(q).cur.v ELSE p.cur.v
        r      == Initializer(IF rename THEN Skip2(q) ELSE q)
    IN  IF On(p, "}") THEN [p |-> NextToken(p), e |-> <<"ObjectPattern", acc>>]
        ELSE IF On(p, "eof") \/ p.stuck THEN [p |-> Stuck(p), e |-> <<"ObjectPattern", acc>>]
        ELSE ObjectBinding(SkipIf(r.p, ","), Append(acc, <<p.cur.v, target, r.e>>))

ParseVarDecl(p) ==
    LET q == NextToken(p)
        b == IF On(q, "[") THEN ArrayBinding(NextToken(q), <<>>) ELSE ObjectBinding(NextToken(q), <<>>)
        v == Initializer(b.p)
        t == ReturnType(NextToken(q))
        w == Initializer(t.p)
    IN  SkipSemi(IF OnAny(q, {"[", "{"}) THEN Got(v.p, <<"Decl", p.cur.k, b.e, <<>>, v.e>>)
                 ELSE Got(w.p, <<"Decl", p.cur.k, <<"Name", q.cur.v>>, t.e, w.e>>))

\* The condition of if and while, and the block behind it.
Condition(p) == ParseExpression(Skip2(p), Comma)
Body(c) == ParseBlock(NextToken(ErrorUnless(On(c.p, ")"), c.p)))

ParseIf(p) ==
    LET c == Condition(p)
        b == Body(c)
        q == NextToken(b.p)
        a == ParseBlock(q)
    IN  IF p.peek.k # "(" THEN Nothing(AddError(p))
        ELSE IF c.e = <<>> THEN c
        ELSE IF ~On(b.p, "else") THEN Got(b.p, <<"If", c.e[1], b.e, <<>>>>)
        ELSE IF On(q, "if") THEN LET i == ParseIf(q) IN Got(i.p, <<"If", c.e[1], b.e, i.e>>)
        ELSE Got(a.p, <<"If", c.e[1], b.e, <<<<"Block", a.e>>>>>>)

ParseWhile(p) ==
    LET c == Condition(p)
        b == Body(c)
    IN  IF p.peek.k # "(" THEN Nothing(AddError(p))
        ELSE IF c.e = <<>> THEN c ELSE Got(b.p, <<"While", c.e[1], b.e>>)

\* parse_for: for..in and for..of are tried first; their mark stays.
ParseFor(p) ==
    LET h    == Skip2(p)
        m    == Mark(h)
        x    == IF OnAny(m, {"let", "const", "var"}) THEN NextToken(m) ELSE m
        op   == NextToken(x)
        over == ParseExpression(NextToken(op), Comma)
        each == Body(over)
        c0   == IF OnAny(h, {"let", "const", "var", "Ident"})
                THEN Rewind(IF On(x, "Ident") THEN op ELSE x, Len(h.marks) + 1) ELSE h
        init == IF On(c0, ";") THEN Nothing(NextToken(c0))
                ELSE IF OnAny(c0, {"let", "const", "var"}) THEN ParseVarDecl(c0)
                ELSE SkipSemi(Wrap(ParseExpression(c0, Comma), LAMBDA e : <<"Expr", e>>))
        cond == IF OnAny(init.p, {";", ")"}) THEN Nothing(init.p) ELSE ParseExpression(init.p, Comma)
        semi == IF On(cond.p, ";") THEN NextToken(cond.p) ELSE ErrorUnless(On(cond.p, ")"), cond.p)
        post == IF On(semi, ")") THEN Nothing(semi) ELSE ParseExpression(semi, Comma)
        b    == ParseBlock(IF On(post.p, ")") THEN NextToken(post.p) ELSE AddError(post.p))
    IN  IF p.peek.k # "(" THEN Nothing(AddError(p))
        ELSE IF OnAny(h, {"let", "const", "var", "Ident"}) /\ On(x, "Ident") /\ OnAny(op, {"in", "of"})
        THEN IF over.e = <<>> THEN over ELSE Got(each.p, <<"ForEach", op.cur.k, x.cur.v, over.e[1], each.e>>)
        ELSE IF init.e = <<>> /\ ~On(c0, ";") THEN init
        ELSE Got(b.p, <<"For", init.e, cond.e, post.e, b.e>>)

ParseReturn(p) ==
    LET q == NextToken(p)
        r == IF OnAny(q, {";", "}", "eof"}) THEN Nothing(q) ELSE ParseExpression(q, Comma)
    IN  SkipSemi(Got(r.p, <<"Return", r.e>>))
\* parse_break, parse_continue
ParseJump(p) ==
    LET q == IF p.peek.k = "Ident" THEN NextToken(p) ELSE p
    IN  SkipSemi(Got(NextToken(q), <<"Jump", p.cur.k, IF p.peek.k = "Ident" THEN q.cur.v ELSE "">>))
ParseThrow(p) ==
    LET r == ParseExpression(NextToken(p), Comma) IN SkipSemi(Got(r.p, <<"Throw", OrNull(r)>>))

\* parse_try.  Behind a type in catch one token too many is skipped.
ParseTry(p) ==
    LET b     == ParseBlock(NextToken(p))
        name  == Skip2(b.p)
        typed == On(name, "Ident") /\ name.peek.k = ":"
        t     == IF typed THEN ParseType(Skip2(name)) ELSE Nothing(name)
        close == NextToken(t.p)
        c     == ParseBlock(NextToken(ErrorUnless(On(close, ")"), close)))
        catch == IF On(b.p, "catch")
                 THEN Got(c.p, <<IF On(name, "Ident") THEN name.cur.v ELSE "", t.e, c.e>>) ELSE Nothing(b.p)
        f     == ParseBlock(NextToken(catch.p))
    IN  IF On(catch.p, "finally") THEN Got(f.p, <<"Try", b.e, catch.e, <<f.e>>>>)
        ELSE Got(catch.p, <<"Try", b.e, catch.e, <<>>>>)

\* parse_func_decl
ParseFuncDecl(p, async) ==
    LET q == IF p.peek.k = "Ident" THEN NextToken(p) ELSE AddError(p)
        f == FuncOf(NextToken(q), q.cur.v, async)
    IN  Got(f.p, <<"FuncDecl", f.e>>)

---------------------------------------------------------------------------
(* Classes, imports, exports. *)

\* parse_class_member; a semicolon between members is not skipped.
Member(p) ==
    LET static == On(p, "static")
        q      == IF static THEN NextToken(p) ELSE p
        async  == On(q, "async")
        name   == IF async THEN NextToken(q) ELSE q
        h      == NextToken(name)
        f      == FuncOf(h, name.cur.v, async)
        t      == ReturnType(h)
        v      == Initializer(t.p)
        kind   == IF name.cur.v = "constructor" THEN "constructor" ELSE "method"
    IN  IF On(p, ";") THEN Nothing(p)
        ELSE IF On(h, "(") THEN Got(f.p, <<kind, static, f.e>>)
        ELSE SkipSemi(Got(v.p, <<"field", static, name.cur.v, t.e, v.e>>))
Members(p, acc) ==
    LET r == Member(p)
    IN  IF OnAny(p, {"}", "eof"}) \/ p.stuck THEN [p |-> SkipIf(p, "}"), e |-> acc]
        ELSE IF r.p.cur.at = p.cur.at THEN [p |-> Stuck(p), e |-> acc]
        ELSE Members(r.p, acc \o r.e)
ParseClass(p) ==
    LET name == NextToken(p)
        q    == NextToken(name)
        sup  == IF On(q, "extends") THEN ParseExpression(NextToken(q), Comma) ELSE Nothing(q)
        r    == Members(NextToken(sup.p), <<>>)
    IN  IF p.peek.k # "Ident" \/ ~On(sup.p, "{") THEN Nothing(AddError(IF p.peek.k # "Ident" THEN p ELSE sup.p))
        ELSE Got(r.p, <<"Class", name.cur.v, sup.e, r.e>>)

\* { a, b as c } of import and export.
Names(p, acc) ==
    LET q == NextToken(p)
        z == Skip2(q)
    IN  IF OnAny(p, {"}", "eof"}) THEN [p |-> NextToken(p), e |-> acc]
        ELSE IF On(q, "as") THEN Names(SkipIf(z, ","), Append(acc, <<p.cur.v, NextToken(q).cur.v>>))
        ELSE Names(SkipIf(q, ","), Append(acc, <<p.cur.v, p.cur.v>>))

ParseImport(p) ==
    LET q    == NextToken(p)
        as   == NextToken(q)
        star == On(q, "*")
        d    == IF star THEN NextToken(NextToken(as)) ELSE q
        def  == On(d, "Ident") /\ d.peek.k # "{"
        b    == IF ~def THEN d ELSE IF d.peek.k = "," THEN Skip2(d) ELSE NextToken(d)
        ns   == IF On(b, "{") THEN Names(NextToken(b), <<>>) ELSE [p |-> b, e |-> <<>>]
        src  == NextToken(ns.p)
        tree(from) == <<"Import", IF star THEN NextToken(as).cur.v ELSE "", IF def THEN d.cur.v ELSE "", ns.e, from>>
    IN  IF star /\ ~On(as, "as") THEN Got(AddError(as), <<"Import", "", "", <<>>, "">>)
        ELSE IF ~On(ns.p, "from") THEN Got(AddError(ns.p), tree(""))
        ELSE SkipSemi(Got(NextToken(src), tree(src.cur.v)))

ParseExport(p) ==
    LET q    == NextToken(p)
        def  == ParseExpression(NextToken(q), Comma)
        star == On(q, "*")
        ns   == IF star THEN LET z == NextToken(q) IN [p |-> IF On(z, "as") THEN NextToken(Skip2(z)) ELSE z, e |-> <<>>]
                ELSE Names(NextToken(q), <<>>)
        src  == NextToken(ns.p)
        s    == ParseStatement(q)
    IN  IF On(q, "default")
        THEN SkipSemi(Wrap(def, LAMBDA e : <<"Export", "default", <<<<"Expr", e>>>>>>))
        ELSE IF ~star /\ ~On(q, "{") THEN Got(s.p, <<"Export", "decl", s.e>>)
        ELSE SkipSemi(IF On(ns.p, "from") THEN Got(NextToken(src), <<"Reexport", star, ns.e, src.cur.v>>)
                      ELSE Got(ns.p, <<"Reexport", star, ns.e, "">>))

\* parse_statement
ExprStatement(p) ==
    LET r == ParseExpression(p, Comma)
    IN  IF r.e # <<>> THEN SkipSemi(Got(r.p, <<"Expr", r.e[1]>>)) ELSE Nothing(Sync(r.p))
ParseStatement(p) ==
    LET b == ParseBlock(p)
        f == NextToken(p)
        i == ParseExpression(p, Comma)
    IN  CASE OnAny(p, {"let", "const", "var"}) -> ParseVarDecl(p)
          [] On(p, "if")       -> ParseIf(p)
          [] On(p, "while")    -> ParseWhile(p)
          [] On(p, "for")      -> ParseFor(p)
          [] On(p, "return")   -> ParseReturn(p)
          [] OnAny(p, {"break", "continue"}) -> ParseJump(p)
          [] On(p, "throw")    -> ParseThrow(p)
          [] On(p, "try")      -> ParseTry(p)
          [] On(p, "{")        -> Got(b.p, <<"Block", b.e>>)
          [] On(p, "function") -> ParseFuncDecl(p, FALSE)
          [] On(p, "class")    -> ParseClass(p)
          [] On(p, "async")    -> IF On(f, "function") THEN ParseFuncDecl(f, TRUE) ELSE Nothing(f)
          [] On(p, "import") /\ p.peek.k = "(" -> SkipSemi(Wrap(i, LAMBDA e : <<"Expr", e>>))
          [] On(p, "import") /\ p.peek.k # "(" -> ParseImport(p)
          [] On(p, "export")   -> ParseExport(p)
          [] On(p, "match")    -> SkipSemi(Wrap(ParseMatch(p), LAMBDA e : <<"Expr", e>>))
          [] On(p, "}")        -> Nothing(NextToken(AddError(p)))
          [] On(p, "Ident") /\ p.peek.k = ":" ->
                Wrap(ParseStatement(Skip2(p)), LAMBDA s : <<"Labeled", p.cur.v, s>>)
          [] OTHER             -> ExprStatement(p)

\* parse_program
ParseProgram(s) == LET r == Statements(NewParser(s), <<>>, FALSE)
                   IN  [body |-> r.e, errs |-> r.p.errs, stuck |-> r.p.stuck]
=============================================================================
