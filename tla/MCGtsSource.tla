---------------------------- MODULE MCGtsSource ----------------------------
(***************************************************************************)
(* The statements that are written and read back: every kind of expression *)
(* in every place of every kind, and in every place of every statement.    *)
(***************************************************************************)
EXTENDS GtsSource

Named(x) == <<"Ident", x>>
VarA == Named("a")
VarB == Named("b")
NumberOne == <<"Number", "1">>
TypeT == <<"Type", "Primitive", "T", FALSE>>
Par(n, d) == <<n, FALSE, FALSE, <<>>, d>>
Nodes(x, y) ==
    {<<"Infix", op, x, y>> : op \in {"||", "&&", "|", "&", "===", "<", ">>", "+", "-", "*", "/", "instanceof"}}
    \cup {<<"Assign", op, x, y>> : op \in {"=", "+="}}
    \cup {<<"Prefix", op, x>> : op \in {"!", "-", "typeof"}}
    \cup {<<"Await", x>>, <<"Postfix", "++", x>>, <<"Ternary", x, y, VarA>>, <<"Ternary", VarA, x, y>>,
          <<"Call", x, <<y>>>>, <<"Call", VarA, <<x, <<"Spread", y>>>>>>, <<"OptCall", x, <<y>>>>, <<"Member", x, "c">>,
          <<"OptMember", x, "c">>, <<"Index", x, y>>, <<"OptIndex", x, y>>, <<"New", x, <<y>>>>,
          <<"Array", <<x, <<"Spread", y>>>>>>,
          <<"Object", <<<<"pair", VarA, x>>, <<"computed", y, VarB>>, <<"short", VarA>>, <<"spread", y>>>>>>,
          <<"Arrow", FALSE, <<Par("a", <<>>), Par("b", <<x>>)>>, "expr", y>>,
          <<"Arrow", TRUE, <<>>, "block", <<<<"Return", <<x>>>>>>>>,
          <<"Func", "f", FALSE, <<Par("a", <<y>>)>>, <<<<"Expr", x>>>>>>,
          <<"Match", x, <<<<"Arm", <<"Literal", NumberOne>>, "", <<>>, "expr", y>>,
                          <<"Arm", <<"Wildcard">>, "", <<<<"Infix", "<", VarA, VarB>>>>, "expr", VarA>>>>>>}
Simple == Nodes(VarA, NumberOne) \cup {VarA, NumberOne, <<"true">>}
Composed == UNION {Nodes(x, VarA) \cup Nodes(VarB, x) : x \in Simple}
StatementsWith(x) ==
   {<<"Decl", "let", <<"Name", "a">>, <<>>, <<x>>>>,
    <<"Decl", "const", <<"ArrayPattern", <<<<"a", <<x>>, FALSE>>, <<"b", <<>>, TRUE>>>>>>, <<>>, <<VarB>>>>,
    <<"Decl", "var", <<"ObjectPattern", <<<<"a", "b", <<x>>>>>>>>, <<>>, <<VarB>>>>,
    <<"Decl", "let", <<"Name", "a">>, <<<<"Type", "Union", <<TypeT, <<"Type", "Array", TypeT, FALSE>>>>, FALSE>>>>, <<x>>>>,
    <<"Decl", "let", <<"Name", "a">>, <<<<"Type", "Array", TypeT, FALSE>>>>, <<<<"Regexp", "/c/">>>>>>,
    <<"If", x, <<<<"Expr", x>>>>, <<<<"If", VarA, <<>>, <<<<"Block", <<<<"Throw", x>>>>>>>>>>>>>>,
    <<"While", x, <<<<"Jump", "continue", "l">>>>>>,
    <<"ForEach", "of", "i", x, <<<<"Expr", x>>>>>>,
    <<"For", <<<<"Expr", x>>>>, <<x>>, <<x>>, <<>>>>,
    <<"For", <<<<"Decl", "let", <<"Name", "a">>, <<>>, <<x>>>>>>, <<>>, <<>>, <<<<"Expr", VarA>>>>>>,
    <<"Labeled", "l", <<"Expr", x>>>>,
    <<"Try", <<<<"Expr", x>>>>, <<<<"e", <<>>, <<<<"Throw", x>>>>>>>>, <<<<<<"Return", <<>>>>>>>>>>,
    <<"FuncDecl", <<"Func", "f", TRUE, <<Par("a", <<x>>)>>, <<<<"Return", <<x>>>>>>>>>>,
    <<"Class", "K", <<VarA>>, <<<<"constructor", FALSE, <<"Func", "constructor", FALSE, <<>>, <<<<"Expr", x>>>>>>>>,
           <<"field", TRUE, "c", <<>>, <<x>>>>,
           <<"method", FALSE, <<"Func", "m", FALSE, <<>>, <<>>>>>>>>>>,
    <<"Export", "default", <<<<"Expr", x>>>>>>,
    <<"Export", "decl", <<<<"Decl", "const", <<"Name", "a">>, <<>>, <<x>>>>>>>>,
    <<"Import", "", "", <<<<"a", "b">>>>, "\"m\"">>}
MCCorpus == {<<"Expr", e>> : e \in Composed} \cup UNION {StatementsWith(x) : x \in Simple}

\* A loop that leaves its mark open, nested speculation, an arrow.
MCPreludes == {<<"ForEach", "of", "i", VarA, <<<<"Expr", <<"Assign", "=", VarA, VarB>>>>>>>>,
               <<"Expr", <<"Assign", "=", VarA, <<"Assign", "=", VarB, NumberOne>>>>>>,
               <<"Decl", "let", <<"Name", "f">>, <<>>, <<<<"Arrow", FALSE, <<Par("a", <<>>)>>, "expr", VarA>>>>>>}
=============================================================================
