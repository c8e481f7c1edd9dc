-------------------------------- MODULE MCGts -------------------------------
(***************************************************************************)
(* The programs the two GTS engines are run on.  Suite "agree" is made of  *)
(* templates over all combinations of a few statements or operands; suite  *)
(* "differ" holds programs on which the engines are known to part.         *)
(***************************************************************************)
EXTENDS GtsVM

CONSTANT Suite

Log(e) == ExprStmt(Call(Ident("log"), <<e>>))
Fail   == Call(Ident("fail"), <<>>)
Inc(x) == Update("++", x, FALSE)

\* main calls function 1, named f, and logs its result.
Calls(body) ==
    [body |-> <<FuncDecl(1), Log(Call(Ident("f"), <<>>))>>,
     funcs |-> <<Function("f", <<>>, body, 0)>>]

(***************************************************************************)
(* Control flow: leaving loops and try statements in every way.            *)
(***************************************************************************)

Exits == {"log", "throw", "return", "break", "continue"}
Leaf(k, p) ==
    CASE k = "log"      -> Log(Num(7))
      [] k = "throw"    -> Throw(Num(2))
      [] k = "return"   -> Return(Num(3), p)
      [] k = "break"    -> Break("")
      [] k = "continue" -> Continue("")

Loops == {"while", "for", "of", "in"}
Loop(kind, x, body) ==
    LET two == Array(<<Num(1), Num(2)>>)
        cond == Infix("<", Ident(x), Num(2))
    IN  CASE kind = "while" -> <<Let(x, Num(0)), While(cond, <<ExprStmt(Inc(x))>> \o body)>>
          [] kind = "for"   -> <<For(<<Let(x, Num(0))>>, cond, Inc(x), body)>>
          [] kind = "of"    -> <<ForOf(x, two, body, "at" \o x)>>
          [] kind = "in"    -> <<ForIn(x, two, body, "at" \o x)>>

Catch(x, body) == <<[x |-> x, body |-> <<Log(Ident(x))>> \o body]>>
Finally(n, body) == << <<Log(Num(n))>> \o body >>

\* for every loop kind: try with catch, with finally and with both.
InLoop(kind, try) ==
    Calls(Loop(kind, "i", <<Log(Ident("i")), try, Log(Num(8))>>) \o <<Return(Num(9), "end")>>)
TryCatch ==
    {InLoop(l, Try(<<Leaf(a, "ra")>>, Catch("e", <<Leaf(c, "rc")>>), <<>>, "t")) :
        l \in Loops, a \in Exits, c \in Exits}
TryFinally ==
    {InLoop(l, Try(<<Leaf(a, "ra")>>, <<>>, Finally(5, <<Leaf(f, "rf")>>), "t")) :
        l \in Loops, a \in Exits, f \in Exits}
TryBoth ==
    {InLoop("of", Try(<<Leaf(a, "ra")>>, Catch("e", <<Leaf(c, "rc")>>),
                      Finally(5, <<Leaf(f, "rf")>>), "t")) :
        a \in Exits, c \in Exits, f \in Exits}

\* A try inside the body, the catch or the finally of another one.
Inner(a, f) == Try(<<Leaf(a, "ra")>>, <<>>, Finally(5, <<Leaf(f, "rf")>>), "inner")
Nest(place, a, f, g) ==
    InLoop("for",
        CASE place = "body"  -> Try(<<Log(Num(1)), Inner(a, f)>>, Catch("e", <<>>),
                                    Finally(6, <<Leaf(g, "rg")>>), "outer")
          [] place = "catch" -> Try(<<Throw(Num(1))>>, Catch("e", <<Inner(a, f)>>),
                                    Finally(6, <<Leaf(g, "rg")>>), "outer")
          [] place = "finally" -> Try(<<Leaf(a, "ra")>>, Catch("e", <<>>),
                                      Finally(6, <<Inner(f, g)>>), "outer"))
Nested == {Nest(p, a, f, g) : p \in {"body", "catch", "finally"},
                              a \in Exits, f \in Exits, g \in Exits}

\* A loop inside a try inside a loop; if between the leaves.
LoopInTry ==
    {InLoop("of", Try(Loop("for", "j", <<If(Infix("<", Ident("j"), Num(1)), <<Log(Ident("j"))>>,
                                           <<Block(<<Leaf(a, "ra")>>)>>)>>)
                     \o <<Leaf(b, "rb")>>,
                     <<>>, Finally(5, <<Leaf(f, "rf")>>), "t")) :
        a \in Exits, b \in Exits, f \in Exits}

(***************************************************************************)
(* Expressions.                                                            *)
(***************************************************************************)

Atoms == {Num(0), Num(1), Undef, Fail}
Ops   == {"&&", "||", "??", "+", "<", "==="}
Infixes == {Infix(o, a, b) : o \in Ops, a \in Atoms, b \in Atoms}
Deeper == {Infix("??", e, Infix("+", a, Num(1))) : e \in Infixes, a \in Atoms}
Ternaries == {Ternary(e, a, Prefix("-", a)) : e \in Infixes, a \in Atoms}
Unaries == {Prefix(o, a) : o \in {"!", "-", "void"}, a \in Atoms}
Optionals == {Optional(f, <<Num(4)>>) : f \in {Undef, Null, Ident("log"), Num(1)}}
Arm3(g, v) == <<Arm(Literal(Num(0)), <<>>, <<Num(10)>>, <<>>),
                Arm(Or(<<Literal(Num(1)), Literal(Num(2))>>), <<g>>, <<v>>, <<>>),
                Arm(Within(Num(2), Num(3), FALSE), <<>>, <<>>, <<Log(Num(2)), ExprStmt(Num(12))>>),
                Arm(Binds("m"), <<Infix("<", Ident("m"), Num(5))>>, <<Ident("m")>>, <<>>)>>
Matches == {Match(Num(s), Arm3(Num(g), v), "m") : s \in {0, 1, 2, 3, 5}, g \in {0, 1}, v \in Atoms}
Spreads == {Call(Ident("log"), <<Num(1), Spread(Array(<<Num(2), Num(3)>>)), Spread(Num(4))>>),
             Array(<<Spread(Array(<<Num(2)>>)), Fail>>), Array(<<Num(1), Undef>>),
             Call(Array(<<>>), <<>>), Call(Ident("missing"), <<Fail>>)}

(***************************************************************************)
(* Variables and closures.                                                 *)
(***************************************************************************)

Assigns == {
    Calls(<<Let("x", Num(1)), ExprStmt(Assign("=", "x", Num(2))), ExprStmt(Assign("+=", "x", Num(3))),
            Log(Ident("x")), Return(Update("--", "x", TRUE), "end")>>),
    Calls(<<Const("x", Num(1)), ExprStmt(Assign("=", "x", Num(2))), Return(Num(0), "end")>>),
    Calls(<<ExprStmt(Assign("=", "nowhere", Num(2))), Return(Num(0), "end")>>)}

\* f makes a counter; its closure increments what it captured, and may fail.
Counter(last) ==
    [body |-> <<FuncDecl(1), Let("c", Call(Ident("f"), <<Num(5)>>)), Let("d", Call(Ident("f"), <<>>)),
                Log(Call(Ident("c"), <<>>)),
                Try(<<Log(Call(Ident("c"), <<>>))>>, Catch("e", <<>>), <<>>, "t"),
                Log(Call(Ident("c"), <<>>)), Log(Call(Ident("d"), <<>>))>>,
     funcs |-> <<Function("f", <<"n">>, <<Return(Func(2), "r1")>>, 0),
                 Function("", <<>>, <<ExprStmt(Assign("=", "n", Infix("+", Ident("n"), Num(1))))>> \o last, 1)>>]
\* A closure inside a closure, and recursion through the captured name.
Deep ==
    [body |-> <<FuncDecl(1), Log(Call(Call(Call(Ident("f"), <<Num(3)>>), <<>>), <<Num(1)>>))>>,
     funcs |-> <<Function("f", <<"n">>, <<Return(Func(2), "r1")>>, 0),
                 Function("", <<>>, <<Return(Func(3), "r2")>>, 1),
                 Function("", <<"m">>, <<Return(Infix("+", Ident("n"), Ident("m")), "r3")>>, 2)>>]
Recursive ==
    [body |-> <<FuncDecl(1), Log(Call(Ident("f"), <<Num(2)>>))>>,
     funcs |-> <<Function("f", <<"n">>,
                    <<FuncDecl(2), Return(Call(Ident("g"), <<Ident("n")>>), "r1")>>, 0),
                 Function("g", <<"k">>,
                    <<Return(Ternary(Infix("<", Ident("k"), Num(1)), Num(0),
                        Infix("+", Call(Ident("g"), <<Infix("-", Ident("k"), Num(1))>>), Num(2))), "r2")>>, 1)>>]
Closures == {Counter(<<Return(Ident("n"), "r2")>>),
              Counter(<<Return(Infix("??", Ident("n"), Fail), "r2")>>), Deep, Recursive}

(***************************************************************************)
(* Where the engines part.                                                 *)
(***************************************************************************)

\* The inner of two try statements that start at the same instruction.
NestedFirst == Calls(<<Try(<<Try(<<Throw(Num(1))>>, Catch("e", <<>>), <<>>, "t1")>>,
                           Catch("o", <<Throw(Num(2))>>), <<>>, "t2"), Return(Num(9), "end")>>)
\* A function that changes a variable of the function around it.
SharedCapture ==
    [body |-> <<FuncDecl(1), Log(Call(Ident("f"), <<>>))>>,
     funcs |-> <<Function("f", <<>>, <<Let("n", Num(0)), FuncDecl(2), ExprStmt(Call(Ident("g"), <<>>)),
                                       Return(Ident("n"), "r1")>>, 0),
                 Function("g", <<>>, <<ExprStmt(Inc("n")), Return(Num(0), "r2")>>, 1)>>]
\* A body whose last instruction is a RETURN that not every path reaches.
ReturnInIf == Calls(<<If(Num(0), <<Return(Num(1), "r")>>, <<>>)>>)
\* Assignment as an operand, break to a label, variables of an inner block.
AssignOperand == Calls(<<Let("x", Num(1)),
                         Return(Infix("+", Num(1), Assign("=", "x", Num(2))), "end")>>)
LabelBreak == Calls(<<Labeled("outer", Loop("of", "i",
                          Loop("of", "j", <<Log(Ident("j")), Break("outer")>>))[1]),
                      Return(Num(9), "end")>>)
BlockScope == Calls(<<Let("x", Num(1)), Block(<<Let("x", Num(2))>>), Return(Ident("x"), "end")>>)

Differ == {NestedFirst, SharedCapture, ReturnInIf, AssignOperand, LabelBreak, BlockScope}

MCPrograms ==
    IF Suite = "differ" THEN Differ
    ELSE TryCatch \cup TryFinally \cup TryBoth \cup Nested \cup LoopInTry
         \cup {Calls(<<Return(e, "end")>>) :
                   e \in Infixes \cup Deeper \cup Ternaries \cup Unaries \cup Optionals
                         \cup Matches \cup Spreads}
         \cup {Calls(Loop(l, "i", <<Continue("")>>) \o <<Return(Num(9), "end")>>) : l \in Loops}
         \cup Assigns \cup Closures

MCCompiled == LET all == MCPrograms IN {[prog |-> p, chunks |-> Compile(p)] : p \in all}
=============================================================================
