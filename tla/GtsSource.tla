----------------------------- MODULE GtsSource -----------------------------
(***************************************************************************)
(* Programs as text.  A program is written statement by statement, as the  *)
(* language prescribes it (operators by precedence, parentheses only where *)
(* the tree needs them), and read back by the parser of the engine.  The   *)
(* trees avoid the forms the parser is known to read differently (see the  *)
(* README): chains of ** and of assignments, an arrow without parentheses  *)
(* on the right of an assignment, strings before a slash, new a.b().       *)
(***************************************************************************)
EXTENDS Integers, Sequences, FiniteSets

CONSTANTS Preludes,      \* statements to begin with
          Corpus,        \* statements to end with
          MaxPreludes

VARIABLE written

P == INSTANCE GtsParser

srcVars == <<written>>

---------------------------------------------------------------------------
(* How a tree is written. *)

\* How strongly a tree binds; an operand is parenthesised if it binds less
\* than its place asks for.
Strength(e) ==
    CASE e[1] = "Infix"              -> P!Level(e[2])
      [] e[1] \in {"Assign", "Arrow"} -> P!AssignLevel
      [] e[1] = "Ternary"            -> P!Level("?")
      [] e[1] \in {"Prefix", "Await"} -> P!PrefixLevel
      [] e[1] = "Postfix"            -> P!Level("++")
      [] OTHER                       -> P!CallLevel
Whole == P!AssignLevel

RECURSIVE Spell(_, _), SpellList(_), SpellBlock(_), SpellStatement(_)

\* Where an opening brace would be taken for a block.
NotABlock(e) == LET w == Spell(e, Whole)
                IN  IF w[1] \in {"{", "function", "class", "async", "match", "import"}
                    THEN <<"(">> \o w \o <<")">> ELSE w
Join(parts) == IF parts = <<>> THEN <<>>
               ELSE P!FoldLeft(LAMBDA a, b : a \o <<",">> \o b, parts[1], Tail(parts))
Default(es) == IF es = <<>> THEN <<>> ELSE <<"=">> \o Spell(es[1], Whole)
Param(p) == (IF p[2] THEN <<"...">> ELSE <<>>) \o <<p[1]>> \o (IF p[3] THEN <<"?">> ELSE <<>>)
            \o Default(p[5])
Params(ps) == <<"(">> \o Join([i \in DOMAIN ps |-> Param(ps[i])]) \o <<")">>
SpellList(es) == Join([i \in DOMAIN es |-> Spell(es[i], Whole)])
Signature(f) == <<f[2]>> \o Params(f[4]) \o SpellBlock(f[5])
Property(x) ==
    CASE x[1] = "spread"   -> <<"...">> \o Spell(x[2], Whole)
      [] x[1] = "computed" -> <<"[">> \o Spell(x[2], Whole) \o <<"]", ":">> \o Spell(x[3], Whole)
      [] x[1] = "short"    -> <<x[2][2]>>
      [] x[1] = "pair"     -> <<x[2][2], ":">> \o Spell(x[3], Whole)
ArmText(x) == (IF x[2][1] = "Literal" THEN <<x[2][2][2]>> ELSE <<"_">>)
              \o (IF x[4] = <<>> THEN <<>> ELSE <<"if">> \o Spell(x[4][1], Whole + 2))
              \o <<"=>">> \o NotABlock(x[6])

Spell(e, least) ==
    IF Strength(e) < least THEN <<"(">> \o Spell(e, Whole) \o <<")">>
    ELSE CASE e[1] \in {"Ident", "Number", "String", "Regexp"} -> <<e[2]>>
           [] e[1] \in P!Constants -> <<e[1]>>
           [] e[1] = "Infix"   -> Spell(e[3], Strength(e)) \o <<e[2]>> \o Spell(e[4], Strength(e) + 1)
           [] e[1] = "Assign"  -> Spell(e[3], P!CallLevel) \o <<e[2]>> \o Spell(e[4], Strength(e) + 1)
           [] e[1] = "Ternary" -> Spell(e[2], Strength(e) + 1) \o <<"?">> \o Spell(e[3], Whole)
                                  \o <<":">> \o Spell(e[4], Whole)
           [] e[1] = "Prefix"  -> <<e[2]>> \o Spell(e[3], Strength(e))
           [] e[1] = "Await"   -> <<"await">> \o Spell(e[2], Strength(e))
           [] e[1] = "Postfix" -> Spell(e[3], Strength(e) + 1) \o <<e[2]>>
           [] e[1] = "Call"    -> Spell(e[2], Strength(e)) \o <<"(">> \o SpellList(e[3]) \o <<")">>
           [] e[1] = "OptCall" -> Spell(e[2], Strength(e)) \o <<"?.", "(">> \o SpellList(e[3]) \o <<")">>
           [] e[1] = "Member"  -> Spell(e[2], Strength(e)) \o <<".", e[3]>>
           [] e[1] = "OptMember" -> Spell(e[2], Strength(e)) \o <<"?.", e[3]>>
           [] e[1] = "Index"   -> Spell(e[2], Strength(e)) \o <<"[">> \o Spell(e[3], Whole) \o <<"]">>
           [] e[1] = "OptIndex" -> Spell(e[2], Strength(e)) \o <<"?.", "[">> \o Spell(e[3], Whole) \o <<"]">>
           [] e[1] = "New"     -> <<"new">> \o (IF e[2][1] = "Ident" THEN Spell(e[2], Whole)
                                                ELSE <<"(">> \o Spell(e[2], Whole) \o <<")">>)
                                  \o <<"(">> \o SpellList(e[3]) \o <<")">>
           [] e[1] = "Spread"  -> <<"...">> \o Spell(e[2], Whole)
           [] e[1] = "Array"   -> <<"[">> \o SpellList(e[2]) \o <<"]">>
           [] e[1] = "Object"  -> <<"{">> \o Join([i \in DOMAIN e[2] |-> Property(e[2][i])]) \o <<"}">>
           [] e[1] = "Arrow"   -> (IF e[2] THEN <<"async">> ELSE <<>>) \o Params(e[3]) \o <<"=>">>
                                  \o (IF e[4] = "block" THEN SpellBlock(e[5]) ELSE NotABlock(e[5]))
           [] e[1] = "Func"    -> (IF e[3] THEN <<"async">> ELSE <<>>) \o <<"function">> \o Signature(e)
           [] e[1] = "Match"   -> <<"match">> \o Spell(e[2], Whole) \o <<"{">>
                                  \o Join([i \in DOMAIN e[3] |-> ArmText(e[3][i])]) \o <<"}">>

SpellBlock(ss) == <<"{">> \o P!FoldLeft(LAMBDA a, s : a \o SpellStatement(s), <<>>, ss) \o <<"}">>
OptionalText(es) == IF es = <<>> THEN <<>> ELSE Spell(es[1], Whole)
MemberText(x) == (IF x[2] THEN <<"static">> ELSE <<>>)
                 \o (IF x[1] = "field" THEN <<x[3], "=">> \o Spell(x[5][1], Whole) \o <<";">>
                     ELSE Signature(x[3]))

\* What a declaration binds, and its type.
Target(t) ==
    CASE t[1] = "Name"          -> <<t[2]>>
      [] t[1] = "ArrayPattern"  -> <<"[">> \o Join([i \in DOMAIN t[2] |->
                                    (IF t[2][i][3] THEN <<"...">> ELSE <<>>) \o <<t[2][i][1]>>
                                    \o Default(t[2][i][2])]) \o <<"]">>
      [] t[1] = "ObjectPattern" -> <<"{">> \o Join([i \in DOMAIN t[2] |->
                                    <<t[2][i][1], ":", t[2][i][2]>> \o Default(t[2][i][3])]) \o <<"}">>
TypeName(t) == CASE t[2] = "Primitive" -> <<t[3]>> [] t[2] = "Array" -> <<t[3][3], "[", "]">>
TypeText(ts) == IF ts = <<>> THEN <<>>
                ELSE IF ts[1][2] = "Union" THEN <<":">> \o TypeName(ts[1][3][1]) \o <<"|">> \o TypeName(ts[1][3][2])
                ELSE <<":">> \o TypeName(ts[1])

SpellStatement(s) ==
    CASE s[1] = "Expr"   -> NotABlock(s[2]) \o <<";">>
      [] s[1] = "Decl"   -> <<s[2]>> \o Target(s[3]) \o TypeText(s[4])
                            \o Default(s[5]) \o <<";">>
      [] s[1] = "If"     -> <<"if", "(">> \o Spell(s[2], Whole) \o <<")">> \o SpellBlock(s[3])
                            \o (IF s[4] = <<>> THEN <<>> ELSE <<"else">> \o SpellStatement(s[4][1]))
      [] s[1] = "While"  -> <<"while", "(">> \o Spell(s[2], Whole) \o <<")">> \o SpellBlock(s[3])
      [] s[1] = "ForEach" -> <<"for", "(", "let", s[3], s[2]>> \o Spell(s[4], Whole) \o <<")">>
                            \o SpellBlock(s[5])
      [] s[1] = "For"    -> <<"for", "(">> \o SpellStatement(s[2][1]) \o OptionalText(s[3]) \o <<";">>
                            \o OptionalText(s[4]) \o <<")">> \o SpellBlock(s[5])
      [] s[1] = "Return" -> <<"return">> \o OptionalText(s[2]) \o <<";">>
      [] s[1] = "Throw"  -> <<"throw">> \o Spell(s[2], Whole) \o <<";">>
      [] s[1] = "Jump"   -> <<s[2], s[3], ";">>
      [] s[1] = "Labeled" -> <<s[2], ":">> \o SpellStatement(s[3])
      [] s[1] = "Block"  -> SpellBlock(s[2])
      [] s[1] = "Try"    -> <<"try">> \o SpellBlock(s[2]) \o <<"catch", "(", s[3][1][1], ")">>
                            \o SpellBlock(s[3][1][3]) \o <<"finally">> \o SpellBlock(s[4][1])
      [] s[1] = "FuncDecl" -> (IF s[2][3] THEN <<"async">> ELSE <<>>) \o <<"function">> \o Signature(s[2])
      [] s[1] = "Class"  -> <<"class", s[2], "extends">> \o Spell(s[3][1], P!CallLevel) \o <<"{">>
                            \o P!FoldLeft(LAMBDA a, x : a \o MemberText(x), <<>>, s[4]) \o <<"}">>
      [] s[1] = "Export" -> IF s[2] = "default" THEN <<"export", "default">> \o SpellStatement(s[3][1])
                            ELSE <<"export">> \o SpellStatement(s[3][1])
      [] s[1] = "Import" -> <<"import", "{", s[4][1][1], "as", s[4][1][2], "}", "from", s[5], ";">>

\* Words are one element of a text, everything else its characters; a blank
\* follows every token.
Spaced(token) ==
    LET first == SubSeq(token, 1, 1)
    IN  Append(IF first \in P!Symbols \cup P!Quotes THEN [i \in 1 .. Len(token) |-> SubSeq(token, i, i)]
               ELSE <<token>>, " ")
SourceText(ss) ==
    P!FoldLeft(LAMBDA a, s : a \o P!FoldLeft(LAMBDA b, t : b \o Spaced(t), <<>>, SpellStatement(s)), <<>>, ss)

---------------------------------------------------------------------------
(* Writing a program. *)
SrcInit == written = <<>>
SrcNext ==
    \/ Len(written) < MaxPreludes /\ \E s \in Preludes : written' = Append(written, s)
    \/ /\ \A i \in DOMAIN written : written[i] \in Preludes
       /\ \E s \in Corpus : written' = Append(written, s)

\* What was written is what is read: the parser (precedence climbing, with
\* lookahead buffers and marks that an earlier statement may have left open)
\* gives back exactly the statements, without an error and without coming
\* round in a loop that consumes nothing.
ParsesBack ==
    [][\A w \in {written'} :
         P!ParseProgram(SourceText(w)) = [body |-> w, errs |-> FALSE, stuck |-> FALSE]]_srcVars
=============================================================================
