----------------------------- MODULE GtsLexer ------------------------------
(***************************************************************************)
(* The lexer of GTS (lexer/lexer.rs, lexer/token.rs).  A source text is a  *)
(* sequence of its characters, except that a run of letters and digits is  *)
(* one element (a word), so that reading an identifier or a number is one  *)
(* step.  A token is [k, v, at]: its kind, its literal and its offset; the *)
(* kind of a keyword or an operator is its spelling.                       *)
(***************************************************************************)
EXTENDS Integers, Sequences, FiniteSets, SequencesExt

Keywords == {"let", "const", "var", "function", "class", "extends", "if", "else", "while", "for",
    "in", "of", "return", "break", "continue", "true", "false", "null", "undefined", "new", "this",
    "super", "try", "catch", "finally", "throw", "async", "await", "import", "export", "from", "as",
    "delete", "typeof", "instanceof", "void", "static", "match", "default"}

\* What next_token recognises.  It looks for **= and <<= at the wrong
\* character and never finds them; == and != are errors.
Ops == {"(", ")", "{", "}", "[", "]", ",", ";", ":", "~", "^", "^=", "?", "??", "?.", "+", "++", "+=",
    "-", "--", "-=", "*", "**", "*=", "/", "/=", "%", "%=", "=", "===", "=>", "!", "!==", "<", "<<",
    "<=", ">", ">>", ">>>", ">>>=", ">>=", ">=", "&", "&&", "&=", "|", "||", "|=", ".", "..", "..=",
    "...", "==", "!="}
Backtick == "backtick"
Quotes == {"\"", "'"}
Marks == {" ", "\n", Backtick, "\\", "$"} \cup Quotes
Symbols == {"~", "(", ")", "{", "}", "[", "]", ",", ";", ":", "^", "?", "+", "-", "*", "/", "%", "=",
            "!", "<", ">", "&", "|", "."}

Char(s, i) == IF i \in DOMAIN s THEN s[i] ELSE ""
Pair(s, i, a, b) == Char(s, i) = a /\ Char(s, i + 1) = b
IsWord(c) == c # "" /\ c \notin Marks \cup Symbols
Numbers == {"0", "1", "2"}      \* words that begin with a digit
Text(s, i, j) == FoldLeft(LAMBDA a, b : a \o b, "", SubSeq(s, i, j - 1))

RECURSIVE BlockEnd(_, _, _), SkipBlanks(_, _), StringEnd(_, _, _), TemplateEnd(_, _, _, _), RegexpEnd(_, _, _)

\* skip_block_comment: comments nest.
BlockEnd(s, i, depth) ==
    IF depth = 0 \/ i > Len(s) THEN i
    ELSE IF Pair(s, i, "/", "*") THEN BlockEnd(s, i + 2, depth + 1)
    ELSE IF Pair(s, i, "*", "/") THEN BlockEnd(s, i + 2, depth - 1)
    ELSE BlockEnd(s, i + 1, depth)

LineEnd(s, i) ==
    CHOOSE j \in i .. Len(s) + 1 : /\ Char(s, j) \in {"\n", ""}
                                   /\ \A k \in i .. j - 1 : Char(s, k) # "\n"

\* skip_whitespace_and_comments
SkipBlanks(s, i) ==
    IF Char(s, i) \in {" ", "\n"} THEN SkipBlanks(s, i + 1)
    ELSE IF Pair(s, i, "/", "/") THEN SkipBlanks(s, LineEnd(s, i))
    ELSE IF Pair(s, i, "/", "*") THEN SkipBlanks(s, BlockEnd(s, i + 2, 1))
    ELSE i

\* read_string: to the quote, the end of the line or the end of the text.
StringEnd(s, i, quote) ==
    CASE Char(s, i) = quote          -> i + 1
      [] Char(s, i) \in {"", "\n"}   -> i
      [] Char(s, i) = "\\"           -> StringEnd(s, i + (IF i < Len(s) THEN 2 ELSE 1), quote)
      [] OTHER                       -> StringEnd(s, i + 1, quote)

\* read_template: braces are counted inside ${ }, except in quotes.
TemplateEnd(s, i, depth, quote) ==
    LET c == Char(s, i) IN
    CASE c = ""                                 -> i
      [] c # "" /\ quote # ""                   ->
           IF c = "\\" THEN TemplateEnd(s, i + 2, depth, quote)
           ELSE TemplateEnd(s, i + 1, depth, IF c = quote THEN "" ELSE quote)
      [] quote = "" /\ depth = 0 /\ c = Backtick     -> i + 1
      [] quote = "" /\ depth = 0 /\ Pair(s, i, "$", "{") -> TemplateEnd(s, i + 2, 1, "")
      [] OTHER -> TemplateEnd(s, i + 1,
                    IF depth = 0 THEN 0 ELSE depth + (IF c = "{" THEN 1 ELSE IF c = "}" THEN -1 ELSE 0),
                    IF depth > 0 /\ c \in Quotes THEN c ELSE "")

\* read_regexp and has_regexp_terminator: behind the closing slash, or 0.
RegexpEnd(s, i, class) ==
    LET c == Char(s, i) IN
    CASE c \in {"", "\n"}    -> 0
      [] c = "\\"            -> RegexpEnd(s, i + 2, class)
      [] c = "/" /\ ~class   -> IF IsWord(Char(s, i + 1)) THEN i + 2 ELSE i + 1
      [] OTHER               -> RegexpEnd(s, i + 1, IF class THEN c # "]" ELSE c = "[")

\* can_start_regexp
RegexpAfter == {"eof", "(", "{", "[", ",", ";", ":", "=", "+", "-", "*", "/", "%", "**", "!", "&", "|",
    "^", "~", "?", "=>", "===", "!==", "<", "<=", ">", ">=", "&&", "||", "??", "+=", "-=", "*=", "/=",
    "%=", ">>=", ">>>=", "&=", "|=", "^=", "return", "throw", "delete", "typeof", "void", "await"}

\* The longest operator that begins here.
OpEnd(s, i) ==
    LET fits == {n \in 1 .. 4 : i + n <= Len(s) + 1 /\ Text(s, i, i + n) \in Ops}
    IN  i + (CHOOSE n \in fits : \A m \in fits : m <= n)

\* next_token at i, prev being the last token recorded: the token, where the
\* lexer stands behind it, and the new prev.  Strings and templates are not
\* recorded.
LexToken(s, from, prev) ==
    LET i == SkipBlanks(s, from)
        c == Char(s, i)
        token(k, to, v) == [tok |-> [k |-> k, v |-> v, at |-> i], to |-> to,
                            prev |-> IF k \in {"eof", "Illegal", "String", "Template"} THEN prev ELSE k]
        lexeme(k, to) == token(k, to, Text(s, i, to))
        regexp == /\ c = "/" /\ Char(s, i + 1) # "=" /\ prev \in RegexpAfter
                  /\ RegexpEnd(s, i + 1, FALSE) # 0
    IN  IF c = "" THEN token("eof", i, "")
        ELSE IF c \in Quotes THEN lexeme("String", StringEnd(s, i + 1, c))
        ELSE IF c = Backtick THEN lexeme("Template", TemplateEnd(s, i + 1, 0, ""))
        ELSE IF regexp THEN lexeme("Regexp", RegexpEnd(s, i + 1, FALSE))
        ELSE IF IsWord(c) THEN token(IF c \in Keywords THEN c ELSE IF c \in Numbers THEN "Number"
                                     ELSE "Ident", i + 1, c)
        ELSE IF c \in Symbols
        THEN LET op == Text(s, i, OpEnd(s, i))
             IN  token(IF op \in {"==", "!="} THEN "Illegal" ELSE op, OpEnd(s, i), op)
        ELSE token("Illegal", i + 1, c)
=============================================================================
