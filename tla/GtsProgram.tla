----------------------------- MODULE GtsProgram -----------------------------
(***************************************************************************)
(* Programs of the GTS script language (night24-gts) as data: the          *)
(* statements and expressions of the syntax tree, the values, the lexical  *)
(* scopes, the operators both execution engines share, and the resolver    *)
(* that finds which names a function captures.                             *)
(*                                                                         *)
(* A program is [body, funcs]: its top-level statements and its functions. *)
(* A function literal or declaration refers to its entry of funcs by       *)
(* index; an entry names the function it is nested in (0: the top level).  *)
(* pos is the source position (a string), with which the compiler names    *)
(* temporaries.                                                            *)
(***************************************************************************)
EXTENDS Integers, Sequences, FiniteSets, SequencesExt

Num(n)            == [t |-> "Number", n |-> n]
Undef             == [t |-> "Undefined"]
Null              == [t |-> "Null"]
Ident(x)          == [t |-> "Ident", x |-> x]
Array(args)       == [t |-> "Array", args |-> args]
Spread(e)         == [t |-> "Spread", l |-> e]
Infix(op, l, r)   == [t |-> "Infix", op |-> op, l |-> l, r |-> r]
Prefix(op, e)     == [t |-> "Prefix", op |-> op, l |-> e]
Update(op, x, p)  == [t |-> "Update", op |-> op, x |-> x, prefix |-> p]
Ternary(c, l, r)  == [t |-> "Ternary", c |-> c, l |-> l, r |-> r]
Assign(op, x, r)  == [t |-> "Assign", op |-> op, x |-> x, r |-> r]
Call(l, args)     == [t |-> "Call", l |-> l, args |-> args]
Optional(l, args) == [t |-> "Optional", l |-> l, args |-> args]
Func(i)           == [t |-> "Func", fn |-> i]
Match(l, arms, p) == [t |-> "Match", l |-> l, arms |-> arms, pos |-> p]

Literal(e)        == [t |-> "PLiteral", l |-> e]
Wildcard          == [t |-> "PWildcard"]
Binds(x)          == [t |-> "PIdent", x |-> x]
Or(alts)          == [t |-> "POr", args |-> alts]
Within(l, r, incl) == [t |-> "PRange", l |-> l, r |-> r, prefix |-> incl]
\* An arm: pattern, optional guard, and a body that is an expression or a block.
Arm(pat, guard, value, body) ==
    [pat |-> pat, guard |-> guard, value |-> value, body |-> body]

ExprStmt(e)        == [t |-> "Expr", l |-> e]
Let(x, e)          == [t |-> "Let", x |-> x, l |-> e]
Const(x, e)        == [t |-> "Const", x |-> x, l |-> e]
Block(body)        == [t |-> "Block", body |-> body]
If(c, body, alt)   == [t |-> "If", l |-> c, body |-> body, alt |-> alt]
While(c, body)     == [t |-> "While", l |-> c, body |-> body]
For(init, c, post, body) ==
    [t |-> "For", alt |-> init, l |-> c, r |-> post, body |-> body]
ForIn(x, e, body, p) == [t |-> "ForIn", x |-> x, l |-> e, body |-> body, pos |-> p]
ForOf(x, e, body, p) == [t |-> "ForOf", x |-> x, l |-> e, body |-> body, pos |-> p]
Break(label)       == [t |-> "Break", label |-> label]
Continue(label)    == [t |-> "Continue", label |-> label]
Labeled(label, s)  == [t |-> "Labeled", label |-> label, body |-> <<s>>]
Throw(e)           == [t |-> "Throw", l |-> e]
\* catch is <<>> or <<[x, body]>>, fin is <<>> or <<statements>>.
Try(body, catch, fin, p) ==
    [t |-> "Try", body |-> body, catch |-> catch, fin |-> fin, pos |-> p]
FuncDecl(i)        == [t |-> "FuncDecl", fn |-> i]
Return(e, p)       == [t |-> "Return", l |-> e, pos |-> p]

Function(name, params, body, parent) ==
    [name |-> name, params |-> params, body |-> body, parent |-> parent]

(***************************************************************************)
(* Values.  Every kind has a field of its own, so values of different      *)
(* kinds are different records.                                            *)
(***************************************************************************)

NumV(n)       == [n |-> n]
UndefV        == [k |-> "undefined"]
NullV         == [k |-> "null"]
BoolV(b)      == [k |-> IF b THEN "true" ELSE "false"]
KeyV(i)       == [key |-> i]
ArrayV(s)     == [arr |-> s]
IteratorV(i)  == [it |-> i]
ErrorV(name)  == [err |-> name]
ThrownV(v)    == [err |-> "Error", thrown |-> v]
BuiltinV(b)   == [bi |-> b]
ClosureV(fn, env, ups) == [fn |-> fn, env |-> env, ups |-> ups]

IsNum(v)   == DOMAIN v = {"n"}
IsArray(v) == DOMAIN v = {"arr"}
IsError(v) == "err" \in DOMAIN v
Nullish(v) == v \in {UndefV, NullV}
Truthy(v)  == v \notin {UndefV, NullV, BoolV(FALSE), NumV(0)}

\* What the host puts into the globals: log records its arguments, fail raises.
Globals == [log |-> BuiltinV("log"), fail |-> BuiltinV("fail")]

\* An outcome of a step of either engine: a value, or a raised error.
Ok(v)    == [kind |-> "val", v |-> v]
Err(v)   == [kind |-> "err", v |-> v]
TypeError == Err(ErrorV("TypeError"))

ApplyBinary(op, a, b) ==
    CASE op = "===" -> Ok(BoolV(a = b))
      [] op \in {"+", "-", "<", ">=", "<="} /\ (~IsNum(a) \/ ~IsNum(b)) -> TypeError
      [] op = "+"  -> Ok(NumV(a.n + b.n))
      [] op = "-"  -> Ok(NumV(a.n - b.n))
      [] op = "<"  -> Ok(BoolV(a.n < b.n))
      [] op = "<=" -> Ok(BoolV(a.n <= b.n))
      [] op = ">=" -> Ok(BoolV(a.n >= b.n))

ApplyUnary(op, a) ==
    CASE op = "!" -> Ok(BoolV(~Truthy(a)))
      [] op = "-" -> IF IsNum(a) THEN Ok(NumV(-a.n)) ELSE TypeError

(***************************************************************************)
(* Scopes: a heap of records [up, vars, consts], scope 1 is the root.      *)
(***************************************************************************)

NoVars == [x \in {} |-> UndefV]
RootScope == [up |-> 0, vars |-> NoVars, consts |-> {}]
Child(envs, env) == Append(envs, [up |-> env, vars |-> NoVars, consts |-> {}])

\* The scope that binds x as seen from env, 0 when none does.
RECURSIVE Holder(_, _, _)
Holder(envs, env, x) ==
    IF env = 0 \/ x \in DOMAIN envs[env].vars THEN env
    ELSE Holder(envs, envs[env].up, x)

\* Environment::get: the scope chain, then the globals of the VM.
Bound(envs, env, x) == Holder(envs, env, x) # 0 \/ x \in DOMAIN Globals
Lookup(envs, env, x) ==
    LET h == Holder(envs, env, x)
    IN  IF h # 0 THEN envs[h].vars[x] ELSE Globals[x]

SetHere(envs, env, x, v) ==
    [envs EXCEPT ![env].vars = [y \in DOMAIN @ \cup {x} |-> IF y = x THEN v ELSE @[y]],
                 ![env].consts = @ \ {x}]

SetConstHere(envs, env, x, v) ==
    [SetHere(envs, env, x, v) EXCEPT ![env].consts = @ \cup {x}]

\* Environment::assign: the binding found first takes the value; a constant
\* and a global refuse it.
AssignTo(envs, env, x, v) ==
    LET h == Holder(envs, env, x)
    IN  IF h = 0
        THEN [envs |-> envs, res |-> IF x \in DOMAIN Globals THEN TypeError
                                      ELSE Err(ErrorV("ReferenceError"))]
        ELSE IF x \in envs[h].consts THEN [envs |-> envs, res |-> TypeError]
        ELSE [envs |-> [envs EXCEPT ![h].vars[x] = v], res |-> Ok(v)]

(***************************************************************************)
(* The resolver: which names of an enclosing function a function captures. *)
(***************************************************************************)

\* The names statements declare in their function, in order of declaration.
RECURSIVE Declared(_, _)
Declared(p, ss) ==
    LET Of(s) ==
            CASE s.t \in {"Let", "Const"} -> <<s.x>>
              [] s.t = "FuncDecl" -> <<p.funcs[s.fn].name>>
              [] s.t \in {"Block", "While"} -> Declared(p, s.body)
              [] s.t = "If" -> Declared(p, s.body) \o Declared(p, s.alt)
              [] s.t = "For" -> Declared(p, s.alt) \o Declared(p, s.body)
              [] s.t \in {"ForIn", "ForOf"} -> <<s.x>> \o Declared(p, s.body)
              [] s.t = "Try" ->
                   Declared(p, s.body)
                   \o (IF s.catch = <<>> THEN <<>>
                       ELSE <<s.catch[1].x>> \o Declared(p, s.catch[1].body))
                   \o (IF s.fin = <<>> THEN <<>> ELSE Declared(p, s.fin[1]))
              [] OTHER -> <<>>
    IN  IF ss = <<>> THEN <<>> ELSE Of(Head(ss)) \o Declared(p, Tail(ss))

\* The names statements and expressions refer to, nested functions aside.
RECURSIVE References(_), ReferencesOf(_)
References(e) ==
    CASE e.t = "Ident" -> {e.x}
      [] e.t \in {"Array"} -> UNION {References(a) : a \in ToSet(e.args)}
      [] e.t \in {"Spread", "Prefix"} -> References(e.l)
      [] e.t = "Infix" -> References(e.l) \cup References(e.r)
      [] e.t = "Update" -> {e.x}
      [] e.t = "Ternary" -> References(e.c) \cup References(e.l) \cup References(e.r)
      [] e.t = "Assign" -> {e.x} \cup References(e.r)
      [] e.t \in {"Call", "Optional"} ->
           References(e.l) \cup UNION {References(a) : a \in ToSet(e.args)}
      [] e.t = "Match" ->
           References(e.l) \cup
           UNION {UNION {References(x) : x \in ToSet(a.guard \o a.value)}
                  \cup ReferencesOf(a.body) : a \in ToSet(e.arms)}
      [] OTHER -> {}
ReferencesOf(ss) ==
    LET Of(s) ==
            CASE s.t \in {"Expr", "Let", "Const", "Throw", "Return"} -> References(s.l)
              [] s.t \in {"Block", "Labeled"} -> ReferencesOf(s.body)
              [] s.t = "If" -> References(s.l) \cup ReferencesOf(s.body)
                               \cup ReferencesOf(s.alt)
              [] s.t \in {"While", "ForIn", "ForOf"} ->
                   References(s.l) \cup ReferencesOf(s.body)
              [] s.t = "For" -> References(s.l) \cup References(s.r)
                                \cup ReferencesOf(s.body) \cup ReferencesOf(s.alt)
              [] s.t = "Try" ->
                   ReferencesOf(s.body)
                   \cup UNION {ReferencesOf(c.body) : c \in ToSet(s.catch)}
                   \cup UNION {ReferencesOf(f) : f \in ToSet(s.fin)}
              [] OTHER -> {}
    IN  UNION {Of(s) : s \in ToSet(ss)}

\* The slots of a function: its own name, its parameters, its declarations.
Slots(p, f) ==
    LET fn == p.funcs[f]
    IN  (IF fn.name = "" THEN <<>> ELSE <<fn.name>>) \o fn.params
        \o Declared(p, fn.body)
Locals(p, f) == ToSet(Slots(p, f))
Slot(p, f, x) ==
    LET s == Slots(p, f)
        i == CHOOSE j \in DOMAIN s : s[j] = x /\ \A m \in 1..(j - 1) : s[m] # x
    IN  Cardinality({s[m] : m \in 1..(i - 1)})

\* Every name a function or a function nested in it asks of the outside.
RECURSIVE Needs(_, _)
Needs(p, f) ==
    ReferencesOf(p.funcs[f].body)
    \cup UNION {Needs(p, g) \ Locals(p, g) : g \in {h \in DOMAIN p.funcs : p.funcs[h].parent = f}}

RECURSIVE Ancestors(_, _)
Ancestors(p, f) ==
    LET up == p.funcs[f].parent
    IN  IF up = 0 THEN {} ELSE {up} \cup Ancestors(p, up)

\* The upvalues of a function: names local to an enclosing function.  The top
\* level cannot be captured from.
Upvalues(p, f) ==
    SetToSeq({x \in Needs(p, f) \ Locals(p, f) :
                 \E a \in Ancestors(p, f) : x \in Locals(p, a)})
=============================================================================
