------------------------------ MODULE GtsTree -------------------------------
(***************************************************************************)
(* The tree-walking evaluator of GTS (evaluator/) as recursive operators:  *)
(* the engine the bytecode was written to agree with, which the comparison *)
(* tests of bytecode/interp still run beside it.  A store st holds the     *)
(* scopes and what log has recorded.  A statement or expression evaluates  *)
(* to [st, kind, v]: a value, a raised error, or one of the Object::Return *)
(* forms (return, break, continue).                                        *)
(***************************************************************************)
EXTENDS GtsProgram

Res(st, kind, v) == [st |-> st, kind |-> kind, v |-> v]
Value(st, v)     == Res(st, "val", v)
Raised(st, v)    == Res(st, "err", v)
\* An outcome of a shared operator, in a store.
Lift(st, o)      == Res(st, o.kind, o.v)
IsErr(r)         == r.kind = "err"
\* Object::Return(..), which ends a block.
Leaves(r)        == r.kind \in {"ret", "break", "continue"}

\* A fresh scope under env: its index and the store that has it.
Fresh(st)        == Len(st.envs) + 1
Opened(st, env)  == [st EXCEPT !.envs = Child(@, env)]

\* The keys for..in walks over.
IterableKeys(v)  == IF IsArray(v) THEN [i \in DOMAIN v.arr |-> KeyV(i - 1)] ELSE <<>>

MatchPattern(pat, v) ==
    LET RECURSIVE M(_)
        M(q) == CASE q.t = "PLiteral"  -> v = NumV(q.l.n)
                  [] q.t \in {"PWildcard", "PIdent"} -> TRUE
                  [] q.t = "POr"       -> \E i \in DOMAIN q.args : M(q.args[i])
                  [] q.t = "PRange"    -> /\ IsNum(v)
                                          /\ v.n >= q.l.n
                                          /\ IF q.prefix THEN v.n <= q.r.n ELSE v.n < q.r.n
    IN  M(pat)

RECURSIVE EvalExpr(_, _, _, _), EvalStmt(_, _, _, _), EvalBlock(_, _, _, _),
          EvalArgs(_, _, _, _, _), ApplyFunction(_, _, _, _), EvalLoop(_, _, _, _),
          EvalEach(_, _, _, _, _), EvalArms(_, _, _, _, _)

\* A spread argument is not checked for an error, the others are.
EvalArgs(p, args, env, st, acc) ==
    IF args = <<>> THEN Value(st, ArrayV(acc))
    ELSE LET a == Head(args)
             r == EvalExpr(p, IF a.t = "Spread" THEN a.l ELSE a, env, st)
         IN  IF IsErr(r) /\ a.t # "Spread" THEN r
             ELSE EvalArgs(p, Tail(args), env, r.st,
                           acc \o (IF a.t = "Spread" /\ IsArray(r.v) THEN r.v.arr ELSE <<r.v>>))

ApplyFunction(p, f, args, st) ==
    IF DOMAIN f = {"bi"}
    THEN IF f.bi = "log" THEN Value([st EXCEPT !.out = Append(@, args)], UndefV)
         ELSE Raised(st, ErrorV("Failed"))
    ELSE IF "fn" \notin DOMAIN f THEN Raised(st, ErrorV("TypeError"))
    ELSE LET fn    == p.funcs[f.fn]
             scope == Fresh(st)
             Bind(envs, i) == SetHere(envs, scope, fn.params[i],
                                      IF i \in DOMAIN args THEN args[i] ELSE UndefV)
             envs  == FoldLeftDomain(Bind, Child(st.envs, f.env), fn.params)
             r     == EvalBlock(p, fn.body, scope, [st EXCEPT !.envs = envs])
         IN  IF r.kind = "ret" THEN Value(r.st, r.v) ELSE r

EvalArms(p, arms, v, env, st) ==
    IF arms = <<>> THEN Raised(st, ErrorV("MatchError"))
    ELSE LET arm   == Head(arms)
             scope == Fresh(st)
             st1   == IF arm.pat.t = "PIdent"
                      THEN [st EXCEPT !.envs = SetHere(Child(@, env), scope, arm.pat.x, v)]
                      ELSE Opened(st, env)
             guard == IF arm.guard = <<>> THEN Value(st1, BoolV(TRUE))
                      ELSE EvalExpr(p, arm.guard[1], scope, st1)
         IN  IF ~MatchPattern(arm.pat, v) THEN EvalArms(p, Tail(arms), v, env, Opened(st, env))
             ELSE IF ~Truthy(guard.v) THEN EvalArms(p, Tail(arms), v, env, guard.st)
             ELSE IF arm.value # <<>> THEN EvalExpr(p, arm.value[1], scope, guard.st)
             ELSE EvalBlock(p, arm.body, scope, guard.st)

\* Assignment and ++ or --: the new value goes to the scope that binds x.
StoreInto(st, env, x, o, result) ==
    IF o.kind = "err" THEN Lift(st, o)
    ELSE LET a == AssignTo(st.envs, env, x, o.v)
         IN  IF a.res.kind = "err" THEN Lift(st, a.res)
             ELSE Value([st EXCEPT !.envs = a.envs], result)

EvalIdent(e, env, st) ==
    IF Bound(st.envs, env, e.x) THEN Value(st, Lookup(st.envs, env, e.x))
    ELSE Raised(st, ErrorV("ReferenceError"))

EvalPrefix(p, e, env, st) ==
    LET r == EvalExpr(p, e.l, env, st)
    IN  IF IsErr(r) THEN r
        ELSE IF e.op = "void" THEN Value(r.st, UndefV)
        ELSE Lift(r.st, ApplyUnary(e.op, r.v))

\* && || and ?? look at the left side first.
ShortCircuits(op, v) ==
    \/ op = "&&" /\ ~Truthy(v)
    \/ op = "||" /\ Truthy(v)
    \/ op = "??" /\ ~Nullish(v)

EvalInfix(p, e, env, st) ==
    LET l == EvalExpr(p, e.l, env, st)
        r == EvalExpr(p, e.r, env, l.st)
    IN  IF IsErr(l) \/ ShortCircuits(e.op, l.v) THEN l
        ELSE IF IsErr(r) \/ e.op \in {"&&", "||", "??"} THEN r
        ELSE Lift(r.st, ApplyBinary(e.op, l.v, r.v))

EvalTernary(p, e, env, st) ==
    LET c == EvalExpr(p, e.c, env, st)
    IN  IF IsErr(c) THEN c ELSE EvalExpr(p, IF Truthy(c.v) THEN e.l ELSE e.r, env, c.st)

EvalAssign(p, e, env, st) ==
    LET r == EvalExpr(p, e.r, env, st)
        o == IF e.op = "=" THEN Ok(r.v)
             ELSE IF ~Bound(r.st.envs, env, e.x) THEN Err(ErrorV("ReferenceError"))
             ELSE ApplyBinary("+", Lookup(r.st.envs, env, e.x), r.v)
    IN  IF IsErr(r) THEN r ELSE StoreInto(r.st, env, e.x, o, o.v)

EvalUpdate(e, env, st) ==
    LET old == Lookup(st.envs, env, e.x)
        o   == ApplyBinary(IF e.op = "++" THEN "+" ELSE "-", old, NumV(1))
    IN  IF ~Bound(st.envs, env, e.x) THEN Raised(st, ErrorV("ReferenceError"))
        ELSE StoreInto(st, env, e.x, o, IF e.prefix THEN o.v ELSE old)

EvalCall(p, e, env, st) ==
    LET f == EvalExpr(p, e.l, env, st)
        a == EvalArgs(p, e.args, env, f.st, <<>>)
    IN  IF IsErr(f) THEN f ELSE IF IsErr(a) THEN a
        ELSE ApplyFunction(p, f.v, a.v.arr, a.st)

\* f?.(args): neither the callee nor an argument is checked for an error.
EvalOptional(p, e, env, st) ==
    LET f == EvalExpr(p, e.l, env, st)
        Next1(acc, i) == LET r == EvalExpr(p, e.args[i], env, acc.st)
                         IN  [st |-> r.st, vs |-> Append(acc.vs, r.v)]
        a == FoldLeftDomain(Next1, [st |-> f.st, vs |-> <<>>], e.args)
    IN  IF f.kind = "val" /\ Nullish(f.v) THEN Value(f.st, UndefV)
        ELSE ApplyFunction(p, f.v, a.vs, a.st)

EvalMatch(p, e, env, st) ==
    LET r == EvalExpr(p, e.l, env, st)
    IN  IF IsErr(r) THEN r ELSE EvalArms(p, e.arms, r.v, env, r.st)

EvalExpr(p, e, env, st) ==
    CASE e.t = "Number"    -> Value(st, NumV(e.n))
      [] e.t = "Undefined" -> Value(st, UndefV)
      [] e.t = "Null"      -> Value(st, NullV)
      [] e.t = "Ident"     -> EvalIdent(e, env, st)
      [] e.t = "Array"     -> EvalArgs(p, e.args, env, st, <<>>)
      [] e.t = "Func"      -> Value(st, ClosureV(e.fn, env, <<>>))
      [] e.t = "Prefix"    -> EvalPrefix(p, e, env, st)
      [] e.t = "Infix"     -> EvalInfix(p, e, env, st)
      [] e.t = "Ternary"   -> EvalTernary(p, e, env, st)
      [] e.t = "Assign"    -> EvalAssign(p, e, env, st)
      [] e.t = "Update"    -> EvalUpdate(e, env, st)
      [] e.t = "Call"      -> EvalCall(p, e, env, st)
      [] e.t = "Optional"  -> EvalOptional(p, e, env, st)
      [] e.t = "Match"     -> EvalMatch(p, e, env, st)

EvalBlock(p, ss, env, st) ==
    IF ss = <<>> THEN Value(st, UndefV)
    ELSE LET r == EvalStmt(p, Head(ss), env, st)
         IN  IF Leaves(r) \/ IsErr(r) \/ Len(ss) = 1 THEN r
             ELSE EvalBlock(p, Tail(ss), env, r.st)

\* while and for: the condition and the post expression run in scope env, the
\* body in a scope of its own.  An error of the post expression is dropped.
EvalLoop(p, s, env, st) ==
    LET c    == EvalExpr(p, s.l, env, st)
        body == EvalBlock(p, s.body, Fresh(c.st), Opened(c.st, env))
        post == IF s.t = "For" THEN EvalExpr(p, s.r, env, body.st).st ELSE body.st
    IN  IF IsErr(c) THEN c
        ELSE IF ~Truthy(c.v) THEN Value(c.st, UndefV)
        ELSE IF body.kind = "break" THEN Value(body.st, UndefV)
        ELSE IF body.kind \in {"ret", "err"} THEN body
        ELSE EvalLoop(p, s, env, post)

\* for..of and for..in over the items that are left.
EvalEach(p, s, items, env, st) ==
    IF items = <<>> THEN Value(st, UndefV)
    ELSE LET st1  == [st EXCEPT !.envs = SetHere(@, env, s.x, Head(items))]
             body == EvalBlock(p, s.body, Fresh(st1), Opened(st1, env))
         IN  IF body.kind = "break" THEN Value(body.st, UndefV)
             ELSE IF body.kind \in {"ret", "err"} THEN body
             ELSE EvalEach(p, s, Tail(items), env, body.st)

EvalTry(p, s, env, st) ==
    LET r1 == EvalBlock(p, s.body, Fresh(st), Opened(st, env))
        st2 == [r1.st EXCEPT !.envs = SetHere(Child(@, env), Fresh(r1.st), s.catch[1].x, r1.v)]
        r2 == IF IsErr(r1) /\ s.catch # <<>>
              THEN EvalBlock(p, s.catch[1].body, Fresh(r1.st), st2)
              ELSE r1
        r3 == EvalBlock(p, s.fin[1], Fresh(r2.st), Opened(r2.st, env))
    IN  IF s.fin = <<>> THEN r2
        ELSE IF Leaves(r3) \/ IsErr(r3) THEN r3
        ELSE Res(r3.st, r2.kind, r2.v)

EvalDeclaration(p, s, env, st) ==
    LET r == EvalExpr(p, s.l, env, st)
    IN  IF IsErr(r) THEN r
        ELSE Value([r.st EXCEPT !.envs = IF s.t = "Let" THEN SetHere(@, env, s.x, r.v)
                                         ELSE SetConstHere(@, env, s.x, r.v)], UndefV)

EvalIf(p, s, env, st) ==
    LET c == EvalExpr(p, s.l, env, st)
    IN  IF IsErr(c) THEN c
        ELSE IF Truthy(c.v) THEN EvalBlock(p, s.body, Fresh(c.st), Opened(c.st, env))
        ELSE IF s.alt # <<>> THEN EvalStmt(p, s.alt[1], Fresh(c.st), Opened(c.st, env))
        ELSE Value(c.st, UndefV)

EvalFor(p, s, env, st) ==
    LET init == EvalStmt(p, s.alt[1], Fresh(st), Opened(st, env))
    IN  IF IsErr(init) THEN init ELSE EvalLoop(p, s, Fresh(st), init.st)

EvalForIn(p, s, env, st) ==
    LET r == EvalExpr(p, s.l, env, st)
    IN  IF IsErr(r) THEN r
        ELSE EvalEach(p, s, IterableKeys(r.v), Fresh(r.st), Opened(r.st, env))

EvalForOf(p, s, env, st) ==
    LET r == EvalExpr(p, s.l, env, st)
    IN  IF IsErr(r) THEN r
        ELSE IF ~IsArray(r.v) THEN Raised(r.st, ErrorV("TypeError"))
        ELSE EvalEach(p, s, r.v.arr, Fresh(r.st), Opened(r.st, env))

EvalReturn(p, s, env, st) ==
    LET r == EvalExpr(p, s.l, env, st) IN IF IsErr(r) THEN r ELSE Res(r.st, "ret", r.v)

EvalThrow(p, s, env, st) ==
    LET r == EvalExpr(p, s.l, env, st)
    IN  IF IsErr(r) THEN r ELSE Raised(r.st, IF IsError(r.v) THEN r.v ELSE ThrownV(r.v))

EvalFuncDecl(p, s, env, st) ==
    LET f == ClosureV(s.fn, env, <<>>)
    IN  Value([st EXCEPT !.envs = SetHere(@, env, p.funcs[s.fn].name, f)], f)

EvalStmt(p, s, env, st) ==
    CASE s.t = "Expr"     -> EvalExpr(p, s.l, env, st)
      [] s.t \in {"Let", "Const"} -> EvalDeclaration(p, s, env, st)
      [] s.t = "Block"    -> EvalBlock(p, s.body, Fresh(st), Opened(st, env))
      [] s.t = "If"       -> EvalIf(p, s, env, st)
      [] s.t = "While"    -> EvalLoop(p, s, env, st)
      [] s.t = "For"      -> EvalFor(p, s, env, st)
      [] s.t = "ForIn"    -> EvalForIn(p, s, env, st)
      [] s.t = "ForOf"    -> EvalForOf(p, s, env, st)
      [] s.t = "Return"   -> EvalReturn(p, s, env, st)
      [] s.t = "Break"    -> Res(st, "break", UndefV)
      [] s.t = "Continue" -> Res(st, "continue", UndefV)
      [] s.t = "Throw"    -> EvalThrow(p, s, env, st)
      [] s.t = "Try"      -> EvalTry(p, s, env, st)
      [] s.t = "Labeled"  -> EvalStmt(p, s.body[1], env, st)
      [] s.t = "FuncDecl" -> EvalFuncDecl(p, s, env, st)

\* What a program does under the tree-walker: what it logs and how it ends.
EvalProgram(p) ==
    LET r == EvalBlock(p, p.body, 1, [envs |-> <<RootScope>>, out |-> <<>>])
    IN  [out |-> r.st.out, kind |-> IF r.kind = "ret" THEN "val" ELSE r.kind, v |-> r.v]
=============================================================================
