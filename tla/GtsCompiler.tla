---------------------------- MODULE GtsCompiler -----------------------------
(***************************************************************************)
(* The bytecode compiler of GTS (bytecode/compiler*.rs) as operators that  *)
(* append instructions to a chunk under construction                       *)
(*    cs = [code, regions, loops, fins, bad].                              *)
(* loops are the enclosing loops with their unpatched jumps, fins the      *)
(* enclosing finally blocks with the exits that still have to run them,    *)
(* bad is set where the compiler reports an unsupported construct.         *)
(* Instructions are numbered from 1; an operand is a field of the          *)
(* instruction instead of bytes that follow it.                            *)
(***************************************************************************)
EXTENDS GtsProgram

Op(o)      == [op |-> o]
OpX(o, x)  == [op |-> o, x |-> x]
OpN(o, n)  == [op |-> o, n |-> n]
PushV(v)   == [op |-> "Const", v |-> v]
Jump(o)    == [op |-> o, to |-> 0]
StoreOp(x, isConst) == [op |-> "StoreName", x |-> x, const |-> isConst]

EmptyChunk == [code |-> <<>>, regions |-> <<>>, loops |-> <<>>, fins |-> <<>>, bad |-> FALSE]

Emit(cs, op)          == [cs EXCEPT !.code = Append(@, op)]
EmitAll(cs, ops)      == [cs EXCEPT !.code = @ \o ops]
Here(cs)              == Len(cs.code) + 1
Unsupported(cs)       == [cs EXCEPT !.bad = TRUE]
PatchTo(cs, i, to)    == [cs EXCEPT !.code[i].to = to]
PatchHere(cs, i)      == PatchTo(cs, i, Here(cs))
PatchAll(cs, is, to)  == FoldLeft(LAMBDA c, i : PatchTo(c, i, to), cs, is)

\* Temporaries are named by the position of the construct they belong to.
Temp(what, pos) == what \o pos

(***************************************************************************)
(* Jumps out of a construct: return, break and continue.                   *)
(***************************************************************************)

\* An exit that still has finally blocks to run waits in the innermost one;
\* one that has none left returns or jumps.
EmitAbrupt(act, cs) ==
    LET depth == IF act.kind = "return" THEN 0 ELSE act.depth
        here  == Len(cs.code) + 1
        cs1   == Emit(cs, Jump("Jump"))
        n     == Len(cs.fins)
        loop  == CHOOSE i \in DOMAIN cs.loops : cs.loops[i].id = act.id
    IN  IF n > depth
        THEN [cs1 EXCEPT !.fins[n].exits = Append(@, [patch |-> here, act |-> act])]
        ELSE IF act.kind = "return" THEN EmitAll(cs, <<OpX("LoadName", act.x), Op("Return")>>)
        ELSE IF act.kind = "break" THEN [cs1 EXCEPT !.loops[loop].breaks = Append(@, here)]
        ELSE [cs1 EXCEPT !.loops[loop].continues = Append(@, here)]

\* break and continue look for the innermost loop, or for the labelled one.
CompileJump(s, cs) ==
    LET targets == {i \in DOMAIN cs.loops : s.label = "" \/ cs.loops[i].label = s.label}
        target  == cs.loops[CHOOSE i \in targets : \A j \in targets : j <= i]
    IN  IF targets = {} THEN Unsupported(cs)
        ELSE EmitAbrupt([kind |-> IF s.t = "Break" THEN "break" ELSE "continue",
                         id |-> target.id, depth |-> target.depth], cs)

PushLoop(cs, label) ==
    [cs EXCEPT !.loops = Append(@, [id |-> Len(@), label |-> label, depth |-> Len(cs.fins),
                                    breaks |-> <<>>, continues |-> <<>>])]

\* The end of a loop: back edge to start, then its jumps are patched.
CloseLoop(cs, start, continueAt, frame, toEnd) ==
    LET cs1 == Emit(cs, [op |-> "Loop", to |-> start])
        end == Here(cs1)
    IN  PatchAll(PatchAll(PatchTo(cs1, toEnd, end), frame.breaks, end),
                 frame.continues, continueAt)
PopLoop(cs) == [cs EXCEPT !.loops = Front(@)]

RECURSIVE CompileExpr(_, _), CompileStmt(_, _, _), CompileStmts(_, _), CompileArgs(_, _),
          CompilePattern(_, _), CompileArms(_, _, _), CompilePending(_, _, _),
          CompileKeeping(_, _)

CompileStmts(ss, cs) == FoldLeft(LAMBDA c, s : CompileStmt(s, c, FALSE), cs, ss)
CompileArgs(args, cs) == FoldLeft(LAMBDA c, e : CompileExpr(e, c), cs, args)

\* Statements of a body: only the last keeps the value of an expression.
CompileKeeping(ss, cs) ==
    FoldLeftDomain(LAMBDA c, i : CompileStmt(ss[i], c, i = Len(ss)), cs, ss)

CompilePendingMutant(exits, fin, cs) ==
    IF exits = <<>> THEN cs
    ELSE CompilePending(Tail(exits), fin,
                        EmitAbrupt(Head(exits).act, PatchHere(cs, Head(exits).patch)))

\* After a try with a finally block: each waiting exit runs a copy of the
\* block, then goes on to the next block outwards or to its target.
CompilePending(exits, fin, cs) ==
    IF exits = <<>> THEN cs
    ELSE LET e   == Head(exits)
             cs1 == CompileStmts(fin, PatchHere(cs, e.patch))
         IN  CompilePending(Tail(exits), fin, EmitAbrupt(e.act, cs1))

CompileTry(s, cs) ==
    LET hasFin   == s.fin # <<>>
        hasCatch == s.catch # <<>>
        cs0      == IF hasFin THEN [cs EXCEPT !.fins = Append(@, [exits |-> <<>>])] ELSE cs
        tryStart == Here(cs0)
        cs1      == CompileStmts(s.body, cs0)
        tryEnd   == Here(cs1)
        cs2      == Emit(cs1, Jump("Jump"))
        catchAt  == Here(cs2)
        cs3      == IF hasCatch
                    THEN CompileStmts(s.catch[1].body, Emit(cs2, StoreOp(s.catch[1].x, FALSE)))
                    ELSE cs2
        catchEnd == Here(cs3)
        exits    == IF hasFin THEN Last(cs3.fins).exits ELSE <<>>
        cs4      == PatchHere(IF hasFin THEN [cs3 EXCEPT !.fins = Front(@)] ELSE cs3, tryEnd)
        cs5      == Emit(CompileStmts(s.fin[1], cs4), Jump("Jump"))
        finAt    == Here(cs5)
        pending  == Temp("pending_error", s.pos)
        cs6      == EmitAll(CompileStmts(s.fin[1], Emit(cs5, StoreOp(pending, FALSE))),
                            <<OpX("LoadName", pending), Op("Throw")>>)
        cs7      == PatchHere(CompilePending(exits, s.fin[1], cs6), finAt - 1)
        done     == IF hasFin THEN cs7 ELSE cs4
        region   == [from |-> tryStart, to |-> tryEnd,
                     handler |-> IF hasCatch \/ ~hasFin THEN catchAt ELSE finAt]
        regions  == IF hasFin /\ catchEnd > catchAt
                    THEN <<region, [from |-> catchAt, to |-> catchEnd, handler |-> finAt]>>
                    ELSE <<region>>
    IN  [done EXCEPT !.regions = @ \o regions]

(***************************************************************************)
(* Statements.                                                             *)
(***************************************************************************)

CompileIf(s, cs) ==
    LET cs1    == Emit(CompileExpr(s.l, cs), Jump("JumpIfFalse"))
        toElse == Len(cs1.code)
        cs2    == CompileStmts(s.body, cs1)
        cs3    == Emit(cs2, Jump("Jump"))
        toEnd  == Len(cs3.code)
    IN  IF s.alt = <<>> THEN PatchHere(cs2, toElse)
        ELSE PatchHere(CompileStmt(s.alt[1], PatchHere(cs3, toElse), FALSE), toEnd)

CompileWhile(s, label, cs) ==
    LET start == Here(cs)
        cs1   == Emit(CompileExpr(s.l, cs), Jump("JumpIfFalse"))
        cs2   == CompileStmts(s.body, PushLoop(cs1, label))
    IN  CloseLoop(PopLoop(cs2), start, start, Last(cs2.loops), Len(cs1.code))

CompileFor(s, label, cs) ==
    LET cs0   == CompileStmt(s.alt[1], cs, FALSE)
        start == Here(cs0)
        cs1   == Emit(CompileExpr(s.l, cs0), Jump("JumpIfFalse"))
        cs2   == CompileStmts(s.body, PushLoop(cs1, label))
        cs3   == Emit(CompileExpr(s.r, PopLoop(cs2)), Op("Pop"))
    IN  CloseLoop(cs3, start, Here(cs2), Last(cs2.loops), Len(cs1.code))

CompileForIn(s, label, cs) ==
    LET items == Temp("iter_items", s.pos)
        idx   == Temp("iter_idx", s.pos)
        cs0   == EmitAll(CompileExpr(s.l, cs),
                         <<Op("IterKeys"), StoreOp(items, FALSE), PushV(NumV(0)), StoreOp(idx, FALSE)>>)
        start == Here(cs0)
        cs1   == EmitAll(cs0, <<OpX("LoadName", idx), OpX("LoadName", items), Op("Len"),
                                OpX("Binary", "<"), Jump("JumpIfFalse")>>)
        cs2   == EmitAll(cs1, <<OpX("LoadName", items), OpX("LoadName", idx), Op("GetIndex"),
                                StoreOp(s.x, FALSE)>>)
        cs3   == CompileStmts(s.body, PushLoop(cs2, label))
        cs4   == EmitAll(PopLoop(cs3), <<OpX("LoadName", idx), PushV(NumV(1)), OpX("Binary", "+"),
                                         Op("Dup"), OpX("AssignName", idx), Op("Pop")>>)
    IN  CloseLoop(cs4, start, Here(cs3), Last(cs3.loops), Len(cs1.code))

CompileForOf(s, label, cs) ==
    LET iter  == Temp("iter", s.pos)
        next  == Temp("iter_next", s.pos)
        cs0   == EmitAll(CompileExpr(s.l, cs), <<Op("IterValues"), StoreOp(iter, FALSE)>>)
        start == Here(cs0)
        cs1   == EmitAll(cs0, <<OpX("LoadName", iter), Op("IterNext"), StoreOp(next, FALSE),
                                OpX("LoadName", next), OpX("GetProperty", "done"), Jump("JumpIfTrue")>>)
        cs2   == EmitAll(cs1, <<OpX("LoadName", next), OpX("GetProperty", "value"), StoreOp(s.x, FALSE)>>)
        cs3   == CompileStmts(s.body, PushLoop(cs2, label))
    IN  CloseLoop(PopLoop(cs3), start, start, Last(cs3.loops), Len(cs1.code))

CompileReturn(s, cs) ==
    LET cs1 == CompileExpr(s.l, cs)
    IN  IF cs.fins = <<>> THEN Emit(cs1, Op("Return"))
        ELSE EmitAbrupt([kind |-> "return", x |-> Temp("return", s.pos)],
                        Emit(cs1, StoreOp(Temp("return", s.pos), FALSE)))

\* A label belongs to the loop it precedes and to nothing else.
CompileLoop(s, label, cs) ==
    CASE s.t = "While" -> CompileWhile(s, label, cs)
      [] s.t = "For"   -> CompileFor(s, label, cs)
      [] s.t = "ForIn" -> CompileForIn(s, label, cs)
      [] s.t = "ForOf" -> CompileForOf(s, label, cs)
      [] OTHER         -> CompileStmt(s, cs, FALSE)

CompileStmt(s, cs, keep) ==
    CASE s.t = "Expr"     -> LET c == CompileExpr(s.l, cs) IN IF keep THEN c ELSE Emit(c, Op("Pop"))
      [] s.t = "Let"      -> Emit(CompileExpr(s.l, cs), StoreOp(s.x, FALSE))
      [] s.t = "Const"    -> Emit(CompileExpr(s.l, cs), StoreOp(s.x, TRUE))
      [] s.t = "Block"    -> CompileStmts(s.body, cs)
      [] s.t = "If"       -> CompileIf(s, cs)
      [] s.t \in {"While", "For", "ForIn", "ForOf"} -> CompileLoop(s, "", cs)
      [] s.t \in {"Break", "Continue"} -> CompileJump(s, cs)
      [] s.t = "Labeled"  -> CompileLoop(s.body[1], s.label, cs)
      [] s.t = "Throw"    -> Emit(CompileExpr(s.l, cs), Op("Throw"))
      [] s.t = "Try"      -> CompileTry(s, cs)
      [] s.t = "FuncDecl" -> EmitAll(cs, <<OpN("Closure", s.fn), [op |-> "StoreFunc", n |-> s.fn]>>)
      [] s.t = "Return"   -> CompileReturn(s, cs)

(***************************************************************************)
(* Expressions.                                                            *)
(***************************************************************************)

\* Jump away, leaving the value, when the value on top is null or undefined.
NullishChecks(cs) ==
    EmitAll(cs, <<Op("Dup"), PushV(NullV), OpX("Binary", "==="), Jump("JumpIfTrue"),
                  Op("Dup"), PushV(UndefV), OpX("Binary", "==="), Jump("JumpIfTrue")>>)

CompileAnd(e, cs) ==
    LET cs1 == EmitAll(CompileExpr(e.l, cs), <<Op("Dup"), Jump("JumpIfFalse")>>)
    IN  PatchHere(CompileExpr(e.r, Emit(cs1, Op("Pop"))), Len(cs1.code))

CompileOr(e, cs) ==
    LET cs1 == EmitAll(CompileExpr(e.l, cs), <<Op("Dup"), Jump("JumpIfFalse"), Jump("Jump")>>)
        toEnd == Len(cs1.code)
        cs2 == Emit(PatchHere(cs1, toEnd - 1), Op("Pop"))
    IN  PatchHere(CompileExpr(e.r, cs2), toEnd)

CompileNullish(e, cs) ==
    LET cs1   == NullishChecks(CompileExpr(e.l, cs))
        n     == Len(cs1.code)
        cs2   == Emit(cs1, Jump("Jump"))
        cs3   == PatchHere(PatchHere(cs2, n - 4), n)
    IN  PatchHere(CompileExpr(e.r, Emit(cs3, Op("Pop"))), n + 1)

CompileTernary(e, cs) ==
    LET cs1 == Emit(CompileExpr(e.c, cs), Jump("JumpIfFalse"))
        cs2 == Emit(CompileExpr(e.l, cs1), Jump("Jump"))
    IN  PatchHere(CompileExpr(e.r, PatchHere(cs2, Len(cs1.code))), Len(cs2.code))

\* Arguments: pushed one by one, or packed into an array when one is spread.
CompileCallArgs(args, cs) ==
    LET Pack(c, e) == IF e.t = "Spread" THEN Emit(CompileExpr(e.l, c), Op("Spread"))
                      ELSE Emit(CompileExpr(e, c), Op("PushArg"))
    IN  IF \E i \in DOMAIN args : args[i].t = "Spread"
        THEN Emit(FoldLeft(Pack, Emit(cs, OpN("NewArray", 0)), args), Op("CallSpread"))
        ELSE Emit(CompileArgs(args, cs), OpN("Call", Len(args)))

CompileOptional(e, cs) ==
    LET cs1 == NullishChecks(CompileExpr(e.l, cs))
        n   == Len(cs1.code)
        cs2 == Emit(CompileCallArgs(e.args, cs1), Jump("Jump"))
        cs3 == PatchHere(PatchHere(cs2, n - 4), n)
    IN  PatchHere(EmitAll(cs3, <<Op("Pop"), PushV(UndefV)>>), Len(cs2.code))

\* Assignment leaves its value on the stack, and ASSIGN_NAME leaves it again.
CompileAssign(e, cs) ==
    LET cs1 == IF e.op = "=" THEN CompileExpr(e.r, cs)
               ELSE Emit(CompileExpr(e.r, Emit(cs, OpX("LoadName", e.x))), OpX("Binary", "+"))
    IN  EmitAll(cs1, <<Op("Dup"), OpX("AssignName", e.x)>>)

CompileUpdate(e, cs) ==
    LET delta == OpX("Binary", IF e.op = "++" THEN "+" ELSE "-")
    IN  EmitAll(cs, IF e.prefix
                    THEN <<OpX("LoadName", e.x), PushV(NumV(1)), delta, OpX("AssignName", e.x)>>
                    ELSE <<OpX("LoadName", e.x), Op("Dup"), PushV(NumV(1)), delta,
                           OpX("AssignName", e.x), Op("Pop")>>)

\* A pattern test takes the subject off the stack and leaves a truth value.
CompilePattern(q, cs) ==
    CASE q.t = "PLiteral" -> Emit(CompileExpr(q.l, cs), OpX("Binary", "==="))
      [] q.t \in {"PWildcard", "PIdent"} -> EmitAll(cs, <<Op("Pop"), PushV(BoolV(TRUE))>>)
      [] q.t = "POr" ->
           LET One(acc, alt) == LET c == Emit(CompilePattern(alt, Emit(acc.cs, Op("Dup"))),
                                              Jump("JumpIfTrue"))
                                IN  [cs |-> c, jumps |-> Append(acc.jumps, Len(c.code))]
               r   == FoldLeft(One, [cs |-> cs, jumps |-> <<>>], q.args)
               cs1 == EmitAll(r.cs, <<Op("Pop"), PushV(BoolV(FALSE)), Jump("Jump")>>)
               cs2 == PatchAll(cs1, r.jumps, Here(cs1))
           IN  PatchHere(EmitAll(cs2, <<Op("Pop"), PushV(BoolV(TRUE))>>), Len(cs1.code))
      [] q.t = "PRange" ->
           LET cs1 == EmitAll(CompileExpr(q.l, Emit(cs, Op("Dup"))),
                              <<OpX("Binary", ">="), Jump("JumpIfFalse")>>)
               cs2 == EmitAll(CompileExpr(q.r, cs1),
                              <<OpX("Binary", IF q.prefix THEN "<=" ELSE "<"), Jump("Jump")>>)
               cs3 == PatchHere(cs2, Len(cs1.code))
           IN  PatchHere(EmitAll(cs3, <<Op("Pop"), PushV(BoolV(FALSE))>>), Len(cs2.code))

\* A block of an arm is compiled as if no loop and no finally enclosed it.
CompileMatchBody(arm, cs) ==
    LET alone == CompileKeeping(arm.body, [cs EXCEPT !.loops = <<>>, !.fins = <<>>])
    IN  IF arm.value # <<>> THEN CompileExpr(arm.value[1], cs)
        ELSE IF arm.body = <<>> THEN Emit(cs, PushV(UndefV))
        ELSE [alone EXCEPT !.loops = cs.loops, !.fins = cs.fins]

CompileArms(arms, subject, cs) ==
    IF arms = <<>> THEN [cs |-> cs, ends |-> <<>>]
    ELSE LET arm   == Head(arms)
             cs1   == Emit(CompilePattern(arm.pat, Emit(cs, OpX("LoadName", subject))), Jump("JumpIfFalse"))
             cs2   == IF arm.pat.t = "PIdent"
                      THEN EmitAll(cs1, <<OpX("LoadName", subject), StoreOp(arm.pat.x, FALSE)>>)
                      ELSE cs1
             cs3   == IF arm.guard = <<>> THEN cs2
                      ELSE Emit(CompileExpr(arm.guard[1], cs2), Jump("JumpIfFalse"))
             cs4   == Emit(CompileMatchBody(arm, cs3), Jump("Jump"))
             cs5   == IF arm.guard = <<>> THEN cs4 ELSE PatchHere(cs4, Len(cs3.code))
             rest  == CompileArms(Tail(arms), subject, PatchHere(cs5, Len(cs1.code)))
         IN  [cs |-> rest.cs, ends |-> <<Len(cs4.code)>> \o rest.ends]

CompileMatch(e, cs) ==
    LET subject == Temp("match_subject", e.pos)
        r       == CompileArms(e.arms, subject, Emit(CompileExpr(e.l, cs), StoreOp(subject, FALSE)))
        cs1     == EmitAll(r.cs, <<OpX("LoadName", subject), Op("ThrowMatchError")>>)
    IN  PatchAll(cs1, r.ends, Here(cs1))

CompileInfix(e, cs) ==
    CASE e.op = "&&" -> CompileAnd(e, cs)
      [] e.op = "||" -> CompileOr(e, cs)
      [] e.op = "??" -> CompileNullish(e, cs)
      [] OTHER       -> Emit(CompileExpr(e.r, CompileExpr(e.l, cs)), OpX("Binary", e.op))

CompilePrefix(e, cs) ==
    IF e.op = "void" THEN EmitAll(CompileExpr(e.l, cs), <<Op("Pop"), PushV(UndefV)>>)
    ELSE Emit(CompileExpr(e.l, cs), OpX("Unary", e.op))

\* An array literal: elements in place, or packed when one is spread.
CompileArray(e, cs) ==
    LET Pack(c, a) == IF a.t = "Spread" THEN Emit(CompileExpr(a.l, c), Op("Spread"))
                      ELSE Emit(CompileExpr(a, c), Op("PushArg"))
    IN  IF \E i \in DOMAIN e.args : e.args[i].t = "Spread"
        THEN FoldLeft(Pack, Emit(cs, OpN("NewArray", 0)), e.args)
        ELSE Emit(CompileArgs(e.args, cs), OpN("NewArray", Len(e.args)))

CompileExpr(e, cs) ==
    CASE e.t = "Number"    -> Emit(cs, PushV(NumV(e.n)))
      [] e.t = "Undefined" -> Emit(cs, PushV(UndefV))
      [] e.t = "Null"      -> Emit(cs, PushV(NullV))
      [] e.t = "Ident"     -> Emit(cs, OpX("LoadName", e.x))
      [] e.t = "Array"     -> CompileArray(e, cs)
      [] e.t = "Func"      -> Emit(cs, OpN("Closure", e.fn))
      [] e.t = "Prefix"    -> CompilePrefix(e, cs)
      [] e.t = "Infix"     -> CompileInfix(e, cs)
      [] e.t = "Ternary"   -> CompileTernary(e, cs)
      [] e.t = "Assign"    -> CompileAssign(e, cs)
      [] e.t = "Update"    -> CompileUpdate(e, cs)
      [] e.t = "Call"      -> CompileCallArgs(e.args, CompileExpr(e.l, cs))
      [] e.t = "Optional"  -> CompileOptional(e, cs)
      [] e.t = "Match"     -> CompileMatch(e, cs)

(***************************************************************************)
(* Chunks.                                                                 *)
(***************************************************************************)

\* A function body gets a RETURN unless its last instruction is one.
CompileFunction(fn) ==
    LET cs == CompileKeeping(fn.body, EmptyChunk)
    IN  IF cs.code # <<>> /\ Last(cs.code).op = "Return" THEN cs
        ELSE Emit(cs, Op("Return"))

CompileProgram(p) == Emit(CompileKeeping(p.body, EmptyChunk), Op("Return"))
=============================================================================
