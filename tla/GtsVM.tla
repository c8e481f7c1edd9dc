-------------------------------- MODULE GtsVM -------------------------------
(***************************************************************************)
(* The stack machine of GTS (bytecode/interp.rs, call.rs and               *)
(* interp_helpers/): one action per instruction group, on the code that    *)
(* GtsCompiler produces for a program.                                     *)
(*                                                                         *)
(* A frame is one call of interpret.  The functions of a program share the *)
(* heap of scopes (envs) and the captured variables (cells).  A handler    *)
(* returns Result<Flow, Object>: an error first appears in raised, and the *)
(* next step unwinds to a handler of the frame or fails the frame.         *)
(***************************************************************************)
EXTENDS GtsCompiler, GtsTree

CONSTANT Compiled       \* the programs that may be run, with their code: [prog, chunks]

VARIABLES
    prog,       \* the program that runs
    chunks,     \* its code: chunks[1] is the top level, then its functions
    frames,     \* the call stack, innermost last
    envs,       \* scopes
    cells,      \* upvalues: [slot, v], slot is Closed or a slot of its frame
    iters,      \* iterators of for..of: what is left of each
    out,        \* what log has recorded
    raised,     \* <<>> or <<the error a handler has just returned>>
    done        \* <<>> or <<how the program ended>>
vars == <<prog, chunks, frames, envs, cells, iters, out, raised, done>>

Closed == -1
VMError == ErrorV("VMError")

Compile(p) == <<CompileProgram(p)>> \o [i \in DOMAIN p.funcs |-> CompileFunction(p.funcs[i])]

\* A program is compiled as a whole before it runs.
ASSUME CodeAssumption == \A c \in Compiled : c.chunks = Compile(c.prog)

Top     == frames[Len(frames)]
Chunk   == chunks[Top.fn + 1]
Stack   == Top.stack
Ins     == Chunk.code[Top.ip]
Running == done = <<>> /\ raised = <<>> /\ Top.ip <= Len(Chunk.code)
At(op)  == Running /\ Ins.op = op

NewFrame(fn, env, ups) ==
    [fn |-> fn, ip |-> 1, last |-> 1, stack |-> <<>>, env |-> env, ups |-> ups, open |-> <<>>]

Init ==
    /\ \E c \in Compiled : prog = c.prog /\ chunks = c.chunks
    /\ frames = <<NewFrame(0, 1, <<>>)>>
    /\ envs = <<RootScope>>
    /\ cells = <<>> /\ iters = <<>> /\ out = <<>> /\ raised = <<>> /\ done = <<>>

(***************************************************************************)
(* What an instruction does to its frame.                                  *)
(***************************************************************************)

\* The frame after its current instruction: a new stack, and where it goes on.
Moved(stack, to) ==
    [frames EXCEPT ![Len(frames)].stack = stack, ![Len(frames)].last = Top.ip,
                   ![Len(frames)].ip = to]
Proceed(stack) == frames' = Moved(stack, Top.ip + 1) /\ raised' = raised
Goto(stack, to) == frames' = Moved(stack, to) /\ raised' = raised
RaiseWith(stack, v) == frames' = Moved(stack, Top.ip + 1) /\ raised' = <<v>>

Below(n) == SubSeq(Stack, 1, Len(Stack) - n)
Args(n)  == SubSeq(Stack, Len(Stack) - n + 1, Len(Stack))

\* Take n values off the stack and push the outcome of F; an error is raised.
Compute(n, F(_)) ==
    IF Len(Stack) < n THEN RaiseWith(<<>>, VMError)
    ELSE LET o == F(Args(n))
         IN  IF o.kind = "err" THEN RaiseWith(Below(n), o.v)
             ELSE Proceed(Append(Below(n), o.v))

Pure == UNCHANGED <<prog, chunks, envs, cells, iters, out, done>>

PushConst == At("Const") /\ Proceed(Append(Stack, Ins.v)) /\ Pure
\* POP of an empty stack is not an error.
PopTop == At("Pop") /\ Proceed(IF Stack = <<>> THEN <<>> ELSE Front(Stack)) /\ Pure
DupTop ==
    /\ At("Dup")
    /\ IF Stack = <<>> THEN RaiseWith(<<>>, VMError) ELSE Proceed(Append(Stack, Last(Stack)))
    /\ Pure
BinOp == At("Binary") /\ Compute(2, LAMBDA a : ApplyBinary(Ins.x, a[1], a[2])) /\ Pure
UnOp  == At("Unary") /\ Compute(1, LAMBDA a : ApplyUnary(Ins.x, a[1])) /\ Pure

JumpAlways == Running /\ Ins.op \in {"Jump", "Loop"} /\ Goto(Stack, Ins.to) /\ Pure
JumpOn(op, truth) ==
    /\ At(op)
    /\ IF Stack = <<>> THEN RaiseWith(<<>>, VMError)
       ELSE Goto(Front(Stack), IF Truthy(Last(Stack)) = truth THEN Ins.to ELSE Top.ip + 1)
    /\ Pure
JumpIfFalse == JumpOn("JumpIfFalse", FALSE)
JumpIfTrue  == JumpOn("JumpIfTrue", TRUE)

(***************************************************************************)
(* Names live in the scopes, whatever the resolver found.                  *)
(***************************************************************************)

LoadName ==
    /\ At("LoadName")
    /\ IF Bound(envs, Top.env, Ins.x) THEN Proceed(Append(Stack, Lookup(envs, Top.env, Ins.x)))
       ELSE RaiseWith(Stack, ErrorV("ReferenceError"))
    /\ Pure

StoreTo(x, const) ==
    /\ IF Stack = <<>> THEN RaiseWith(<<>>, VMError) /\ UNCHANGED envs
       ELSE /\ Proceed(Front(Stack))
            /\ envs' = IF const THEN SetConstHere(envs, Top.env, x, Last(Stack))
                       ELSE SetHere(envs, Top.env, x, Last(Stack))
    /\ UNCHANGED <<prog, chunks, cells, iters, out, done>>
StoreName == At("StoreName") /\ StoreTo(Ins.x, Ins.const)
StoreFunc == At("StoreFunc") /\ StoreTo(prog.funcs[Ins.n].name, FALSE)

\* ASSIGN_NAME reads the top of the stack and leaves it there.  Globals have
\* no binding: assigning one is a ReferenceError.
AssignName ==
    /\ At("AssignName")
    /\ IF Stack = <<>> THEN RaiseWith(<<>>, VMError) /\ UNCHANGED envs
       ELSE LET h == Holder(envs, Top.env, Ins.x)
            IN  IF h = 0 THEN RaiseWith(Stack, ErrorV("ReferenceError")) /\ UNCHANGED envs
                ELSE IF Ins.x \in envs[h].consts
                THEN RaiseWith(Stack, ErrorV("TypeError")) /\ UNCHANGED envs
                ELSE /\ Proceed(Stack)
                     /\ envs' = [envs EXCEPT ![h].vars[Ins.x] = Last(Stack)]
    /\ UNCHANGED <<prog, chunks, cells, iters, out, done>>

(***************************************************************************)
(* Closures and calls.                                                     *)
(***************************************************************************)

\* CLOSURE: a variable of this function that has a value is copied into a new
\* cell; one that has none yet is captured by slot, once per frame; a variable
\* of an outer function is this function's own cell.
PushClosure ==
    /\ At("Closure")
    /\ LET ups == Upvalues(prog, Ins.n)
           Own(x) == Top.fn # 0 /\ x \in Locals(prog, Top.fn)
           Capture(acc, x) ==
               LET slot == Slot(prog, Top.fn, x)
                   open == {i \in ToSet(acc.open) : acc.cells[i].slot = slot}
                   n    == Len(acc.cells) + 1
               IN  IF ~Own(x)
                   THEN [acc EXCEPT !.got = Append(@, Top.ups[CHOOSE i \in DOMAIN Top.ups : Upvalues(prog, Top.fn)[i] = x])]
                   ELSE IF Bound(envs, Top.env, x)
                   THEN [acc EXCEPT !.got = Append(@, n),
                                    !.cells = Append(@, [slot |-> Closed, v |-> Lookup(envs, Top.env, x)])]
                   ELSE IF open # {} THEN [acc EXCEPT !.got = Append(@, CHOOSE i \in open : TRUE)]
                   ELSE [got |-> Append(acc.got, n), open |-> Append(acc.open, n),
                         cells |-> Append(acc.cells, [slot |-> slot, v |-> UndefV])]
           r == FoldLeft(Capture, [got |-> <<>>, cells |-> cells, open |-> Top.open], ups)
       IN  /\ frames' = [Moved(Append(Stack, ClosureV(Ins.n, Top.env, r.got)), Top.ip + 1)
                            EXCEPT ![Len(frames)].open = r.open]
           /\ cells' = r.cells
    /\ UNCHANGED <<prog, chunks, envs, iters, out, raised, done>>

\* CALL n finds the callee under its n arguments, CALL_SPREAD under an array.
Calling == Running /\ Ins.op \in {"Call", "CallSpread"}
Taken   == IF Ins.op = "Call" THEN Ins.n + 1 ELSE 2
Ready   == Len(Stack) >= Taken
Callee  == Args(Taken)[1]
Passed  == IF Ins.op = "Call" THEN Tail(Args(Taken)) ELSE Last(Stack).arr

CallBuiltin ==
    /\ Calling /\ Ready /\ DOMAIN Callee = {"bi"}
    /\ IF Callee.bi = "log"
       THEN /\ out' = Append(out, Passed)
            /\ Proceed(Append(Below(Taken), UndefV))
       ELSE RaiseWith(Below(Taken), ErrorV("Failed")) /\ UNCHANGED out
    /\ UNCHANGED <<prog, chunks, envs, cells, iters, done>>

\* A scope under the closure's own: parameters, then the captured variables
\* that have a value.
CallClosure ==
    /\ Calling /\ Ready /\ "fn" \in DOMAIN Callee
    /\ LET fn    == prog.funcs[Callee.fn]
           names == Upvalues(prog, Callee.fn)
           scope == Len(envs) + 1
           Param(es, i) == SetHere(es, scope, fn.params[i],
                                   IF i \in DOMAIN Passed THEN Passed[i] ELSE UndefV)
           Captured(es, i) == LET c == cells[Callee.ups[i]]
                              IN  IF c.slot = Closed THEN SetHere(es, scope, names[i], c.v) ELSE es
           bound == FoldLeftDomain(Param, Child(envs, Callee.env), fn.params)
       IN  /\ envs' = FoldLeftDomain(Captured, bound, names)
           /\ frames' = Append(Moved(Below(Taken), Top.ip + 1),
                               NewFrame(Callee.fn, scope, Callee.ups))
    /\ UNCHANGED <<prog, chunks, cells, iters, out, raised, done>>

CallRefused ==
    /\ Calling
    /\ Ready => DOMAIN Callee # {"bi"} /\ "fn" \notin DOMAIN Callee
    /\ IF Ready THEN RaiseWith(Below(Taken), ErrorV("TypeError")) ELSE RaiseWith(Stack, VMError)
    /\ Pure

\* Leaving a function writes its captured variables back to their cells.
Flushed(cs) ==
    LET names == IF Top.fn = 0 THEN <<>> ELSE Upvalues(prog, Top.fn)
        vs    == envs[Top.env].vars
        Back(c, i) == IF names[i] \in DOMAIN vs /\ c[Top.ups[i]].slot = Closed
                      THEN [c EXCEPT ![Top.ups[i]].v = vs[names[i]]] ELSE c
    IN  FoldLeftDomain(Back, cs, names)

\* Open cells of the frame take the value their slot of the stack has.
ClosedAt(stack) ==
    [i \in DOMAIN cells |->
        IF i \in ToSet(Top.open) /\ cells[i].slot # Closed /\ cells[i].slot < Len(stack)
        THEN [slot |-> Closed, v |-> stack[cells[i].slot + 1]] ELSE cells[i]]

ReturnFromStack ==
    /\ At("Return")
    /\ LET v     == IF Stack = <<>> THEN UndefV ELSE Last(Stack)
           rest  == IF Stack = <<>> THEN <<>> ELSE Front(Stack)
           outer == Front(frames)
       IN  /\ cells' = Flushed(ClosedAt(rest))
           /\ IF outer = <<>>
              THEN done' = <<Ok(v)>> /\ UNCHANGED frames
              ELSE /\ frames' = [outer EXCEPT ![Len(outer)].stack = Append(@, v)]
                   /\ UNCHANGED done
    /\ UNCHANGED <<prog, chunks, envs, iters, out, raised>>

(***************************************************************************)
(* Arrays and iteration.                                                   *)
(***************************************************************************)

NewArray ==
    /\ At("NewArray")
    /\ IF Len(Stack) < Ins.n THEN RaiseWith(Stack, VMError)
       ELSE Proceed(Append(Below(Ins.n), ArrayV(Args(Ins.n))))
    /\ Pure
PushArg == At("PushArg") /\ Compute(2, LAMBDA a : Ok(ArrayV(Append(a[1].arr, a[2])))) /\ Pure
SpreadArg ==
    /\ At("Spread")
    /\ Compute(2, LAMBDA a : Ok(ArrayV(IF IsArray(a[2]) THEN a[1].arr \o a[2].arr
                                       ELSE Append(a[1].arr, a[2]))))
    /\ Pure
IterKeys == At("IterKeys") /\ Compute(1, LAMBDA a : Ok(ArrayV(IterableKeys(a[1])))) /\ Pure
IterValues ==
    /\ At("IterValues")
    /\ Compute(1, LAMBDA a : IF IsArray(a[1]) THEN Ok(IteratorV(Len(iters) + 1)) ELSE TypeError)
    /\ iters' = IF Stack # <<>> /\ IsArray(Last(Stack)) THEN Append(iters, Last(Stack).arr) ELSE iters
    /\ UNCHANGED <<prog, chunks, envs, cells, out, done>>
IterNext ==
    /\ At("IterNext")
    /\ LET i == Last(Stack).it
           left == iters[i]
       IN  /\ Proceed(Append(Front(Stack),
                             IF left = <<>> THEN [done |-> BoolV(TRUE), value |-> UndefV]
                             ELSE [done |-> BoolV(FALSE), value |-> Head(left)]))
           /\ iters' = [iters EXCEPT ![i] = IF @ = <<>> THEN @ ELSE Tail(@)]
    /\ UNCHANGED <<prog, chunks, envs, cells, out, done>>
Length == At("Len") /\ Compute(1, LAMBDA a : Ok(NumV(Len(a[1].arr)))) /\ Pure
GetIndex == At("GetIndex") /\ Compute(2, LAMBDA a : Ok(a[1].arr[a[2].n + 1])) /\ Pure
GetProperty ==
    At("GetProperty") /\ Compute(1, LAMBDA a : Ok(IF Ins.x = "done" THEN a[1].done ELSE a[1].value))
    /\ Pure

(***************************************************************************)
(* Errors.                                                                 *)
(***************************************************************************)

ThrowTop ==
    /\ At("Throw")
    /\ Compute(1, LAMBDA a : Err(IF IsError(a[1]) THEN a[1] ELSE ThrownV(a[1])))
    /\ Pure
ThrowMatchError == At("ThrowMatchError") /\ Compute(1, LAMBDA a : Err(ErrorV("MatchError"))) /\ Pure

\* The protected region that handles a fault of the frame's last instruction:
\* of those around it the one that starts last, and the latest in the table
\* when several start there; 0 when there is none.
Region ==
    LET rs     == Chunk.regions
        around == {i \in DOMAIN rs : /\ rs[i].from <= Top.last /\ Top.last < rs[i].to
                                     /\ rs[i].handler > rs[i].to}
        best   == {i \in around : \A j \in around : rs[j].from <= rs[i].from}
    IN  IF around = {} THEN 0 ELSE CHOOSE i \in best : \A j \in best : j <= i

\* The error is pushed on what the fault left on the stack.
UnwindToHandler ==
    /\ done = <<>> /\ raised # <<>> /\ Region # 0
    /\ frames' = [frames EXCEPT ![Len(frames)].stack = Append(@, raised[1]),
                                ![Len(frames)].ip = Chunk.regions[Region].handler]
    /\ raised' = <<>>
    /\ Pure

\* No handler, or the code ended without a RETURN: no handler sees the latter.
Unhandled == (raised # <<>> /\ Region = 0) \/ (raised = <<>> /\ Top.ip > Len(Chunk.code))
FrameFails ==
    /\ done = <<>> /\ Unhandled
    /\ LET e == IF raised = <<>> THEN VMError ELSE raised[1]
       IN  /\ cells' = Flushed(cells)
           /\ IF Len(frames) = 1
              THEN done' = <<Err(e)>> /\ raised' = <<>> /\ UNCHANGED frames
              ELSE frames' = Front(frames) /\ raised' = <<e>> /\ UNCHANGED done
    /\ UNCHANGED <<prog, chunks, envs, iters, out>>

Step ==
    \/ PushConst \/ PopTop \/ DupTop \/ BinOp \/ UnOp
    \/ JumpAlways \/ JumpIfFalse \/ JumpIfTrue
    \/ LoadName \/ StoreName \/ StoreFunc \/ AssignName
    \/ PushClosure \/ CallBuiltin \/ CallClosure \/ CallRefused \/ ReturnFromStack
    \/ NewArray \/ PushArg \/ SpreadArg
    \/ IterKeys \/ IterValues \/ IterNext \/ Length \/ GetIndex \/ GetProperty
    \/ ThrowTop \/ ThrowMatchError \/ UnwindToHandler \/ FrameFails

\* The machine stops when the program is done.
Next == Step \/ (done # <<>> /\ UNCHANGED vars)
Spec == Init /\ [][Next]_vars /\ WF_vars(Step)
(***************************************************************************)
(* Properties.                                                             *)
(***************************************************************************)

\* Every frame runs in a scope of the heap with cells of the heap, and only
\* the innermost frame can be about to unwind.
TypeOK ==
    /\ Len(chunks) = Len(prog.funcs) + 1 /\ \A i \in DOMAIN chunks : ~chunks[i].bad
    /\ \A i \in DOMAIN frames :
           /\ frames[i].fn \in 0..Len(prog.funcs)
           /\ frames[i].env \in DOMAIN envs
           /\ ToSet(frames[i].ups) \cup ToSet(frames[i].open) \subseteq DOMAIN cells
           /\ frames[i].ip > 0 /\ frames[i].last \in DOMAIN chunks[frames[i].fn + 1].code
    /\ \A i \in DOMAIN envs : envs[i].up < i /\ envs[i].consts \subseteq DOMAIN envs[i].vars
    /\ done # <<>> => Len(frames) = 1 /\ raised = <<>>

\* "the VM and the tree-walker stay byte-for-byte identical" (bytecode/mod.rs):
\* a program has logged the same and ends the same way under both engines.
AgreesWithTree ==
    [][done' # <<>> => LET tree == EvalProgram(prog)
                       IN  out' = tree.out /\ done'[1] = [kind |-> tree.kind, v |-> tree.v]]_vars
=============================================================================
