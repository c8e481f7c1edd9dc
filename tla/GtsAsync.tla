----------------------------- MODULE GtsAsync ------------------------------
(***************************************************************************)
(* Promises and the completion queue of the GTS virtual machine            *)
(* (object/promise.rs, object/vm.rs, async_runtime/completion.rs).  One    *)
(* thread runs the script, waits and settles; background workers only      *)
(* append to the queue.  What the thread is doing is a stack of Rust       *)
(* calls, so that a handler that runs while completions are drained, or    *)
(* an await inside a timer callback, meets the state it really meets.      *)
(*                                                                         *)
(* async_promises is a RefCell that drain_async_completions keeps borrowed *)
(* while it settles a promise (the scrutinee of an if let, edition 2021):  *)
(* a handler that registers work or waits in that time panics.             *)
(***************************************************************************)
EXTENDS Integers, Sequences, FiniteSets, SequencesExt

CONSTANTS MaxPromises,  \* promises the script creates
          MaxOps,       \* operations the script runs
          MaxTicks      \* calls setInterval makes (1000 in the code)

VARIABLES promises,     \* [state, conts, parent], by promise
          registered,   \* async_promises, by promise (the completion id)
          pending,      \* async_pending
          tasks,        \* background workers still running, by completion id
          queue,        \* AsyncCompletionQueue: [id, ok]
          stack,        \* what the VM thread is doing, the innermost last
          expired,      \* the deadline has passed
          panicked,     \* a RefCell was borrowed twice
          ops           \* operations run so far

asyncVars == <<promises, registered, pending, tasks, queue, stack, expired, panicked, ops>>

Top       == Last(stack)
Below     == Front(stack)
Doing(d)  == stack # <<>> /\ Top.do = d
Ids       == DOMAIN promises
Room      == Len(promises) < MaxPromises
IsPending(p) == promises[p].state = "pending"

Frame(d)     == [do |-> d]
\* await p; unless p is rejected, promise next is settled with ok.
Awaiting(p, next, ok) == [do |-> "await", p |-> p, waited |-> FALSE, next |-> next, ok |-> ok]
\* What a handler, an executor or a timer callback does.
Fns == {[do |-> "value"], [do |-> "throw"], [do |-> "request"]}
         \cup {[do |-> "await", p |-> p] : p \in Ids}

Borrowed == \E i \in DOMAIN stack : stack[i].do = "drain" /\ stack[i].busy

AsyncInit ==
    /\ promises = <<>> /\ registered = {} /\ pending = 0 /\ tasks = {} /\ queue = <<>>
    /\ stack = <<Frame("script")>> /\ expired = FALSE /\ panicked = FALSE /\ ops = 0

---------------------------------------------------------------------------
SettleDropsMutant(ps, p, ok, st) ==
    IF p = 0 \/ (p # 0 /\ ps[p].state # "pending") THEN promises' = ps /\ stack' = st
    ELSE /\ promises' = [ps EXCEPT ![p].state = IF ok THEN "fulfilled" ELSE "rejected",
                                   ![p].conts = <<>>]
         /\ stack' = Append(st, [do |-> "settle", ok |-> ok,
                                 conts |-> IF ps[p].conts = <<>> THEN <<>>
                                           ELSE <<Head(ps[p].conts)>>])

\* Promise::settle: the first outcome counts, and the handlers run at once,
\* on top of the stack st.  Promise 0 stands for a result nobody keeps.
Settle(ps, p, ok, st) ==
    IF p = 0 \/ (p # 0 /\ ps[p].state # "pending") THEN promises' = ps /\ stack' = st
    ELSE /\ promises' = [ps EXCEPT ![p].state = IF ok THEN "fulfilled" ELSE "rejected",
                                   ![p].conts = <<>>]
         /\ stack' = Append(st, [do |-> "settle", conts |-> ps[p].conts, ok |-> ok])

\* Promise::new, and Promise::new with a handler to come.
Fresh(parent) == [state |-> "pending", conts |-> <<>>, parent |-> parent]

\* create_async_completion_promise and the worker it starts.
Register(p) ==
    /\ registered' = registered \cup {p}
    /\ pending' = pending + 1
    /\ tasks' = tasks \cup {p}

Panics ==
    /\ panicked' = TRUE
    /\ stack' = <<>>
    /\ UNCHANGED <<promises, registered, pending, tasks, queue>>

\* A handler runs; its result settles promise next (resolve_chained_promise).
RunFn(f, next, st) ==
    \/ /\ f.do \in {"value", "throw"}
       /\ Settle(promises, next, f.do = "value", st)
       /\ UNCHANGED <<registered, pending, tasks, queue, panicked>>
    \/ /\ f.do = "request"
       /\ IF Borrowed THEN Panics
          ELSE /\ Room
               /\ Register(Len(promises) + 1)
               /\ promises' = Append(promises, [Fresh(0) EXCEPT !.conts =
                                 IF next = 0 THEN <<>> ELSE <<[kind |-> "adopt", next |-> next]>>])
               /\ stack' = st
               /\ UNCHANGED <<queue, panicked>>
    \/ /\ f.do = "await"
       /\ stack' = Append(st, Awaiting(f.p, next, TRUE))
       /\ UNCHANGED <<promises, registered, pending, tasks, queue, panicked>>

\* finally: only an error of the handler replaces the outcome ok; a promise it
\* returns is not followed.
RunFinally(f, next, ok, st) ==
    \/ /\ f.do \in {"value", "throw"}
       /\ Settle(promises, next, ok /\ f.do = "value", st)
       /\ UNCHANGED <<registered, pending, tasks, queue, panicked>>
    \/ /\ f.do = "request"
       /\ IF Borrowed THEN Panics
          ELSE /\ Room
               /\ Register(Len(promises) + 1)
               /\ Settle(Append(promises, Fresh(0)), next, ok, st)
               /\ UNCHANGED <<queue, panicked>>
    \/ /\ f.do = "await"
       /\ stack' = Append(st, Awaiting(f.p, next, ok))
       /\ UNCHANGED <<promises, registered, pending, tasks, queue, panicked>>

---------------------------------------------------------------------------
(* What a script does. *)
Op == Doing("script") /\ ops < MaxOps /\ ops' = ops + 1

\* http.requestAsync and http.streamAsync; a request that cannot be built is
\* a rejected promise.
RequestAsync ==
    /\ Op /\ Room
    /\ Register(Len(promises) + 1)
    /\ promises' = Append(promises, Fresh(0))
    /\ UNCHANGED <<queue, stack, expired, panicked>>

\* new Promise(executor): the executor settles it, or nobody ever does.
PromiseConstructor ==
    /\ Op /\ Room
    /\ \E s \in {"pending", "fulfilled", "rejected"} :
         promises' = Append(promises, [Fresh(0) EXCEPT !.state = s])
    /\ UNCHANGED <<registered, pending, tasks, queue, stack, expired, panicked>>

\* p.then(f), p.catch(f), p.finally(f): Promise::add_continuation.
AddContinuation(p, kind, f) ==
    LET next == Len(promises) + 1
        cont == [kind |-> kind, next |-> next, f |-> f]
    IN  /\ Op /\ Room
        /\ promises' = IF IsPending(p)
                       THEN Append([promises EXCEPT ![p].conts = Append(@, cont)], Fresh(p))
                       ELSE Append(promises, Fresh(p))
        /\ stack' = IF IsPending(p) THEN stack
                    ELSE Append(stack, [do |-> "settle", conts |-> <<cont>>,
                                        ok |-> promises[p].state = "fulfilled"])
        /\ UNCHANGED <<registered, pending, tasks, queue, expired, panicked>>

Await(p) ==
    /\ Op
    /\ stack' = Append(stack, Awaiting(p, 0, TRUE))
    /\ UNCHANGED <<promises, registered, pending, tasks, queue, expired, panicked>>

\* Promise.all, allSettled and race over ps: wait() on one after another.
Combine(kind, ps) ==
    /\ Op /\ Room
    /\ promises' = Append(promises, Fresh(0))
    /\ stack' = Append(stack, [do |-> "combine", kind |-> kind, left |-> ps,
                               next |-> Len(promises) + 1])
    /\ UNCHANGED <<registered, pending, tasks, queue, expired, panicked>>

\* setTimeout and setInterval: the callback runs on this thread, once or
\* MaxTicks times, before the call returns.
SetTimer(f, ticks) ==
    /\ Op
    /\ pending' = pending + 1
    /\ stack' = Append(stack, [do |-> "timer", left |-> [i \in 1 .. ticks |-> f]])
    /\ UNCHANGED <<promises, registered, tasks, queue, expired, panicked>>

\* The script is over: run_source waits for what is outstanding.
ScriptEnds ==
    /\ Doing("script")
    /\ stack' = <<Frame("exit"), Frame("wait")>>
    /\ UNCHANGED <<promises, registered, pending, tasks, queue, expired, panicked, ops>>

ScriptStep ==
    \/ RequestAsync \/ PromiseConstructor \/ ScriptEnds
    \/ \E p \in Ids, f \in Fns, kind \in {"then", "catch", "finally"} : AddContinuation(p, kind, f)
    \/ \E p \in Ids : Await(p)
    \/ \E p, q \in Ids, kind \in {"all", "allSettled", "race"} : Combine(kind, <<p, q>>)
    \/ \E f \in Fns, ticks \in {1, MaxTicks} : SetTimer(f, ticks)

---------------------------------------------------------------------------
(* What the VM thread does on its own. *)

\* One handler of a settled promise (prom_then, prom_catch, prom_finally).
RunContinuation ==
    /\ Doing("settle") /\ Top.conts # <<>>
    /\ LET c    == Head(Top.conts)
           st   == Append(Below, [Top EXCEPT !.conts = Tail(@)])
           pass == \/ c.kind = "adopt"
                   \/ c.kind = "then" /\ ~Top.ok
                   \/ c.kind = "catch" /\ Top.ok
       IN  IF pass THEN /\ Settle(promises, c.next, Top.ok, st)
                        /\ UNCHANGED <<registered, pending, tasks, queue, panicked>>
           ELSE IF c.kind = "finally" THEN RunFinally(c.f, c.next, Top.ok, st)
           ELSE RunFn(c.f, c.next, st)
    /\ UNCHANGED <<expired, ops>>

SettleReturns ==
    /\ Doing("settle") /\ Top.conts = <<>>
    /\ stack' = Below
    /\ UNCHANGED <<promises, registered, pending, tasks, queue, expired, panicked, ops>>

\* await: wait_async if the promise is pending, then Promise::wait.  An error
\* of the promise becomes an error of the function that waits.
AwaitWaits ==
    /\ Doing("await") /\ IsPending(Top.p) /\ ~Top.waited
    /\ stack' = Append(Append(Below, [Top EXCEPT !.waited = TRUE]), Frame("wait"))
    /\ UNCHANGED <<promises, registered, pending, tasks, queue, expired, panicked, ops>>

AwaitReturns ==
    /\ Doing("await") /\ ~IsPending(Top.p)
    /\ Settle(promises, Top.next, Top.ok /\ promises[Top.p].state = "fulfilled", Below)
    /\ UNCHANGED <<registered, pending, tasks, queue, expired, panicked, ops>>

CombineNext ==
    /\ Doing("combine") /\ Top.left # <<>> /\ ~IsPending(Head(Top.left))
    /\ LET ok   == promises[Head(Top.left)].state = "fulfilled"
           last == \/ Len(Top.left) = 1
                   \/ Top.kind = "race"
                   \/ Top.kind = "all" /\ ~ok
       IN  IF last THEN Settle(promises, Top.next, ok \/ Top.kind = "allSettled", Below)
           ELSE /\ stack' = Append(Below, [Top EXCEPT !.left = Tail(@)])
                /\ UNCHANGED promises
    /\ UNCHANGED <<registered, pending, tasks, queue, expired, panicked, ops>>

TimerRuns ==
    /\ Doing("timer") /\ Top.left # <<>>
    /\ RunFn(Head(Top.left), 0, Append(Below, [Top EXCEPT !.left = Tail(@)]))
    /\ UNCHANGED <<expired, ops>>

TimerReturns ==
    /\ Doing("timer") /\ Top.left = <<>>
    /\ pending' = pending - 1
    /\ stack' = Below
    /\ UNCHANGED <<promises, registered, tasks, queue, expired, panicked, ops>>

\* wait_async: drain, then the deadline, then sleep until something arrives.
WaitDrains ==
    /\ Doing("wait") /\ pending > 0 /\ queue # <<>> /\ ~Borrowed
    /\ queue' = <<>>
    /\ stack' = Append(stack, [do |-> "drain", batch |-> queue, busy |-> FALSE])
    /\ UNCHANGED <<promises, registered, pending, tasks, expired, panicked, ops>>

\* Inside a drain the first look at async_promises panics.
WaitPanics ==
    /\ Doing("wait") /\ pending > 0 /\ (queue # <<>> \/ ~expired) /\ Borrowed
    /\ Panics
    /\ UNCHANGED <<expired, ops>>

WaitReturnsMutant ==
    /\ Doing("wait")
    /\ pending = 0 \/ queue = <<>>
    /\ stack' = Below
    /\ UNCHANGED <<promises, registered, pending, tasks, queue, expired, panicked, ops>>

WaitReturns ==
    /\ Doing("wait")
    /\ pending = 0 \/ (queue = <<>> /\ expired)
    /\ stack' = Below
    /\ UNCHANGED <<promises, registered, pending, tasks, queue, expired, panicked, ops>>

\* drain_async_completions, one completion at a time.
DrainSettles ==
    /\ Doing("drain") /\ Top.batch # <<>> /\ ~Top.busy
    /\ LET c == Head(Top.batch)
       IN  /\ registered' = registered \ {c.id}
           /\ Settle(promises, IF c.id \in registered THEN c.id ELSE 0, c.ok,
                     Append(Below, [Top EXCEPT !.busy = TRUE]))
    /\ UNCHANGED <<pending, tasks, queue, expired, panicked, ops>>

DrainCountsMutant ==
    /\ Doing("drain") /\ Top.busy
    /\ stack' = Append(Below, [Top EXCEPT !.busy = FALSE, !.batch = Tail(@)])
    /\ UNCHANGED <<promises, registered, pending, tasks, queue, expired, panicked, ops>>

DrainCounts ==
    /\ Doing("drain") /\ Top.busy
    /\ pending' = IF pending > 0 THEN pending - 1 ELSE 0
    /\ stack' = Append(Below, [Top EXCEPT !.busy = FALSE, !.batch = Tail(@)])
    /\ UNCHANGED <<promises, registered, tasks, queue, expired, panicked, ops>>

DrainReturns ==
    /\ Doing("drain") /\ Top.batch = <<>>
    /\ stack' = Below
    /\ UNCHANGED <<promises, registered, pending, tasks, queue, expired, panicked, ops>>

VmStep ==
    \/ RunContinuation \/ SettleReturns \/ AwaitWaits \/ AwaitReturns \/ CombineNext
    \/ TimerRuns \/ TimerReturns \/ WaitDrains \/ WaitPanics \/ WaitReturns
    \/ DrainSettles \/ DrainCounts \/ DrainReturns

---------------------------------------------------------------------------
\* A worker has its answer: AsyncCompletionSender::resolve or reject.
Complete(id) ==
    /\ id \in tasks
    /\ \E ok \in BOOLEAN : queue' = Append(queue, [id |-> id, ok |-> ok])
    /\ tasks' = tasks \ {id}
    /\ UNCHANGED <<promises, registered, pending, stack, expired, panicked, ops>>

DeadlinePasses ==
    /\ ~expired /\ stack # <<>>
    /\ expired' = TRUE
    /\ UNCHANGED <<promises, registered, pending, tasks, queue, stack, panicked, ops>>

AsyncNext == ScriptStep \/ VmStep \/ DeadlinePasses \/ \E id \in Ids : Complete(id)

\* The thread goes on while it can, and every request gets an answer or an
\* error from the client library.
AsyncSpec ==
    /\ AsyncInit /\ [][AsyncNext]_asyncVars
    /\ WF_asyncVars(VmStep)
    /\ \A id \in 1 .. MaxPromises : WF_asyncVars(Complete(id))

---------------------------------------------------------------------------
\* A script that ends without running into its deadline leaves no request
\* behind: run_source returns only when every completion has been delivered,
\* whatever handlers and timers did to the counter meanwhile.
EndMeansIdle ==
    Doing("exit") /\ ~expired => registered = {} /\ tasks = {} /\ queue = <<>> /\ pending = 0

\* No handler is lost: whenever the script has control again, a promise made
\* by then, catch or finally is settled once its parent is, unless it follows
\* a request of its handler that is still out.
NoLostContinuation ==
    Doing("script") =>
        \A p \in Ids : promises[p].parent # 0 /\ ~IsPending(promises[p].parent) /\ IsPending(p) =>
            \E r \in registered : \E i \in DOMAIN promises[r].conts :
                promises[r].conts[i].next = p

\* Promises a registered request will settle: itself, and what is chained to it.
Fed ==
    LET step(S) == S \cup {c.next : c \in UNION {Range(promises[p].conts) : p \in S}}
        grow[n \in Nat] == IF n = 0 THEN registered ELSE step(grow[n - 1])
    IN  grow[MaxPromises]

\* An await at the top of a script on a request, or on a promise chained to
\* one, returns; a handler that touches async_promises, or the deadline, are
\* the only ways it does not.
TopAwaitReturns ==
    \A p \in 1 .. MaxPromises :
        Doing("await") /\ Len(stack) = 2 /\ Top.p = p /\ p \in Fed
            ~> Doing("script") \/ panicked \/ expired
=============================================================================
