----------------------------- MODULE GtsEvents ------------------------------
(***************************************************************************)
(* The EventEmitter of GTS scripts (stdlib/modules/events.rs).  Listeners  *)
(* run inside emit and may themselves add and remove listeners or emit, so *)
(* emits nest.  A listener is [id, shows]: functions with the same name    *)
(* and parameters look alike to off, which compares what they show.        *)
(***************************************************************************)
EXTENDS Integers, Sequences, SequencesExt

CONSTANTS EmitterEvents,
          ListenerFns,      \* functions of the script: [id, shows]
          MaxEmitterCalls   \* calls of the emitter's methods (a bound)

VARIABLES listeners,    \* the store: event -> its listeners in order, for some events
          entered,      \* every listener ever added: [fn, once], its index being the id
          ran,          \* how often each of them was called
          emits,        \* emits in progress, the innermost last: [snap, at]
          emitted,      \* what the last emit returned
          emitterCalls

emitterVars == <<listeners, entered, ran, emits, emitted, emitterCalls>>

EmitterInit ==
    /\ listeners = [e \in {} |-> <<>>]
    /\ entered = <<>>
    /\ ran = <<>>
    /\ emits = <<>>
    /\ emitted = "none"
    /\ emitterCalls = 0

\* The script, or the listener that runs now, calls the emitter.
EmitterCalled == emitterCalls < MaxEmitterCalls /\ emitterCalls' = emitterCalls + 1

ListOf(e) == IF e \in DOMAIN listeners THEN listeners[e] ELSE <<>>
Listing(e, list) == [x \in DOMAIN listeners \cup {e} |-> IF x = e THEN list ELSE listeners[x]]
DropEvent(e) == [x \in DOMAIN listeners \ {e} |-> listeners[x]]

\* events_add, for on and once
EventsAdd(e, f, once) ==
    /\ EmitterCalled
    /\ entered' = Append(entered, [fn |-> f, once |-> once])
    /\ ran' = Append(ran, 0)
    /\ listeners' = Listing(e, Append(ListOf(e), Len(entered) + 1))
    /\ UNCHANGED <<emits, emitted>>

\* events_remove: the first listener that shows the same as f goes; an
\* event left without listeners goes too.
EventsRemove(e, f) ==
    /\ EmitterCalled
    /\ LET alike == {i \in DOMAIN ListOf(e) : entered[ListOf(e)[i]].fn.shows = f.shows}
           first == CHOOSE i \in alike : \A j \in alike : i <= j
           left  == IF alike = {} THEN ListOf(e) ELSE RemoveAt(ListOf(e), first)
       IN  listeners' = IF left = <<>> THEN DropEvent(e) ELSE Listing(e, left)
    /\ UNCHANGED <<entered, ran, emits, emitted>>

\* events_remove_all, of one event or of all
EventsRemoveAll(es) ==
    /\ EmitterCalled
    /\ listeners' = [x \in DOMAIN listeners \ es |-> listeners[x]]
    /\ UNCHANGED <<entered, ran, emits, emitted>>

\* Mutant of AfterEmit: the once listeners go when their calls are over.
KeepOnceMutant(list) == list

\* What stays of an event's listeners once they were put into a snapshot
AfterEmit(list) == SelectSeq(list, LAMBDA id : ~entered[id].once)

\* events_emit: nobody knows the event; its listeners have all gone, so that
\* an empty list is left; or the first one is called.
EventsEmit(e) ==
    /\ EmitterCalled
    /\ IF e \notin DOMAIN listeners
       THEN emitted' = "false" /\ UNCHANGED <<listeners, ran, emits>>
       ELSE /\ listeners' = Listing(e, AfterEmit(ListOf(e)))
            /\ IF ListOf(e) = <<>>
               THEN emitted' = "true" /\ UNCHANGED <<ran, emits>>
               ELSE /\ emits' = Append(emits, [snap |-> ListOf(e), at |-> 1])
                    /\ ran' = [ran EXCEPT ![ListOf(e)[1]] = @ + 1]
                    /\ UNCHANGED emitted
    /\ UNCHANGED entered

\* The running listener returns: the next of its emit is called, or the
\* emit returns to whoever called it.
ListenerReturns ==
    /\ emits # <<>>
    /\ LET n == Len(emits) top == emits[n]
       IN  IF top.at < Len(top.snap)
           THEN /\ emits' = [emits EXCEPT ![n].at = @ + 1]
                /\ ran' = [ran EXCEPT ![top.snap[top.at + 1]] = @ + 1]
                /\ UNCHANGED emitted
           ELSE emits' = Front(emits) /\ emitted' = "true" /\ UNCHANGED ran
    /\ UNCHANGED <<listeners, entered, emitterCalls>>

\* It fails: the rest of its emit is not called.
ListenerFails ==
    /\ emits # <<>>
    /\ emits' = Front(emits)
    /\ emitted' = "error"
    /\ UNCHANGED <<listeners, entered, ran, emitterCalls>>

EmitterNext ==
    \/ \E e \in EmitterEvents :
          \/ \E f \in ListenerFns : EventsRemove(e, f) \/ \E once \in BOOLEAN : EventsAdd(e, f, once)
          \/ EventsEmit(e)
    \/ \E es \in {EmitterEvents} \cup {{e} : e \in EmitterEvents} : EventsRemoveAll(es)
    \/ ListenerReturns
    \/ ListenerFails

---------------------------------------------------------------------------
\* A once listener is called at most once, however emits nest and fail, and
\* one that is still in the store was never called; no listener is called
\* twice by one emit; and no listener is in the store twice.
OnceFiresOnce ==
    /\ \A id \in DOMAIN entered : entered[id].once =>
          /\ ran[id] <= 1
          /\ \A e \in DOMAIN listeners : \A i \in DOMAIN listeners[e] : listeners[e][i] = id => ran[id] = 0
    /\ \A i \in DOMAIN emits : \A j, k \in DOMAIN emits[i].snap :
          emits[i].snap[j] = emits[i].snap[k] => j = k
    /\ \A e, f \in DOMAIN listeners : \A i \in DOMAIN listeners[e], j \in DOMAIN listeners[f] :
          listeners[e][i] = listeners[f][j] => e = f /\ i = j
=============================================================================
