------------------------------ MODULE RunEvents ------------------------------
(***************************************************************************)
(* Persisted run events and their replay (run_events.rs, and               *)
(* stream_run_events in reply.rs) for one run.  The pump appends each      *)
(* event to the run's file and then publishes it to the subscribers; a     *)
(* client that asks for the events after some number is subscribed first,  *)
(* then served from the file, then from its subscription.  File and        *)
(* subscriber map are not protected by one lock, so the pump's two steps   *)
(* and the client's four interleave freely.                                *)
(*                                                                         *)
(* Events are their sequence numbers, taken to count up from 1; the last   *)
(* one is the terminal event.  A line that is read half-written does not   *)
(* parse and is skipped, which is the same as reading before it was        *)
(* written.                                                                *)
(***************************************************************************)
EXTENDS Naturals, Sequences, SequencesExt, Filtering

CONSTANTS
    Clients,    \* requests for GET /runs/{run_id}/events
    Reading,    \* the clients that keep reading their response
    MaxEvents,  \* events of the run, the terminal one last
    ChannelCap  \* capacity of a subscription (64 in subscribe)

ASSUME EventsAssumption == /\ Reading \subseteq Clients
                           /\ MaxEvents \in Nat \ {0}
                           /\ ChannelCap \in Nat \ {0}

VARIABLES
    made,       \* events the pump has handled
    publishing, \* the pump is between append and publish
    log,        \* the run's file
    subs,       \* the subscriber map's senders for this run
    chan,       \* events in each subscription
    pc,         \* where the task of each request is
    after,      \* after_seq of each request
    last,       \* last_seq
    backlog,    \* events loaded from the file and not sent yet
    got,        \* events each client was sent
    ended       \* why the task of a request returned

pumpVars == <<made, publishing, log>>
taskVars == <<pc, after, last, backlog, got, ended>>
vars == <<pumpVars, subs, chan, taskVars>>

IsTerminalEvent(e) == e = MaxEvents

\* load_after: the events of a file whose number is above n
EventsAfter(file, n) == Only(file, {e \in 1..MaxEvents : e > n})

\* has_terminal
HasTerminal == \E i \in DOMAIN log : IsTerminalEvent(log[i])

Init ==
    /\ made = 0
    /\ publishing = FALSE
    /\ log = <<>>
    /\ subs = {}
    /\ chan = [c \in Clients |-> <<>>]
    /\ pc = [c \in Clients |-> "new"]
    /\ after = [c \in Clients |-> 0]
    /\ last = [c \in Clients |-> 0]
    /\ backlog = [c \in Clients |-> <<>>]
    /\ got = [c \in Clients |-> <<>>]
    /\ ended = [c \in Clients |-> "no"]

-----------------------------------------------------------------------------
(* The pump: append_and_publish                                            *)

AppendEvent ==
    /\ ~publishing
    /\ made < MaxEvents
    /\ made' = made + 1
    /\ log' = Append(log, made')
    /\ publishing' = TRUE
    /\ UNCHANGED <<subs, chan, taskVars>>

\* The file cannot be written: the event is not published either.
AppendFails ==
    /\ ~publishing
    /\ made < MaxEvents
    /\ made' = made + 1
    /\ UNCHANGED <<publishing, log, subs, chan, taskVars>>

\* A subscription that can take the event: not full, its receiver not gone.
CanTake(c) == Len(chan[c]) < ChannelCap /\ pc[c] # "over"

\* publish: try_send to every subscriber; those that are full or gone are
\* removed, and all of them after the terminal event.
Publish ==
    LET taking == {c \in subs : CanTake(c)} IN
    /\ publishing
    /\ chan' = [c \in Clients |-> IF c \in taking THEN Append(chan[c], made) ELSE chan[c]]
    /\ subs' = IF IsTerminalEvent(made) THEN {} ELSE taking
    /\ publishing' = FALSE
    /\ UNCHANGED <<made, log, taskVars>>

-----------------------------------------------------------------------------
(* A request: stream_run_events                                            *)

Subscribe(c, n) ==
    /\ pc[c] = "new"
    /\ subs' = subs \cup {c}
    /\ after' = [after EXCEPT ![c] = n]
    /\ last' = [last EXCEPT ![c] = n]
    /\ pc' = [pc EXCEPT ![c] = "subscribed"]
    /\ UNCHANGED <<pumpVars, chan, backlog, got, ended>>

LoadAfter(c) ==
    /\ pc[c] = "subscribed"
    /\ backlog' = [backlog EXCEPT ![c] = EventsAfter(log, after[c])]
    /\ pc' = [pc EXCEPT ![c] = "backlog"]
    /\ UNCHANGED <<pumpVars, subs, chan, after, last, got, ended>>

\* The task returns; its receiver is dropped.
Return(c, why) ==
    /\ pc' = [pc EXCEPT ![c] = "over"]
    /\ ended' = [ended EXCEPT ![c] = why]

\* The file cannot be read: the client gets an error event.
LoadFails(c) ==
    /\ pc[c] = "subscribed"
    /\ Return(c, "error")
    /\ UNCHANGED <<pumpVars, subs, chan, after, last, backlog, got>>

\* Event e goes to the client; after the terminal event the task returns.
Deliver(c, e) ==
    /\ last' = [last EXCEPT ![c] = IF e > @ THEN e ELSE @]
    /\ got' = [got EXCEPT ![c] = Append(@, e)]
    /\ IF IsTerminalEvent(e) THEN Return(c, "terminal") ELSE UNCHANGED <<pc, ended>>

SendBacklog(c) ==
    /\ pc[c] = "backlog"
    /\ backlog[c] # <<>>
    /\ Deliver(c, Head(backlog[c]))
    /\ backlog' = [backlog EXCEPT ![c] = Tail(@)]
    /\ UNCHANGED <<pumpVars, subs, chan, after>>

\* Mutant of CheckTerminal: the file is not looked at.
CheckTerminalMutant(c) ==
    /\ pc[c] = "backlog"
    /\ backlog[c] = <<>>
    /\ pc' = [pc EXCEPT ![c] = "live"]
    /\ UNCHANGED <<pumpVars, subs, chan, after, last, backlog, got, ended>>

\* has_terminal reads the file once more: a finished run has nothing more.
CheckTerminal(c) ==
    /\ pc[c] = "backlog"
    /\ backlog[c] = <<>>
    /\ IF HasTerminal THEN Return(c, "finished")
                      ELSE pc' = [pc EXCEPT ![c] = "live"] /\ UNCHANGED ended
    /\ UNCHANGED <<pumpVars, subs, chan, after, last, backlog, got>>

\* The file cannot be read this time: taken as not finished.
CheckFails(c) ==
    /\ pc[c] = "backlog"
    /\ backlog[c] = <<>>
    /\ pc' = [pc EXCEPT ![c] = "live"]
    /\ ended' = [ended EXCEPT ![c] = "unchecked"]
    /\ UNCHANGED <<pumpVars, subs, chan, after, last, backlog, got>>

\* Mutant of Receive: what the file already held is sent again.
ReceiveMutant(c) ==
    /\ pc[c] = "live"
    /\ chan[c] # <<>>
    /\ Deliver(c, Head(chan[c]))
    /\ chan' = [chan EXCEPT ![c] = Tail(@)]
    /\ UNCHANGED <<pumpVars, subs, after, backlog>>

\* An event of the subscription; skipped when the client has it already.
Receive(c) ==
    /\ pc[c] = "live"
    /\ chan[c] # <<>>
    /\ IF Head(chan[c]) > last[c] THEN Deliver(c, Head(chan[c]))
                                  ELSE UNCHANGED <<pc, last, got, ended>>
    /\ chan' = [chan EXCEPT ![c] = Tail(@)]
    /\ UNCHANGED <<pumpVars, subs, after, backlog>>

\* recv returns None: the sender was removed and the channel is drained.
LiveClosed(c) ==
    /\ pc[c] = "live"
    /\ chan[c] = <<>>
    /\ c \notin subs
    /\ Return(c, "closed")
    /\ UNCHANGED <<pumpVars, subs, chan, after, last, backlog, got>>

\* The client has gone: the next send to it fails.
ClientGone(c) ==
    /\ \/ pc[c] = "backlog" /\ backlog[c] # <<>>
       \/ pc[c] = "live" /\ chan[c] # <<>>
    /\ Return(c, "gone")
    /\ UNCHANGED <<pumpVars, subs, chan, after, last, backlog, got>>

-----------------------------------------------------------------------------
PumpStep == AppendEvent \/ Publish
TaskStep(c) == \/ LoadAfter(c) \/ SendBacklog(c) \/ CheckTerminal(c)
               \/ Receive(c) \/ LiveClosed(c)

\* The run's events are all handled and no request can take a step.
Quiet ==
    /\ made = MaxEvents /\ ~publishing
    /\ \A c \in Clients : pc[c] = "over" \/ (pc[c] = "live" /\ chan[c] = <<>> /\ c \in subs)
    /\ UNCHANGED vars

Next ==
    \/ AppendEvent
    \/ AppendFails
    \/ Publish
    \/ \E c \in Clients :
          \/ \E n \in 0..MaxEvents : Subscribe(c, n)
          \/ LoadAfter(c) \/ LoadFails(c)
          \/ SendBacklog(c)
          \/ CheckTerminal(c) \/ CheckFails(c)
          \/ Receive(c) \/ LiveClosed(c)
          \/ ClientGone(c)
    \/ Quiet

Spec == Init /\ [][Next]_vars

\* The pump goes on; so does the task of a client that keeps reading.  A
\* client that stops reading blocks its own task, which gets no fairness.
FairSpec ==
    /\ Spec
    /\ WF_vars(PumpStep)
    /\ \A c \in Reading : WF_vars(TaskStep(c))

-----------------------------------------------------------------------------
(* Properties                                                              *)

\* Every variable has its type; no subscription holds more than it can.
TypeOK ==
    /\ made \in 0..MaxEvents
    /\ publishing \in BOOLEAN /\ (publishing => made > 0)
    /\ log \in Seq(1..MaxEvents)
    /\ subs \subseteq Clients
    /\ chan \in [Clients -> Seq(1..MaxEvents)]
    /\ \A c \in Clients : Len(chan[c]) <= ChannelCap
    /\ backlog \in [Clients -> Seq(1..MaxEvents)]
    /\ got \in [Clients -> Seq(1..MaxEvents)]
    /\ pc \in [Clients -> {"new", "subscribed", "backlog", "live", "over"}]
    /\ after \in [Clients -> 0..MaxEvents]
    /\ last \in [Clients -> 0..MaxEvents]
    /\ ended \in [Clients -> {"no", "unchecked", "error", "terminal", "finished",
                              "closed", "gone"}]

\* What a client was sent is, at any time, the beginning of what the file
\* holds after after_seq: nothing twice where file and subscription overlap,
\* nothing skipped between them, also when the client is cut off for being
\* slow or the file could not be written.
GapFree ==
    \A c \in Clients : pc[c] # "new" =>
        IsPrefix(got[c], EventsAfter(log, after[c]))

\* The request of a client that keeps reading comes to an end once the
\* run's terminal event is in the file, whenever the client subscribed
\* (unless the second look at the file failed).
StreamEnds ==
    \A c \in Reading : (HasTerminal /\ pc[c] # "new") ~>
        (pc[c] = "over" \/ ended[c] = "unchecked")
=============================================================================
